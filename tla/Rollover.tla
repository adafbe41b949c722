------------------------------ MODULE Rollover ------------------------------
(***************************************************************************)
(* How the parties to a key or layout rollover stay in step: the operator  *)
(* edits the route file, SIGHUP makes the daemon load it, pesigitg-ctl     *)
(* backend-config reads it to provision backends, and these mint the CIDs  *)
(* that the datapath routes by and pesigitg-ctl whoami explains.  Each     *)
(* step happens when its party gets to it.                                 *)
(***************************************************************************)
EXTENDS Cid

CONSTANTS
  Files,        \* the contents the route file may have: sequences of raw configs
  Backend,      \* server ids of the backends: [bits, n]
  Nonce,        \* nonces the encoder may draw
  Low           \* low bits of a first octet it may draw

\* Servers are numbered from 1; ids and nonces are octets, low is five bits.
ASSUME RolloverAssumption ==
  /\ \A f \in Files : \A i \in DOMAIN f : DOMAIN f[i].servers \subseteq Nat \ {0}
  /\ \A b \in Backend : b.bits \in Octets(b.n)
  /\ Low \subseteq 0..31

VARIABLES
  file,         \* the route file
  table,        \* the live ConfigTable: config_id -> config
  encoder,      \* backend -> its QuicLbEncoder, if it has one
  minted        \* the CID of some connection and the encoder it came from

vars == <<file, table, encoder, minted>>

NoKey == "no key"

-----------------------------------------------------------------------------
(* pesigitg-routing's route.rs.  A raw config has the fields of RawConfig;  *)
(* key is NoKey, a member of Key or something that is no key;               *)
(* max_key_age_secs is -1 if absent.                                        *)

Mode(raw) ==
  CASE raw.key = NoKey -> "plaintext"
    [] raw.key # NoKey /\ raw.server_id_length + raw.nonce_length = BLOCK -> "single_pass"
    [] OTHER -> "four_pass"

\* RouteConfig::validate, parse_hex_key, parse_server: no error.
Validates(raw) ==
  /\ raw.config_id \in 0..6
  /\ raw.server_id_length \in 1..MAX_SID
  /\ raw.nonce_length \in MIN_NONCE..MAX_NONCE
  /\ raw.server_id_length + raw.nonce_length <= MAX_PAYLOAD
  /\ raw.key \in Key \cup {NoKey}
  /\ \A i \in DOMAIN raw.servers : raw.servers[i].id.n = raw.server_id_length
  /\ raw.max_key_age_secs # 0

\* The config that validate returns.
Config(raw) ==
  [config_id |-> raw.config_id,
   first_octet_encodes_cid_length |-> raw.first_octet_encodes_cid_length,
   server_id_length |-> raw.server_id_length, nonce_length |-> raw.nonce_length,
   mode |-> Mode(raw), key |-> raw.key, servers |-> raw.servers]

\* parse_routes returns Ok.
Parses(f) ==
  /\ f # <<>>
  /\ \A i \in DOMAIN f : Validates(f[i])
  /\ \A i, j \in DOMAIN f : f[i].config_id = f[j].config_id => i = j

\* ConfigTable::from_str: the configs by their config_id.
from_str(f) ==
  [c \in {f[i].config_id : i \in DOMAIN f} |->
     Config(f[CHOOSE i \in DOMAIN f : f[i].config_id = c])]

-----------------------------------------------------------------------------
(* The datapath, as far as the CID decides.                                 *)

Unroutable == [verdict |-> "unroutable", addr |-> "none"]
Panics == [verdict |-> "panic", addr |-> "none"]

Verdict(dcid, config) ==
  LET i == resolve_server_idx(dcid, config)
  IN  CASE i = NoServer -> Unroutable
        [] i = PanicIdx -> Panics
        [] OTHER -> [verdict |-> "routes", addr |-> config.servers[i].address]

\* process_udp's CID path.
RouteUdp(q) ==
  IF lookup_config(q, table) = {} THEN Unroutable
  ELSE LET l == CHOOSE l \in lookup_config(q, table) : TRUE
       IN  Verdict(l.dcid, l.config)

\* process_icmp's strategy 1, for an error that echoes a packet from the backend.
RouteIcmp(q) ==
  LET scid == {c \in extract_scid(q) : c.octet \div 32 \in DOMAIN table}
  IN  IF scid = {} THEN Unroutable
      ELSE LET c == CHOOSE c \in scid : TRUE
           IN  Verdict(c, table[c.octet \div 32])

-----------------------------------------------------------------------------
(* pesigitg-ctl backend-config and whoami, against the file and online       *)
(* against what /config shows: configs without keys, and without             *)
(* first_octet_encodes_cid_length.                                           *)

View(config) ==
  [config_id |-> config.config_id, encryption |-> config.mode,
   server_id_length |-> config.server_id_length, nonce_length |-> config.nonce_length,
   servers |-> config.servers]

Lists(servers, id) == \E i \in DOMAIN servers : servers[i].id = id

\* One match per config that lists the server.
analyze_backend_config_offline(id, configs, no_key) ==
  {[config_id |-> c.config_id, server_id |-> id, nonce_length |-> c.nonce_length,
    first_octet_encodes_cid_length |-> c.first_octet_encodes_cid_length,
    encryption |-> c.mode,
    key |-> IF no_key THEN NoKey ELSE c.key,
    key_redacted |-> no_key /\ c.mode # "plaintext"]
   : c \in {c \in configs : Lists(c.servers, id)}}

analyze_backend_config_online(id, views) ==
  {[config_id |-> v.config_id, server_id |-> id, nonce_length |-> v.nonce_length,
    first_octet_encodes_cid_length |-> FALSE,
    encryption |-> v.encryption, key |-> NoKey,
    key_redacted |-> v.encryption # "plaintext"]
   : v \in {v \in views : Lists(v.servers, id)}}

Whoami(verdict) == [verdict |-> verdict, addr |-> "none"]

\* The config both analyzers look for, the reserved id 7 and short CIDs aside.
WhoamiLookup(cid, configs) == {c \in configs : c.config_id = cid.octet \div 32}

\* Mutant: the file's configs are searched by position.
WhoamiAnyConfig(cid, configs) ==
  LET cfg == configs
  IN  IF cid.octet \div 32 = 7 THEN Whoami("reserved")
      ELSE IF cfg = {} THEN Whoami("no config")
      ELSE LET c == CHOOSE c \in cfg : TRUE
           IN  IF cid.n < cid_payload_length(c) THEN Whoami("truncated") ELSE Verdict(cid, c)

analyze_whoami_offline(cid, configs) ==
  LET cfg == WhoamiLookup(cid, configs)
  IN  IF cid.octet \div 32 = 7 THEN Whoami("reserved")
      ELSE IF cfg = {} THEN Whoami("no config")
      ELSE LET c == CHOOSE c \in cfg : TRUE
           IN  IF cid.n < cid_payload_length(c) THEN Whoami("truncated") ELSE Verdict(cid, c)

analyze_whoami(cid, views) ==
  LET cfg == WhoamiLookup(cid, views)
  IN  IF cid.octet \div 32 = 7 THEN Whoami("reserved")
      ELSE IF cfg = {} THEN Whoami("no config")
      ELSE LET v == CHOOSE v \in cfg : TRUE
               i == find_server_idx(v, Slice(cid.bits, 0, v.server_id_length))
           IN  IF cid.n < cid_payload_length(v) THEN Whoami("truncated")
               ELSE IF v.encryption # "plaintext" THEN Whoami("encrypted")
               ELSE IF i = NoServer THEN Unroutable
               ELSE [verdict |-> "routes", addr |-> v.servers[i].address]

-----------------------------------------------------------------------------
(* The steps.                                                               *)

Configs(t) == {t[c] : c \in DOMAIN t}

Init ==
  /\ file \in {f \in Files : Parses(f)}
  /\ table = from_str(file)
  /\ encoder = [b \in Backend |-> {}]
  /\ minted = {}

Edit(f) == file' = f /\ UNCHANGED <<table, encoder, minted>>

\* reload_config: a file that does not parse leaves the table as it is.
Sighup ==
  /\ table' = IF Parses(file) THEN from_str(file) ELSE table
  /\ UNCHANGED <<file, encoder, minted>>

\* A backend takes one of the matches; without the key an encrypted one is no use.
Provision(b, matches) ==
  /\ \E m \in {m \in matches : ~m.key_redacted} :
       LET e == [config_id |-> m.config_id, server_id |-> m.server_id,
                 nonce_length |-> m.nonce_length, mode |-> m.encryption, key |-> m.key,
                 encode_cid_length |-> m.first_octet_encodes_cid_length]
       IN  /\ EncoderAccepts(e)
           /\ encoder' = [encoder EXCEPT ![b] = {e}]
  /\ UNCHANGED <<file, table, minted>>

\* cmd_backend_config --route-config reads the file, which need not be loaded yet.
ProvisionOffline(b) ==
  \E no_key \in BOOLEAN :
    /\ Parses(file)
    /\ Provision(b, analyze_backend_config_offline(b, Configs(from_str(file)), no_key))

\* cmd_backend_config with a target asks the daemon.
ProvisionOnline(b) ==
  Provision(b, analyze_backend_config_online(b, {View(c) : c \in Configs(table)}))

\* generate_cid; a connection uses the CID from now on.
generate_cid(b, nonce, low) ==
  /\ \E e \in encoder[b] :
       LET cid == encode_into(e, Slice(nonce, 0, e.nonce_length), low)
       IN  cid.bits # Panic /\ minted' = {[cid |-> cid, by |-> e]}
  /\ UNCHANGED <<file, table, encoder>>

Next ==
  \/ \E f \in Files : Edit(f)
  \/ Sighup
  \/ \E b \in Backend : ProvisionOffline(b) \/ ProvisionOnline(b)
  \/ \E b \in Backend, nonce \in Nonce, low \in Low : generate_cid(b, nonce, low)

Spec == Init /\ [][Next]_vars

-----------------------------------------------------------------------------
(* Properties                                                               *)

\* The live config still has the layout and the key the encoder was given.
SameWire(e, config) ==
  /\ config.server_id_length = e.server_id.n /\ config.nonce_length = e.nonce_length
  /\ config.mode = e.mode /\ config.key = e.key

\* Packets that carry a CID: long header, short header with more octets behind.
Carriers(cid) ==
  {[long |-> TRUE, cid |-> cid, rest |-> {}, n |-> cid.n]} \cup
  {[long |-> FALSE, cid |-> cid, rest |-> r, n |-> cid.n + 1] : r \in Octets(1)}

\* The addresses a server id stands for in a config: where provisioning found it.
HomeOf(e, config) ==
  config.servers[find_server_idx(config, e.server_id.bits)].address

\* Whatever edits, reloads and provisionings come in between, a CID reaches the
\* backend that minted it as long as the daemon's table holds, under the CID's
\* config_id, the layout and key the backend was provisioned with and lists the
\* server: by either header form, and in an ICMP error (resolve_server_idx undoes
\* encode_into, lookup_config finds the slot first_octet names).
CidReachesItsServer ==
  \A m \in minted :
    (/\ m.by.config_id \in DOMAIN table
     /\ SameWire(m.by, table[m.by.config_id])
     /\ Lists(table[m.by.config_id].servers, m.by.server_id))
    => LET home == [verdict |-> "routes", addr |-> HomeOf(m.by, table[m.by.config_id])]
       IN  /\ \A q \in Carriers(m.cid) : RouteUdp(q) = home
           /\ RouteIcmp([long |-> TRUE, cid |-> m.cid, rest |-> {}, n |-> m.cid.n]) = home

\* whoami --route-config says of a CID what the datapath does with it, if the file
\* is the one the daemon loaded; online whoami never contradicts the datapath.
\* ("report which backend the flow would land on", man/pesigitg-ctl.8.md)
WhoamiAgrees ==
  \A m \in minted :
    LET long == [long |-> TRUE, cid |-> m.cid, rest |-> {}, n |-> m.cid.n]
        off  == analyze_whoami_offline(m.cid, Configs(from_str(file)))
        on   == analyze_whoami(m.cid, {View(c) : c \in Configs(table)})
    IN  /\ (Parses(file) /\ from_str(file) = table) =>
             IF off.verdict \in {"routes", "panic"} THEN RouteUdp(long) = off
             ELSE RouteUdp(long) = Unroutable
        /\ on.verdict = "encrypted" \/
             IF on.verdict = "routes" THEN RouteUdp(long) = on
             ELSE RouteUdp(long) = Unroutable

\* A config that loads can be used: "nonce_length = 4..18 ... The sum must not
\* exceed 19" (man/pesigitg-lb.toml.5.md), so decoding a CID of its length under it
\* does not leave the bounds of a block (decrypt_four_pass).
LoadedConfigsDecode ==
  \A c \in DOMAIN table :
    resolve_server_idx([octet |-> c * 32, bits |-> {}, n |-> cid_payload_length(table[c])],
                       table[c]) # PanicIdx
=============================================================================
