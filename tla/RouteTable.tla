----------------------------- MODULE RouteTable -----------------------------
(***************************************************************************)
(* The route table of pesigitgd (config/route.rs, neigh.rs): the servers   *)
(* of the active configurations and the fallback pool derived from them.   *)
(*                                                                         *)
(* `servers` is every slot's server list, concatenated in slot order: all  *)
(* the code modelled here walks the table that way.  A MAC is abstracted   *)
(* to whether it is known; a server id, a key and a CID layout play no     *)
(* part in what this module computes (KeyAge and Datapath model them).     *)
(***************************************************************************)
EXTENDS Integers, Sequences

CONSTANTS
  Addr,      \* backend addresses
  ConfigId   \* config_id values in use, a subset of 0..6

ASSUME ConfigIdAssumption == ConfigId \subseteq 0..6

\* One [[configs.servers]] entry of the route file, with its slot.
RawServer == [config: ConfigId, address: Addr, mac: BOOLEAN, draining: BOOLEAN]

\* A parsed entry: the runtime fields are mirrored from the health checker.
Server == [config: ConfigId, address: Addr, mac: BOOLEAN, draining: BOOLEAN,
           healthy: BOOLEAN, transitions: Nat]

\* A route file that parses: its entries, in slot order.
RouteFile(f) ==
  /\ f \in Seq(RawServer)
  /\ \A i, j \in DOMAIN f : i < j => f[i].config <= f[j].config

\* ConfigTable::from_file: every server starts unhealthy, the pool is empty.
from_file(f) ==
  [servers |-> [i \in DOMAIN f |->
                 [config |-> f[i].config, address |-> f[i].address,
                  mac |-> f[i].mac, draining |-> f[i].draining,
                  healthy |-> FALSE, transitions |-> 0]],
   fallback_servers |-> << >>]

addresses(t) == {t.servers[i].address : i \in DOMAIN t.servers}

has_draining_servers(t) == \E i \in DOMAIN t.servers : t.servers[i].draining

has_unresolved_macs(t) == \E i \in DOMAIN t.servers : ~t.servers[i].mac

\* The calls of neigh::resolve_macs, one per slot.  neigh[c] is the set of
\* addresses the kernel's answer to slot c's query has a usable MAC for; a
\* failed query leaves the slot as it is, which is the answer {}.
resolve_macs(t, neigh) ==
  [t EXCEPT !.servers = [i \in DOMAIN t.servers |->
     [t.servers[i] EXCEPT
        !.mac = t.servers[i].mac
                \/ t.servers[i].address \in neigh[t.servers[i].config]]]]

\* May a new flow be assigned to this server?
Assignable(s) == s.healthy /\ s.mac /\ ~s.draining

\* Mutant: draining servers are kept in the pool.
PushDrainingToo(pool, s) ==
  IF s.healthy /\ s.mac /\ \A k \in DOMAIN pool : pool[k].address # s.address
  THEN Append(pool, s)
  ELSE pool

\* ConfigTable::rebuild_fallback_servers: the assignable servers in slot
\* order, the first entry of an address only.
PushUnlessPresent(pool, s) ==
  IF Assignable(s) /\ \A k \in DOMAIN pool : pool[k].address # s.address
  THEN Append(pool, s)
  ELSE pool

\* The pool after the first k slots.
PoolOf(servers) ==
  LET pool[k \in 0..Len(servers)] ==
        IF k = 0 THEN << >> ELSE PushUnlessPresent(pool[k - 1], servers[k])
  IN  pool[Len(servers)]

rebuild_fallback_servers(t) ==
  [t EXCEPT !.fallback_servers = PoolOf(t.servers)]

-----------------------------------------------------------------------------
(* What the pool is to be                                                   *)

\* Slot i's server is the first assignable one with its address.
FirstAssignable(s, i) ==
  /\ Assignable(s[i])
  /\ \A j \in 1..i - 1 : Assignable(s[j]) => s[j].address # s[i].address

\* p lists the first assignable server of each address of s, in slot order.
IsPoolOf(p, s) ==
  \E idx \in [DOMAIN p -> DOMAIN s] :
    /\ \A j, k \in DOMAIN p : j < k => idx[j] < idx[k]
    /\ {idx[k] : k \in DOMAIN p} = {i \in DOMAIN s : FirstAssignable(s, i)}
    /\ \A k \in DOMAIN p : p[k] = s[idx[k]]
=============================================================================
