--------------------------------- MODULE Cid ---------------------------------
(***************************************************************************)
(* QUIC-LB connection IDs: the backend's encoder (contrib/quic-lb-core)    *)
(* and the load balancer's extraction and decoding (pesigitg-routing's     *)
(* cid.rs, the daemon's cid.rs).                                           *)
(*                                                                         *)
(* A string of n octets is the set of its one bits: pairs of an octet's    *)
(* number, from 1, and a bit of it.  Exclusive or is then the symmetric    *)
(* difference, padding with zeros changes nothing, and truncation is       *)
(* intersection.  AES under a key is an arbitrary permutation of blocks.   *)
(***************************************************************************)
EXTENDS Integers, Sequences

CONSTANTS
  BLOCK,          \* octets of an AES block (16)
  MAX_SID,        \* longest server id (15)
  MIN_NONCE,      \* shortest nonce (4)
  MAX_NONCE,      \* longest nonce (18)
  MAX_PAYLOAD,    \* longest server id and nonce together (19)
  Bit,            \* the bits of an octet
  PassBits,       \* the bits of the pass numbers 0..3
  Key,            \* AES keys
  Aes             \* key -> block -> block

Octets(n) == SUBSET ((1..n) \X Bit)

ASSUME CidAssumption ==
  /\ BLOCK \in Nat /\ MAX_SID \in 1..(BLOCK - 1)
  /\ MIN_NONCE \in Nat \ {0} /\ MAX_NONCE \in Nat /\ MAX_PAYLOAD \in Nat
  /\ PassBits \in [0..3 -> SUBSET Bit]
  /\ Aes \in [Key -> [Octets(BLOCK) -> Octets(BLOCK)]]
  /\ \A k \in Key : \A c \in Octets(BLOCK) : \E b \in Octets(BLOCK) : Aes[k][b] = c
  /\ \A k \in Key : \A a, b \in Octets(BLOCK) : Aes[k][a] = Aes[k][b] => a = b

\* A slice or an index out of range unwinds the thread: no string of octets, and
\* no server's index.  Nor is NoServer; other missing values are empty sets.
Panic == {<<0, 0>>}
PanicIdx == -1
NoServer == 0

Xor(a, b) == (a \ b) \cup (b \ a)

\* n octets of s, after the first `from`, and the octets of s moved back there.
Slice(s, from, n) == {p \in (1..n) \X Bit : <<p[1] + from, p[2]>> \in s}
Place(s, from) == {<<p[1] + from, p[2]>> : p \in s}

-----------------------------------------------------------------------------
(* The ciphers.  buf holds the server id, sid octets, then the nonce.       *)

encrypt_single_pass(buf, k) == Aes[k][buf]

decrypt_single_pass(buf, k) == CHOOSE b \in Octets(BLOCK) : Aes[k][b] = buf

\* Pass i: one half, with i mixed into its first octet, goes through AES and the
\* result into the other half.
FeistelPass(i, buf, sid, nonce, k) ==
  IF i % 2 = 0
  THEN Xor(buf, Slice(Aes[k][Xor(Slice(buf, sid, nonce), {1} \X PassBits[i])], 0, sid))
  ELSE Xor(buf, Place(Slice(Aes[k][Xor(Slice(buf, 0, sid), {1} \X PassBits[i])],
                            0, nonce), sid))

\* Either half is copied into one block: a nonce longer than that is out of range.
encrypt_four_pass(buf, sid, nonce, k) ==
  IF nonce > BLOCK THEN Panic
  ELSE FeistelPass(3, FeistelPass(2, FeistelPass(1, FeistelPass(0,
         buf, sid, nonce, k), sid, nonce, k), sid, nonce, k), sid, nonce, k)

\* Mutant: the passes are undone in the order they were made.
DecryptForward(buf, sid, nonce, k) == encrypt_four_pass(buf, sid, nonce, k)

decrypt_four_pass(buf, sid, nonce, k) ==
  IF nonce > BLOCK THEN Panic
  ELSE FeistelPass(0, FeistelPass(1, FeistelPass(2, FeistelPass(3,
         buf, sid, nonce, k), sid, nonce, k), sid, nonce, k), sid, nonce, k)

-----------------------------------------------------------------------------
(* The encoder, a record with the fields of QuicLbEncoder; mode and key are  *)
(* its Encryption.  A server id is [bits, n].                                *)

\* QuicLbEncoder::new asserts this.
EncoderAccepts(e) ==
  /\ e.config_id \in 0..6
  /\ e.server_id.n \in 1..MAX_SID
  /\ e.nonce_length \in MIN_NONCE..MAX_NONCE
  /\ e.server_id.n + e.nonce_length <= MAX_PAYLOAD

\* The low five bits are the CID's length less one, or random.
first_octet(e, low) ==
  e.config_id * 32 +
    (IF e.encode_cid_length THEN (e.server_id.n + e.nonce_length) % 32 ELSE low)

Payload(e, nonce) == e.server_id.bits \cup Place(nonce, e.server_id.n)

Encrypted(e, payload) ==
  CASE e.mode = "plaintext"   -> payload
    [] e.mode = "single_pass" -> encrypt_single_pass(payload, e.key)
    [] e.mode = "four_pass"   ->
         encrypt_four_pass(payload, e.server_id.n, e.nonce_length, e.key)

\* encode_into, with the random choices as arguments.  A CID is its first octet
\* and n more; the call panics if its bits are Panic.
encode_into(e, nonce, low) ==
  [octet |-> first_octet(e, low),
   bits  |-> Encrypted(e, Payload(e, nonce)),
   n     |-> e.server_id.n + e.nonce_length]

\* quic-lb-quinn validate: any CID of the right length.
validate(e, cid) == cid.n = e.server_id.n + e.nonce_length

-----------------------------------------------------------------------------
(* The load balancer.  A QUIC packet is [long, cid, rest, n]: after its      *)
(* header come the CID's first octet, the CID's other octets and the octets  *)
(* rest, of which n arrived (-1: not even the first).  A long header gives   *)
(* the CID's length, a short one does not.                                   *)

cid_payload_length(c) == c.server_id_length + c.nonce_length

\* The octets that follow the first octet of the CID.
Body(q) == q.cid.bits \cup Place(q.rest, q.cid.n)

first_cid_octet(q) == IF q.n < 0 THEN {} ELSE {q.cid.octet}

\* q starts at the destination CID.
extract_raw_dcid(q, payload) ==
  LET n == IF q.long THEN q.cid.n ELSE payload
  IN  IF q.n < n THEN {}
      ELSE {[octet |-> q.cid.octet, bits |-> Slice(Body(q), 0, n), n |-> n]}

\* q starts at the source CID, which only a long header has.
extract_scid(q) == IF q.long /\ q.n >= q.cid.n THEN {q.cid} ELSE {}

\* The packet's CID and the config it was made under.  No table has a config 7,
\* the reserved one.
lookup_config(q, table) ==
  UNION {{[dcid |-> d, config |-> table[octet \div 32]] :
            d \in extract_raw_dcid(q, cid_payload_length(table[octet \div 32]))}
         : octet \in {o \in first_cid_octet(q) : o \div 32 \in DOMAIN table}}

\* The first server with this id.
find_server_idx(config, bits) ==
  LET hits == {i \in DOMAIN config.servers : config.servers[i].id.bits = bits}
  IN  IF hits = {} THEN NoServer ELSE CHOOSE i \in hits : \A j \in hits : i <= j

Decrypted(config, payload) ==
  CASE config.mode = "plaintext"   -> payload
    [] config.mode = "single_pass" -> decrypt_single_pass(payload, config.key)
    [] config.mode = "four_pass"   ->
         decrypt_four_pass(payload, config.server_id_length, config.nonce_length, config.key)

\* The server's index, NoServer, or PanicIdx.
resolve_server_idx(dcid, config) ==
  IF dcid.n < cid_payload_length(config) THEN NoServer
  ELSE LET buf == Decrypted(config, Slice(dcid.bits, 0, cid_payload_length(config)))
       IN  IF buf = Panic THEN PanicIdx
           ELSE find_server_idx(config, Slice(buf, 0, config.server_id_length))
=============================================================================
