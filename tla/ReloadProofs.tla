---------------------------- MODULE ReloadProofs ----------------------------
(***************************************************************************)
(* Decoding undoes encoding for every key, permutation and layout, and so  *)
(* a CID reaches the server that minted it over every course of a rollover;*)
(* a key is warned about at most once, and not before its time.            *)
(***************************************************************************)
EXTENDS Rollover, KeyAge, TLAPS

-----------------------------------------------------------------------------
(* Key ages, for every set of slots and route files                         *)

\* What a warning leaves behind: the slot's current key is the one the warner
\* remembers, so the next check passes it over.
Remembered ==
  \A s \in Slot : warnings[s] = 1 => /\ s \in DOMAIN ages
                                     /\ warned_for[s] = ages[s].loaded_at

\* A stamp is never older than the key bytes it stands for.
NotBackdated == \A s \in DOMAIN ages : since[s] <= ages[s].loaded_at

AgeInv == AgeTypeOK /\ NotBackdated /\ OneWarningPerKey /\ Remembered

\* What a reload makes of a slot: a kept key keeps its stamp, any other key is
\* stamped with the time of the reload (LoadKeys, inherit_ages_from).
LEMMA Reloaded ==
  ASSUME NEW f \in KeyedFiles, AgeTypeOK, ages' = inherit_ages_from(LoadKeys(f), ages)
  PROVE  /\ DOMAIN ages' = DOMAIN f
         /\ \A s \in DOMAIN f :
              ages'[s] = [enc |-> f[s].enc, max |-> f[s].max,
                           loaded_at |-> IF Kept(s, f) THEN ages[s].loaded_at ELSE now]
<1>1. DOMAIN ages' = DOMAIN f
  BY DEF inherit_ages_from, LoadKeys
<1>2. ASSUME NEW s \in DOMAIN f
      PROVE  ages'[s] = [enc |-> f[s].enc, max |-> f[s].max,
                          loaded_at |-> IF Kept(s, f) THEN ages[s].loaded_at ELSE now]
  BY <1>2 DEF inherit_ages_from, LoadKeys, Kept, KeptBytes, same_key
<1> QED BY <1>1, <1>2

LEMMA AgeInitInv == AgeInit => AgeInv
<1> SUFFICES ASSUME AgeInit PROVE AgeInv OBVIOUS
<1>1. PICK f \in KeyedFiles : ages = LoadKeys(f)
  BY DEF AgeInit
<1>2. /\ DOMAIN ages = DOMAIN f
      /\ \A s \in DOMAIN f : ages[s] = [enc |-> f[s].enc, max |-> f[s].max, loaded_at |-> 0]
  BY <1>1 DEF AgeInit, LoadKeys
<1>3. AgeTypeOK
  BY <1>2, KeyAgeAssumption DEF AgeInit, AgeTypeOK, KeyEntry
<1>4. NotBackdated /\ OneWarningPerKey /\ Remembered
  BY <1>2 DEF AgeInit, NotBackdated, OneWarningPerKey, Remembered
<1> QED BY <1>3, <1>4 DEF AgeInv

LEMMA ReloadAgesInv ==
  ASSUME AgeInv, NEW f \in KeyedFiles, ReloadAges(f)
  PROVE  AgeInv'
<1>1. /\ DOMAIN ages' = DOMAIN f
      /\ \A s \in DOMAIN f :
           ages'[s] = [enc |-> f[s].enc, max |-> f[s].max,
                        loaded_at |-> IF Kept(s, f) THEN ages[s].loaded_at ELSE now]
  BY Reloaded DEF AgeInv, ReloadAges
<1>2. \A s \in DOMAIN f : f[s] \in KeyEntry /\ s \in Slot
  BY KeyAgeAssumption
<1>3. AgeTypeOK'
  <2>1. \A s \in DOMAIN f : KeptBytes(s, f) => /\ ages[s].loaded_at \in 0..now
                                               /\ since[s] \in 0..now
    BY DEF AgeInv, AgeTypeOK, KeptBytes
  <2>3. now \in 0..now /\ now' = now
    BY DEF AgeInv, AgeTypeOK, ReloadAges
  <2>4. \A s \in DOMAIN ages' :
          ages'[s] \in [enc: Encryption, max: {NoAge} \cup (Nat \ {0}), loaded_at: 0..now]
    BY <1>1, <1>2, <2>1, <2>3 DEF KeyEntry, Kept
  <2>5. since' \in [DOMAIN ages' -> 0..now]
    BY <1>1, <2>1, <2>3 DEF ReloadAges
  <2>6. warnings' \in [Slot -> Nat]
    BY DEF ReloadAges, AgeInv, AgeTypeOK
  <2> QED BY <1>1, <1>2, <2>3, <2>4, <2>5, <2>6 DEF AgeInv, AgeTypeOK, ReloadAges
<1>4. NotBackdated'
  <2>1. \A s \in DOMAIN f : since'[s] = IF KeptBytes(s, f) THEN since[s] ELSE now
    BY DEF ReloadAges
  <2>2. \A s \in DOMAIN f : KeptBytes(s, f) => since[s] <= ages[s].loaded_at /\ since[s] <= now
    BY DEF AgeInv, AgeTypeOK, NotBackdated, KeptBytes
  <2>3. now <= now
    BY DEF AgeInv, AgeTypeOK
  <2> QED BY <1>1, <2>1, <2>2, <2>3 DEF NotBackdated, Kept
<1>5. OneWarningPerKey'
  BY DEF AgeInv, OneWarningPerKey, ReloadAges
<1>6. Remembered'
  BY <1>1 DEF AgeInv, Remembered, ReloadAges, Kept, KeptBytes
<1> QED BY <1>3, <1>4, <1>5, <1>6 DEF AgeInv

LEMMA CheckInv ==
  ASSUME AgeInv, Check
  PROVE  AgeInv'
<1>1. \A s \in Slot : Due(s) => /\ s \in DOMAIN ages
                                /\ warned_for[s] # ages[s].loaded_at
                                /\ ages[s].loaded_at \in 0..now
  BY DEF AgeInv, AgeTypeOK, Due, Overdue
<1>2. \A s \in Slot : Due(s) => warnings[s] = 0
  BY <1>1 DEF AgeInv, Remembered, OneWarningPerKey
<1>3. AgeTypeOK'
  BY <1>1, <1>2 DEF AgeInv, AgeTypeOK, Check
<1>4. NotBackdated' /\ OneWarningPerKey'
  BY <1>2 DEF AgeInv, AgeTypeOK, NotBackdated, OneWarningPerKey, Check
<1>5. Remembered'
  BY <1>1 DEF AgeInv, Remembered, Check
<1> QED BY <1>3, <1>4, <1>5 DEF AgeInv

LEMMA AgeNextInv == AgeInv /\ [AgeNext]_ageVars => AgeInv'
<1> SUFFICES ASSUME AgeInv, [AgeNext]_ageVars PROVE AgeInv' OBVIOUS
<1>1. ASSUME NEW f \in KeyedFiles, ReloadAges(f) PROVE AgeInv'
  BY <1>1, ReloadAgesInv
<1>2. CASE Check
  BY <1>2, CheckInv
<1>3. CASE AgeTick
  <2>1. 0..now \subseteq 0..now' /\ now' \in Nat
    BY <1>3 DEF AgeTick, AgeInv, AgeTypeOK
  <2>2. AgeTypeOK'
    BY <1>3, <2>1 DEF AgeTick, AgeInv, AgeTypeOK
  <2>3. NotBackdated' /\ OneWarningPerKey' /\ Remembered'
    BY <1>3 DEF AgeTick, AgeInv, NotBackdated, OneWarningPerKey, Remembered
  <2> QED BY <2>2, <2>3 DEF AgeInv
<1>4. CASE UNCHANGED ageVars
  BY <1>4 DEF ageVars, AgeInv, AgeTypeOK, NotBackdated, OneWarningPerKey, Remembered
<1> QED BY <1>1, <1>2, <1>3, <1>4 DEF AgeNext

LEMMA InductiveKeyAge == AgeSpec => []AgeInv
BY AgeInitInv, AgeNextInv, PTL DEF AgeSpec

LEMMA DivMonotonic ==
  ASSUME NEW a \in Nat, NEW b \in Nat, NEW t \in Nat \ {0}, a <= b
  PROVE  a \div t <= b \div t
<1> DEFINE q == a \div t
           p == b \div t
<1>1. q \in Nat /\ p \in Nat /\ t * q <= a /\ b < t * (p + 1)
  BY SMTT(20)
<1> HIDE DEF q, p
<1>2. p + 1 <= q => t * (p + 1) <= t * q
  BY <1>1, SMTT(20)
<1>3. t * q \in Nat /\ t * (p + 1) \in Nat
  BY <1>1, SMTT(20)
<1>4. q <= p
  BY <1>1, <1>2, <1>3
<1> QED BY <1>4 DEF q, p

\* Whatever sequence of route files SIGHUP finds, check_at warns of no key whose bytes
\* have not outlived its policy (inherit_ages_from, KeyAgeWarner::check_at).
THEOREM NoKeyIsWarnedEarly == AgeSpec => []WarnsOnlyOldKeys
<1>1. AgeInv => WarnsOnlyOldKeys
  <2> SUFFICES ASSUME AgeInv, NEW s \in Slot, Due(s)
               PROVE  (now - since[s]) \div TICKS_PER_SEC > ages[s].max
    BY DEF WarnsOnlyOldKeys
  <2> DEFINE young == now - ages[s].loaded_at
             old == now - since[s]
  <2>1. /\ s \in DOMAIN ages /\ ages[s].max \in Nat
        /\ young \div TICKS_PER_SEC > ages[s].max
    BY DEF Due, Overdue, AgeInv, AgeTypeOK
  <2>2. young \in Nat /\ old \in Nat /\ young <= old
    BY <2>1 DEF AgeInv, AgeTypeOK, NotBackdated
  <2>3. young \div TICKS_PER_SEC <= old \div TICKS_PER_SEC
    BY <2>2, DivMonotonic, KeyAgeAssumption
  <2>4. young \div TICKS_PER_SEC \in Int /\ old \div TICKS_PER_SEC \in Int
    BY <2>2, KeyAgeAssumption
  <2> QED BY <2>1, <2>3, <2>4
<1> QED BY InductiveKeyAge, <1>1, PTL

\* KeyAgeWarner never logs a second warning about the key a slot holds.
THEOREM WarnedAtMostOnce == AgeSpec => []OneWarningPerKey
<1>1. AgeInv => OneWarningPerKey
  BY DEF AgeInv
<1> QED BY InductiveKeyAge, <1>1, PTL

-----------------------------------------------------------------------------
(* Octets                                                                   *)

LEMMA XorTwice == \A a, b : Xor(Xor(a, b), b) = a
BY DEF Xor

LEMMA XorOctets ==
  ASSUME NEW n, NEW a \in Octets(n), NEW b \in Octets(n)
  PROVE  Xor(a, b) \in Octets(n)
BY DEF Xor, Octets

LEMMA SliceOctets ==
  ASSUME NEW s, NEW from, NEW n
  PROVE  Slice(s, from, n) \in Octets(n)
BY DEF Slice, Octets

\* Octets with a larger number are octets.
LEMMA OctetsMonotone ==
  ASSUME NEW m \in Nat, NEW n \in Nat, m <= n, NEW s \in Octets(m)
  PROVE  s \in Octets(n)
BY DEF Octets

\* A string is its own slice.
LEMMA SliceWhole ==
  ASSUME NEW n \in Nat, NEW s \in Octets(n)
  PROVE  Slice(s, 0, n) = s
<1>1. \A p \in s : p \in (1..n) \X Bit /\ <<p[1] + 0, p[2]>> = p
  BY DEF Octets
<1>2. \A p \in (1..n) \X Bit : <<p[1] + 0, p[2]>> = p
  OBVIOUS
<1> QED BY <1>1, <1>2 DEF Slice

\* Octets that were moved back begin after the gap.
LEMMA PlaceAfter ==
  ASSUME NEW n \in Nat, NEW s \in Octets(n), NEW from \in Nat, NEW p \in Place(s, from)
  PROVE  /\ p \in (1..(from + n)) \X Bit
         /\ p[1] > from
BY DEF Place, Octets

-----------------------------------------------------------------------------
(* The ciphers                                                              *)

\* What is mixed into one half leaves the other as it is.
LEMMA HalvesApart ==
  ASSUME NEW sid \in Nat, NEW nonce \in Nat, NEW buf, NEW s
  PROVE  /\ s \in Octets(sid) => Slice(Xor(buf, s), sid, nonce) = Slice(buf, sid, nonce)
         /\ s \in Octets(nonce) => Slice(Xor(buf, Place(s, sid)), 0, sid) = Slice(buf, 0, sid)
<1>1. ASSUME s \in Octets(sid)
      PROVE  Slice(Xor(buf, s), sid, nonce) = Slice(buf, sid, nonce)
  <2>1. \A p \in (1..nonce) \X Bit : <<p[1] + sid, p[2]>> \notin s
    BY <1>1 DEF Octets
  <2> QED BY <2>1 DEF Slice, Xor
<1>2. ASSUME s \in Octets(nonce)
      PROVE  Slice(Xor(buf, Place(s, sid)), 0, sid) = Slice(buf, 0, sid)
  <2>1. \A p \in (1..sid) \X Bit : <<p[1] + 0, p[2]>> \notin Place(s, sid)
    BY <1>2, PlaceAfter
  <2> QED BY <2>1 DEF Slice, Xor
<1> QED BY <1>1, <1>2

\* Every pass is its own inverse, whatever AES does.
LEMMA PassTwice ==
  ASSUME NEW i \in 0..3, NEW buf, NEW sid \in Nat, NEW nonce \in Nat, NEW k
  PROVE  FeistelPass(i, FeistelPass(i, buf, sid, nonce, k), sid, nonce, k) = buf
<1>1. CASE i % 2 = 0
  <2> DEFINE s(b) == Slice(Aes[k][Xor(Slice(b, sid, nonce), {1} \X PassBits[i])], 0, sid)
  <2>1. \A b : FeistelPass(i, b, sid, nonce, k) = Xor(b, s(b))
    BY <1>1 DEF FeistelPass
  <2>2. s(buf) \in Octets(sid)
    BY SliceOctets
  <2>3. Slice(Xor(buf, s(buf)), sid, nonce) = Slice(buf, sid, nonce)
    BY <2>2, HalvesApart
  <2>4. s(Xor(buf, s(buf))) = s(buf)
    BY <2>3
  <2> HIDE DEF s
  <2> QED BY <2>1, <2>4, XorTwice
<1>2. CASE i % 2 # 0
  <2> DEFINE t(b) == Slice(Aes[k][Xor(Slice(b, 0, sid), {1} \X PassBits[i])], 0, nonce)
             s(b) == Place(t(b), sid)
  <2>1. \A b : FeistelPass(i, b, sid, nonce, k) = Xor(b, s(b))
    BY <1>2 DEF FeistelPass
  <2>2. t(buf) \in Octets(nonce)
    BY SliceOctets
  <2>3. Slice(Xor(buf, s(buf)), 0, sid) = Slice(buf, 0, sid)
    BY <2>2, HalvesApart
  <2>4. s(Xor(buf, s(buf))) = s(buf)
    BY <2>3, Zenon
  <2> HIDE DEF s
  <2> QED BY <2>1, <2>4, XorTwice
<1> QED BY <1>1, <1>2

\* A pass keeps the string's length.
LEMMA PassOctets ==
  ASSUME NEW i \in 0..3, NEW sid \in Nat, NEW nonce \in Nat, NEW buf \in Octets(sid + nonce),
         NEW k
  PROVE  FeistelPass(i, buf, sid, nonce, k) \in Octets(sid + nonce)
<1>1. \A s \in Octets(sid) : Xor(buf, s) \in Octets(sid + nonce)
  BY OctetsMonotone, XorOctets
<1>2. \A s \in Octets(nonce) : Xor(buf, Place(s, sid)) \in Octets(sid + nonce)
  <2> TAKE s \in Octets(nonce)
  <2>1. Place(s, sid) \in Octets(sid + nonce)
    BY PlaceAfter DEF Octets
  <2> QED BY <2>1, XorOctets
<1> QED BY <1>1, <1>2, SliceOctets DEF FeistelPass

\* decrypt_four_pass undoes encrypt_four_pass for every function in
\* the place of AES, every key and every split of a CID whose nonce fits a block
\* (cid.rs, quic-lb-core).
THEOREM FourPassInverts ==
  ASSUME NEW sid \in Nat, NEW nonce \in Nat, nonce <= BLOCK, NEW buf \in Octets(sid + nonce),
         NEW k
  PROVE  /\ encrypt_four_pass(buf, sid, nonce, k) \in Octets(sid + nonce)
         /\ decrypt_four_pass(encrypt_four_pass(buf, sid, nonce, k), sid, nonce, k) = buf
<1> DEFINE P(i, b) == FeistelPass(i, b, sid, nonce, k)
<1>1. \A i \in 0..3 : \A b : P(i, P(i, b)) = b
  BY PassTwice
<1>2. \A i \in 0..3 : \A b \in Octets(sid + nonce) : P(i, b) \in Octets(sid + nonce)
  BY PassOctets
<1>3. ~(nonce > BLOCK)
  BY CidAssumption
<1>4. /\ encrypt_four_pass(buf, sid, nonce, k) = P(3, P(2, P(1, P(0, buf))))
      /\ \A b : decrypt_four_pass(b, sid, nonce, k) = P(0, P(1, P(2, P(3, b))))
  BY <1>3 DEF encrypt_four_pass, decrypt_four_pass
<1> HIDE DEF P
<1>5. 0 \in 0..3 /\ 1 \in 0..3 /\ 2 \in 0..3 /\ 3 \in 0..3
  OBVIOUS
<1> QED BY <1>1, <1>2, <1>4, <1>5

\* decrypt_single_pass undoes encrypt_single_pass (cid.rs, quic-lb-core).
LEMMA SinglePassInverts ==
  ASSUME NEW buf \in Octets(BLOCK), NEW k \in Key
  PROVE  /\ encrypt_single_pass(buf, k) \in Octets(BLOCK)
         /\ decrypt_single_pass(encrypt_single_pass(buf, k), k) = buf
BY CidAssumption DEF encrypt_single_pass, decrypt_single_pass

-----------------------------------------------------------------------------
(* From the encoder to the table                                            *)

INSTANCE WellFoundedInduction

\* An encoder that provisioning can have made.
Usable(e) ==
  /\ EncoderAccepts(e)
  /\ e.server_id.bits \in Octets(e.server_id.n)
  /\ \/ e.mode = "plaintext"
     \/ /\ e.mode = "single_pass" /\ e.key \in Key
        /\ e.server_id.n + e.nonce_length = BLOCK
     \/ e.mode = "four_pass"

LEMMA Lengths ==
  ASSUME NEW e, Usable(e)
  PROVE  /\ e.server_id.n \in Nat /\ e.nonce_length \in Nat
         /\ e.server_id.n + e.nonce_length \in Nat
         /\ BLOCK \in Nat /\ e.config_id \in 0..6
BY CidAssumption DEF Usable, EncoderAccepts

\* The server id is the front of the payload.
LEMMA PayloadOctets ==
  ASSUME NEW e, Usable(e), NEW nonce \in Octets(e.nonce_length)
  PROVE  /\ Payload(e, nonce) \in Octets(e.server_id.n + e.nonce_length)
         /\ Slice(Payload(e, nonce), 0, e.server_id.n) = e.server_id.bits
<1> DEFINE n == e.server_id.n  z == Place(nonce, n)  b == e.server_id.bits
<1>1. n \in Nat /\ e.nonce_length \in Nat
  BY Lengths
<1>2. \A p \in z : p \in (1..(n + e.nonce_length)) \X Bit /\ p[1] > n
  BY <1>1, PlaceAfter
<1>3. b \in Octets(n)
  BY DEF Usable
<1> HIDE DEF n, z, b
<1>4. z \in Octets(n + e.nonce_length)
  BY <1>2 DEF Octets
<1>5. b \in Octets(n + e.nonce_length)
  BY <1>1, <1>3, OctetsMonotone
<1>6. b \cup z \in Octets(n + e.nonce_length)
  BY <1>4, <1>5 DEF Octets
<1>7. Slice(b \cup z, 0, n) = Slice(b, 0, n)
  <2>1. \A p \in (1..n) \X Bit : <<p[1] + 0, p[2]>> \notin z
    BY <1>1, <1>2
  <2> QED BY <2>1 DEF Slice
<1>8. Slice(b, 0, n) = b
  BY <1>1, <1>3, SliceWhole
<1>9. Payload(e, nonce) = b \cup z
  BY DEF Payload, b, z, n
<1> QED BY <1>6, <1>7, <1>8, <1>9 DEF n, b

\* Decoding with the encoder's layout and key returns its payload.
LEMMA DecryptedPayload ==
  ASSUME NEW e, Usable(e), NEW config, SameWire(e, config),
         NEW payload \in Octets(e.server_id.n + e.nonce_length),
         Encrypted(e, payload) # Panic
  PROVE  /\ Encrypted(e, payload) \in Octets(e.server_id.n + e.nonce_length)
         /\ Decrypted(config, Encrypted(e, payload)) = payload
<1>0. /\ config.server_id_length = e.server_id.n /\ config.nonce_length = e.nonce_length
      /\ config.mode = e.mode /\ config.key = e.key
  BY DEF SameWire
<1>1. CASE e.mode = "plaintext"
  BY <1>0, <1>1 DEF Encrypted, Decrypted
<1>2. CASE e.mode = "single_pass"
  <2>1. e.key \in Key /\ payload \in Octets(BLOCK) /\ e.server_id.n + e.nonce_length = BLOCK
    BY <1>2 DEF Usable
  <2> QED BY <1>0, <1>2, <2>1, SinglePassInverts DEF Encrypted, Decrypted
<1>3. CASE e.mode = "four_pass"
  <2> DEFINE sid == e.server_id.n  nonce == e.nonce_length
  <2>1. Encrypted(e, payload) = encrypt_four_pass(payload, sid, nonce, e.key)
    BY <1>3 DEF Encrypted
  <2>2. \A c : Decrypted(config, c) = decrypt_four_pass(c, sid, nonce, e.key)
    BY <1>0, <1>3 DEF Decrypted
  <2>3. sid \in Nat /\ nonce \in Nat /\ BLOCK \in Nat
    BY Lengths
  <2>4. nonce <= BLOCK
    BY <2>1, <2>3 DEF encrypt_four_pass
  <2> QED BY <2>1, <2>2, <2>3, <2>4, FourPassInverts
<1> QED BY <1>1, <1>2, <1>3 DEF Usable

\* A server with the id is found, at an index that is neither NoServer nor PanicIdx.
LEMMA PresentIsFound ==
  ASSUME NEW config, DOMAIN config.servers \subseteq Nat \ {0}, NEW bits,
         \E i \in DOMAIN config.servers : config.servers[i].id.bits = bits
  PROVE  find_server_idx(config, bits) \in Nat \ {0}
<1> DEFINE hits == {i \in DOMAIN config.servers : config.servers[i].id.bits = bits}
<1>1. hits # {} /\ hits \subseteq Nat /\ hits \subseteq Nat \ {0}
  OBVIOUS
<1>2. \E i \in hits : \A j \in hits : ~(<<j, i>> \in OpToRel(<, Nat))
  <2> HIDE DEF hits
  <2> QED BY <1>1, NatLessThanWellFounded, WFMin, Zenon
<1>3. \E i \in hits : \A j \in hits : i <= j
  <2> HIDE DEF hits
  <2>1. \A i, j \in Nat : ~(<<j, i>> \in OpToRel(<, Nat)) => i <= j
    BY DEF OpToRel
  <2> QED BY <1>1, <1>2, <2>1, Zenon
<1>4. find_server_idx(config, bits) = CHOOSE i \in hits : \A j \in hits : i <= j
  BY <1>1, Zenon DEF find_server_idx
<1> HIDE DEF hits
<1> QED BY <1>1, <1>3, <1>4, Zenon

LEMMA ListedIsFound ==
  ASSUME NEW config, DOMAIN config.servers \subseteq Nat \ {0}, NEW id,
         Lists(config.servers, id)
  PROVE  find_server_idx(config, id.bits) \in Nat \ {0}
BY PresentIsFound DEF Lists

LEMMA FoundIsNoPanic ==
  ASSUME NEW config, DOMAIN config.servers \subseteq Nat \ {0}, NEW bits
  PROVE  find_server_idx(config, bits) # PanicIdx
<1>1. CASE \E i \in DOMAIN config.servers : config.servers[i].id.bits = bits
  BY <1>1, PresentIsFound DEF PanicIdx
<1>2. CASE ~\E i \in DOMAIN config.servers : config.servers[i].id.bits = bits
  <2>1. find_server_idx(config, bits) = NoServer
    BY <1>2, Zenon DEF find_server_idx
  <2> QED BY <2>1 DEF NoServer, PanicIdx
<1> QED BY <1>1, <1>2

\* What an encoder e that the config agrees with may have put into a CID.
EncodedUnder(e, nonce, low, config, cid) ==
  /\ Usable(e) /\ nonce \in Octets(e.nonce_length) /\ low \in 0..31
  /\ SameWire(e, config) /\ DOMAIN config.servers \subseteq Nat \ {0}
  /\ Lists(config.servers, e.server_id)
  /\ cid = encode_into(e, nonce, low) /\ cid.bits # Panic

\* The CID names the encoder's config, has its length, and resolves to its home.
LeadsHome(e, config, cid) ==
  /\ cid.octet \div 32 = e.config_id
  /\ cid.n = cid_payload_length(config) /\ cid.n \in Nat
  /\ cid.bits \in Octets(cid.n)
  /\ Verdict(cid, config) = [verdict |-> "routes", addr |-> HomeOf(e, config)]

\* The top three bits of the first octet are the config's id.
LEMMA OctetNamesConfig ==
  ASSUME NEW e, NEW low \in 0..31, e.config_id \in 0..6, e.server_id.n + e.nonce_length \in Nat
  PROVE  first_octet(e, low) \div 32 = e.config_id
<1>1. PICK x \in 0..31 : first_octet(e, low) = e.config_id * 32 + x
  BY DEF first_octet
<1> QED BY <1>1

\* What a CID says of the packet it is in: its config, and its octets back.
LEMMA VerdictOfEncoded ==
  ASSUME NEW e, NEW nonce, NEW low, NEW config, NEW cid,
         EncodedUnder(e, nonce, low, config, cid)
  PROVE  LeadsHome(e, config, cid)
<1> USE DEF EncodedUnder
<1> DEFINE n == e.server_id.n + e.nonce_length
           payload == Payload(e, nonce)
           bits == Encrypted(e, payload)
           octet == first_octet(e, low)
<1>1. cid = [octet |-> octet, bits |-> bits, n |-> n]
  BY Zenon DEF encode_into
<1>2. n \in Nat /\ e.server_id.n \in Nat /\ e.config_id \in 0..6
  BY Lengths
<1>3. octet \div 32 = e.config_id
  BY <1>2, OctetNamesConfig, Zenon
<1>4. payload \in Octets(n) /\ Slice(payload, 0, e.server_id.n) = e.server_id.bits
  BY PayloadOctets
<1>5. bits # Panic
  BY <1>1
<1>6. bits \in Octets(n) /\ Decrypted(config, bits) = payload
  BY <1>4, <1>5, DecryptedPayload
<1>7. cid_payload_length(config) = n /\ config.server_id_length = e.server_id.n
  BY DEF SameWire, cid_payload_length
<1>8. Slice(bits, 0, n) = bits
  BY <1>2, <1>6, SliceWhole
<1>9. payload # Panic
  <2>1. payload \subseteq (1..n) \X Bit
    BY <1>4, Zenon DEF Octets
  <2> HIDE DEF payload
  <2>2. <<0, 0>> \notin payload
    BY <1>2, <2>1
  <2> QED BY <2>2 DEF Panic
<1> DEFINE i == find_server_idx(config, e.server_id.bits)
<1>10. i \in Nat \ {0}
  BY ListedIsFound
<1> HIDE DEF n, payload, bits, octet, i
<1>11. resolve_server_idx(cid, config) = i
  BY <1>1, <1>2, <1>4, <1>6, <1>7, <1>8, <1>9 DEF resolve_server_idx, i
<1>12. i # NoServer /\ i # PanicIdx
  BY <1>10 DEF NoServer, PanicIdx
<1>13. Verdict(cid, config) = [verdict |-> "routes", addr |-> config.servers[i].address]
  BY <1>11, <1>12 DEF Verdict
<1>14. HomeOf(e, config) = config.servers[i].address
  BY DEF HomeOf, i
<1> QED BY <1>1, <1>2, <1>3, <1>6, <1>7, <1>13, <1>14 DEF LeadsHome

\* The octets behind a CID do not reach into it.
LEMMA BodyFront ==
  ASSUME NEW n \in Nat, NEW bits \in Octets(n), NEW rest \in Octets(1)
  PROVE  Slice(bits \cup Place(rest, n), 0, n) = bits
<1>1. \A p \in (1..n) \X Bit : <<p[1] + 0, p[2]>> \notin Place(rest, n)
  BY PlaceAfter
<1>2. Slice(bits \cup Place(rest, n), 0, n) = Slice(bits, 0, n)
  BY <1>1 DEF Slice
<1> QED BY <1>2, SliceWhole

\* The datapath finds the CID and its config in every packet that carries it.
LEMMA CarrierIsRouted ==
  ASSUME NEW c \in DOMAIN table, NEW cid, cid.octet \div 32 = c,
         cid.n \in Nat, cid.n = cid_payload_length(table[c]), cid.bits \in Octets(cid.n),
         cid = [octet |-> cid.octet, bits |-> cid.bits, n |-> cid.n]
  PROVE  /\ \A q \in Carriers(cid) : RouteUdp(q) = Verdict(cid, table[c])
         /\ RouteIcmp([long |-> TRUE, cid |-> cid, rest |-> {}, n |-> cid.n])
              = Verdict(cid, table[c])
<1>1. ASSUME NEW q \in Carriers(cid)
      PROVE  RouteUdp(q) = Verdict(cid, table[c])
  <2> DEFINE Carries == /\ q.cid = cid /\ q.rest \in Octets(1) /\ q.n \in Nat /\ q.n >= cid.n
                        /\ q.long \in BOOLEAN
  <2>1. Carries
    <3>1. CASE q = [long |-> TRUE, cid |-> cid, rest |-> {}, n |-> cid.n]
      BY <3>1 DEF Octets
    <3>2. ASSUME NEW r \in Octets(1),
                 q = [long |-> FALSE, cid |-> cid, rest |-> r, n |-> cid.n + 1]
          PROVE  Carries
      BY <3>2
    <3>3. \/ q = [long |-> TRUE, cid |-> cid, rest |-> {}, n |-> cid.n]
          \/ \E r \in Octets(1) : q = [long |-> FALSE, cid |-> cid, rest |-> r, n |-> cid.n + 1]
      BY <1>1, Zenon DEF Carriers
    <3> HIDE DEF Carries
    <3> QED BY <3>1, <3>2, <3>3, Zenon
  <2>2. Slice(Body(q), 0, cid.n) = cid.bits
    BY <2>1, BodyFront DEF Body
  <2>3. first_cid_octet(q) = {cid.octet}
    BY <2>1 DEF first_cid_octet
  <2>4. extract_raw_dcid(q, cid_payload_length(table[c])) = {cid}
    BY <2>1, <2>2 DEF extract_raw_dcid
  <2>5. lookup_config(q, table) = {[dcid |-> cid, config |-> table[c]]}
    <3>1. {o \in first_cid_octet(q) : o \div 32 \in DOMAIN table} = {cid.octet}
      BY <2>3
    <3>2. lookup_config(q, table) = {[dcid |-> d, config |-> table[c]] : d \in {cid}}
      BY <2>4, <3>1 DEF lookup_config
    <3> QED BY <3>2
  <2>6. \A l \in lookup_config(q, table) : l.dcid = cid /\ l.config = table[c]
    BY <2>5
  <2>7. lookup_config(q, table) # {}
    BY <2>5, Zenon
  <2> QED BY <2>6, <2>7 DEF RouteUdp
<1>2. RouteIcmp([long |-> TRUE, cid |-> cid, rest |-> {}, n |-> cid.n]) = Verdict(cid, table[c])
  <2> DEFINE q == [long |-> TRUE, cid |-> cid, rest |-> {}, n |-> cid.n]
  <2>1. extract_scid(q) = {cid}
    BY DEF extract_scid
  <2>2. {x \in extract_scid(q) : x.octet \div 32 \in DOMAIN table} = {cid}
    BY <2>1, Zenon
  <2> HIDE DEF q
  <2>3. RouteIcmp(q) = Verdict(CHOOSE x \in {cid} : TRUE, table[c])
    BY <2>2, Zenon DEF RouteIcmp
  <2> QED BY <2>3 DEF q
<1> QED BY <1>1, <1>2

-----------------------------------------------------------------------------
(* The invariant                                                            *)

\* What validate leaves in a config.
Sound(c) ==
  /\ c.server_id_length \in Nat /\ c.nonce_length \in Nat
  /\ DOMAIN c.servers \subseteq Nat \ {0}
  /\ \A i \in DOMAIN c.servers : c.servers[i].id.n = c.server_id_length
  /\ \/ c.mode = "plaintext"
     \/ /\ c.mode = "single_pass" /\ c.key \in Key
        /\ c.server_id_length + c.nonce_length = BLOCK
     \/ c.mode = "four_pass"

\* The table's configs were validated, encoders were made from such configs, and a
\* CID in use is one its encoder can make.
RolloverInv ==
  /\ file \in Files
  /\ \A c \in DOMAIN table : Sound(table[c]) /\ table[c].config_id = c
  /\ DOMAIN encoder = Backend
  /\ \A b \in Backend : \A e \in encoder[b] : Usable(e)
  /\ \A m \in minted :
       /\ Usable(m.by)
       /\ \E nonce \in Octets(m.by.nonce_length), low \in 0..31 :
            m.cid = encode_into(m.by, nonce, low)
       /\ m.cid.bits # Panic

LEMMA ParsedIsSound ==
  ASSUME NEW f \in Files, Parses(f), NEW c \in DOMAIN from_str(f)
  PROVE  Sound(from_str(f)[c]) /\ from_str(f)[c].config_id = c
<1>1. \E i \in DOMAIN f : f[i].config_id = c
  BY DEF from_str
<1>2. PICK i \in DOMAIN f : from_str(f)[c] = Config(f[i]) /\ f[i].config_id = c
  BY <1>1, Zenon DEF from_str
<1>3. Validates(f[i]) /\ DOMAIN f[i].servers \subseteq Nat \ {0}
  BY RolloverAssumption DEF Parses
<1>4. \/ Mode(f[i]) = "plaintext"
      \/ Mode(f[i]) = "single_pass" /\ f[i].key # NoKey
         /\ f[i].server_id_length + f[i].nonce_length = BLOCK
      \/ Mode(f[i]) = "four_pass"
  BY DEF Mode
<1> QED BY <1>2, <1>3, <1>4, CidAssumption DEF Sound, Config, Validates

\* A backend ends up with an encoder it can use.
LEMMA ProvisionInv ==
  ASSUME RolloverInv, NEW b \in Backend, NEW matches, Provision(b, matches),
         \A m \in matches : ~m.key_redacted =>
           /\ m.server_id = b
           /\ \/ m.encryption = "plaintext"
              \/ /\ m.encryption = "single_pass" /\ m.key \in Key
                 /\ b.n + m.nonce_length = BLOCK
              \/ m.encryption = "four_pass"
  PROVE  RolloverInv'
<1>1. PICK m \in matches :
        /\ ~m.key_redacted
        /\ LET e == [config_id |-> m.config_id, server_id |-> m.server_id,
                     nonce_length |-> m.nonce_length, mode |-> m.encryption, key |-> m.key,
                     encode_cid_length |-> m.first_octet_encodes_cid_length]
           IN  EncoderAccepts(e) /\ encoder' = [encoder EXCEPT ![b] = {e}]
  BY Zenon DEF Provision
<1> DEFINE e == [config_id |-> m.config_id, server_id |-> m.server_id,
                 nonce_length |-> m.nonce_length, mode |-> m.encryption, key |-> m.key,
                 encode_cid_length |-> m.first_octet_encodes_cid_length]
<1>2. Usable(e)
  BY <1>1, RolloverAssumption, Zenon DEF Usable
<1> HIDE DEF e
<1>3. DOMAIN encoder' = Backend /\ \A x \in Backend : \A y \in encoder'[x] : Usable(y)
  <2>1. encoder' = [encoder EXCEPT ![b] = {e}]
    BY <1>1 DEF e
  <2> QED BY <1>2, <2>1 DEF RolloverInv
<1>4. UNCHANGED <<file, table, minted>>
  BY DEF Provision
<1> QED BY <1>3, <1>4, Zenon DEF RolloverInv

LEMMA OfflineInv ==
  ASSUME RolloverInv, NEW b \in Backend, ProvisionOffline(b)
  PROVE  RolloverInv'
<1> PICK no_key \in BOOLEAN :
      /\ Parses(file)
      /\ Provision(b, analyze_backend_config_offline(b, Configs(from_str(file)), no_key))
  BY DEF ProvisionOffline
<1> DEFINE matches == analyze_backend_config_offline(b, Configs(from_str(file)), no_key)
<1>1. \A c \in Configs(from_str(file)) : Sound(c)
  BY ParsedIsSound DEF Configs, RolloverInv
<1>2. ASSUME NEW m \in matches, ~m.key_redacted
      PROVE  /\ m.server_id = b
             /\ \/ m.encryption = "plaintext"
                \/ /\ m.encryption = "single_pass" /\ m.key \in Key
                   /\ b.n + m.nonce_length = BLOCK
                \/ m.encryption = "four_pass"
  <2>1. PICK c \in Configs(from_str(file)) :
          /\ Lists(c.servers, b)
          /\ m = [config_id |-> c.config_id, server_id |-> b, nonce_length |-> c.nonce_length,
                  first_octet_encodes_cid_length |-> c.first_octet_encodes_cid_length,
                  encryption |-> c.mode,
                  key |-> IF no_key THEN NoKey ELSE c.key,
                  key_redacted |-> no_key /\ c.mode # "plaintext"]
    BY <1>2, Zenon DEF analyze_backend_config_offline
  <2>2. Sound(c)
    BY <1>1
  <2>3. b.n = c.server_id_length
    BY <2>1, <2>2, Zenon DEF Lists, Sound
  <2>4. c.mode = "plaintext" \/ ~no_key
    BY <1>2, <2>1
  <2> QED BY <2>1, <2>2, <2>3, <2>4, Zenon DEF Sound
<1> HIDE DEF matches
<1>3. Provision(b, matches)
  BY DEF matches
<1> QED BY <1>2, <1>3, ProvisionInv

\* Online, only plaintext configs come without a redacted key.
LEMMA OnlineInv ==
  ASSUME RolloverInv, NEW b \in Backend, ProvisionOnline(b)
  PROVE  RolloverInv'
<1> DEFINE matches == analyze_backend_config_online(b, {View(c) : c \in Configs(table)})
<1>1. ASSUME NEW m \in matches, ~m.key_redacted
      PROVE  m.server_id = b /\ m.encryption = "plaintext"
  <2>1. PICK v : m = [config_id |-> v.config_id, server_id |-> b,
                      nonce_length |-> v.nonce_length,
                      first_octet_encodes_cid_length |-> FALSE,
                      encryption |-> v.encryption, key |-> NoKey,
                      key_redacted |-> v.encryption # "plaintext"]
    BY <1>1, Zenon DEF analyze_backend_config_online
  <2> QED BY <1>1, <2>1, Zenon
<1> HIDE DEF matches
<1>2. Provision(b, matches)
  BY DEF matches, ProvisionOnline
<1> QED BY <1>1, <1>2, ProvisionInv

LEMMA MintInv ==
  ASSUME RolloverInv, NEW b \in Backend, NEW nonce \in Nonce, NEW low \in Low,
         generate_cid(b, nonce, low)
  PROVE  RolloverInv'
<1>1. PICK e \in encoder[b] :
        LET cid == encode_into(e, Slice(nonce, 0, e.nonce_length), low)
        IN  cid.bits # Panic /\ minted' = {[cid |-> cid, by |-> e]}
  BY DEF generate_cid
<1>2. Usable(e)
  BY DEF RolloverInv
<1>3. Slice(nonce, 0, e.nonce_length) \in Octets(e.nonce_length) /\ low \in 0..31
  BY SliceOctets, RolloverAssumption
<1>4. UNCHANGED <<file, table, encoder>>
  BY DEF generate_cid
<1> DEFINE m == [cid |-> encode_into(e, Slice(nonce, 0, e.nonce_length), low), by |-> e]
<1>5. /\ Usable(m.by)
      /\ \E z \in Octets(m.by.nonce_length), l \in 0..31 : m.cid = encode_into(m.by, z, l)
      /\ m.cid.bits # Panic
  BY <1>1, <1>2, <1>3, Zenon
<1>6. minted' = {m}
  BY <1>1, Zenon
<1> HIDE DEF m
<1> QED BY <1>4, <1>5, <1>6, Zenon DEF RolloverInv

LEMMA InitInv == Init => RolloverInv
<1> SUFFICES ASSUME Init PROVE RolloverInv OBVIOUS
<1>1. file \in Files /\ Parses(file) /\ table = from_str(file)
  BY DEF Init
<1>2. \A c \in DOMAIN table : Sound(table[c]) /\ table[c].config_id = c
  BY <1>1, ParsedIsSound
<1> QED BY <1>1, <1>2 DEF Init, RolloverInv

LEMMA NextInv == RolloverInv /\ [Next]_vars => RolloverInv'
<1> SUFFICES ASSUME RolloverInv, [Next]_vars PROVE RolloverInv' OBVIOUS
<1>1. ASSUME NEW f \in Files, Edit(f) PROVE RolloverInv'
  BY <1>1 DEF Edit, RolloverInv
<1>2. ASSUME Sighup PROVE RolloverInv'
  <2>1. \A c \in DOMAIN table' : Sound(table'[c]) /\ table'[c].config_id = c
    BY <1>2, ParsedIsSound DEF Sighup, RolloverInv
  <2> QED BY <1>2, <2>1, Zenon DEF Sighup, RolloverInv
<1>3. CASE UNCHANGED vars
  BY <1>3, Zenon DEF vars, RolloverInv
<1> QED BY <1>1, <1>2, <1>3, OfflineInv, OnlineInv, MintInv DEF Next

LEMMA InductiveRollover == Spec => []RolloverInv
BY InitInv, NextInv, PTL DEF Spec

\* Whatever the keys, the permutations in AES's place, the layouts within the limits and
\* the course of edits, reloads and provisionings, a CID under a live config with its
\* encoder's layout and key is routed to the server the config lists under the
\* encoder's id, in long and short headers and in ICMP errors (resolve_server_idx and
\* encode_into agree).
THEOREM CidsReachTheirServer == Spec => []CidReachesItsServer
<1>1. ASSUME RolloverInv, NEW m \in minted, m.by.config_id \in DOMAIN table,
             SameWire(m.by, table[m.by.config_id]),
             Lists(table[m.by.config_id].servers, m.by.server_id)
      PROVE  LET home == [verdict |-> "routes", addr |-> HomeOf(m.by, table[m.by.config_id])]
             IN  /\ \A q \in Carriers(m.cid) : RouteUdp(q) = home
                 /\ RouteIcmp([long |-> TRUE, cid |-> m.cid, rest |-> {}, n |-> m.cid.n]) = home
  <2>1. Usable(m.by) /\ m.cid.bits # Panic
    BY <1>1 DEF RolloverInv
  <2>2. PICK nonce \in Octets(m.by.nonce_length), low \in 0..31 :
          m.cid = encode_into(m.by, nonce, low)
    BY <1>1, Zenon DEF RolloverInv
  <2> DEFINE c == m.by.config_id
  <2>3. DOMAIN table[c].servers \subseteq Nat \ {0}
    BY <1>1, Zenon DEF RolloverInv, Sound
  <2>4. EncodedUnder(m.by, nonce, low, table[c], m.cid)
    BY <1>1, <2>1, <2>2, <2>3 DEF EncodedUnder
  <2>5. LeadsHome(m.by, table[c], m.cid)
    BY <2>4, VerdictOfEncoded
  <2>6. /\ m.cid = [octet |-> m.cid.octet, bits |-> m.cid.bits, n |-> m.cid.n]
        /\ m.cid.octet \div 32 = c
        /\ m.cid.n = cid_payload_length(table[c]) /\ m.cid.n \in Nat
        /\ m.cid.bits \in Octets(m.cid.n)
        /\ Verdict(m.cid, table[c]) = [verdict |-> "routes", addr |-> HomeOf(m.by, table[c])]
    BY <2>2, <2>5, Zenon DEF encode_into, LeadsHome
  <2> QED BY <1>1, <2>6, CarrierIsRouted, Zenon
<1>2. RolloverInv => CidReachesItsServer
  BY <1>1, Zenon DEF CidReachesItsServer
<1> QED BY InductiveRollover, <1>2, PTL

-----------------------------------------------------------------------------
(* whoami                                                                   *)

\* A CID in use names a config_id and is a string of its length.
LEMMA MintedCid ==
  ASSUME RolloverInv, NEW m \in minted
  PROVE  /\ m.cid = [octet |-> m.cid.octet, bits |-> m.cid.bits, n |-> m.cid.n]
         /\ m.cid.octet \div 32 \in 0..6
         /\ m.cid.n \in Nat
         /\ m.cid.bits \in Octets(m.cid.n)
<1>1. Usable(m.by) /\ m.cid.bits # Panic
  BY Zenon DEF RolloverInv
<1>2. PICK nonce \in Octets(m.by.nonce_length), low \in 0..31 :
        m.cid = encode_into(m.by, nonce, low)
  BY DEF RolloverInv
<1> DEFINE e == m.by
           n == e.server_id.n + e.nonce_length
           payload == Payload(e, nonce)
           octet == first_octet(e, low)
           config == [server_id_length |-> e.server_id.n, nonce_length |-> e.nonce_length,
                      mode |-> e.mode, key |-> e.key]
<1>3. m.cid = [octet |-> octet, bits |-> Encrypted(e, payload), n |-> n]
  BY <1>2 DEF encode_into
<1>4. n \in Nat /\ e.config_id \in 0..6 /\ e.server_id.n \in Nat
  BY <1>1, Lengths, Zenon
<1>5. octet \div 32 = e.config_id
  BY <1>4, OctetNamesConfig, Zenon
<1>6. SameWire(e, config)
  BY DEF SameWire
<1>7. payload \in Octets(n)
  BY <1>1, PayloadOctets
<1>8. Encrypted(e, payload) # Panic
  BY <1>1, <1>3
<1> HIDE DEF config, payload
<1>9. Encrypted(e, payload) \in Octets(n)
  BY <1>1, <1>6, <1>7, <1>8, DecryptedPayload
<1> HIDE DEF octet, n
<1> QED BY <1>3, <1>4, <1>5, <1>9

\* The datapath's verdict on a long header is that of the slot its CID names.
LEMMA LongIsRouted ==
  ASSUME NEW cid, cid.n \in Nat, cid.bits \in Octets(cid.n),
         cid = [octet |-> cid.octet, bits |-> cid.bits, n |-> cid.n]
  PROVE  RouteUdp([long |-> TRUE, cid |-> cid, rest |-> {}, n |-> cid.n]) =
           IF cid.octet \div 32 \in DOMAIN table
           THEN Verdict(cid, table[cid.octet \div 32]) ELSE Unroutable
<1> DEFINE q == [long |-> TRUE, cid |-> cid, rest |-> {}, n |-> cid.n]
           c == cid.octet \div 32
<1>1. q.cid = cid /\ q.rest = {} /\ q.n = cid.n /\ q.long = TRUE
  OBVIOUS
<1> HIDE DEF q
<1>2. Slice(Body(q), 0, cid.n) = cid.bits
  <2>1. Body(q) = cid.bits
    BY <1>1 DEF Body, Place
  <2> QED BY <2>1, SliceWhole
<1>3. first_cid_octet(q) = {cid.octet}
  BY <1>1 DEF first_cid_octet
<1>4. \A n : extract_raw_dcid(q, n) = {cid}
  BY <1>1, <1>2 DEF extract_raw_dcid
<1>5. CASE c \in DOMAIN table
  <2>1. {o \in first_cid_octet(q) : o \div 32 \in DOMAIN table} = {cid.octet}
    BY <1>3, <1>5
  <2>2. lookup_config(q, table) = {[dcid |-> d, config |-> table[c]] : d \in {cid}}
    BY <1>4, <2>1 DEF lookup_config
  <2>3. \A l \in lookup_config(q, table) : l.dcid = cid /\ l.config = table[c]
    BY <2>2
  <2>4. lookup_config(q, table) # {}
    BY <2>2, Zenon
  <2>5. RouteUdp(q) = Verdict(cid, table[c])
    BY <2>3, <2>4 DEF RouteUdp
  <2> QED BY <1>5, <2>5 DEF q
<1>6. CASE c \notin DOMAIN table
  <2>1. {o \in first_cid_octet(q) : o \div 32 \in DOMAIN table} = {}
    BY <1>3, <1>6
  <2>2. lookup_config(q, table) = {}
    BY <2>1 DEF lookup_config
  <2>3. RouteUdp(q) = Unroutable
    BY <2>2 DEF RouteUdp
  <2> QED BY <1>6, <2>3 DEF q
<1> QED BY <1>5, <1>6, Zenon

\* A CID too short for its config resolves to nothing.
LEMMA TruncatedIsUnroutable ==
  ASSUME NEW cid, NEW config, cid.n < cid_payload_length(config)
  PROVE  Verdict(cid, config) = Unroutable
<1>1. resolve_server_idx(cid, config) = NoServer
  BY DEF resolve_server_idx
<1> QED BY <1>1 DEF Verdict, NoServer, PanicIdx

\* The verdict on a CID under a plaintext config is read off its server id.
LEMMA PlainVerdict ==
  ASSUME NEW cid, NEW config, Sound(config), config.mode = "plaintext",
         ~(cid.n < cid_payload_length(config))
  PROVE  LET i == find_server_idx(config, Slice(cid.bits, 0, config.server_id_length))
         IN  Verdict(cid, config) = IF i = NoServer THEN Unroutable
                                    ELSE [verdict |-> "routes", addr |-> config.servers[i].address]
<1> DEFINE n == cid_payload_length(config)
           sid == config.server_id_length
           buf == Slice(cid.bits, 0, n)
           i == find_server_idx(config, Slice(cid.bits, 0, sid))
<1>1. n \in Nat /\ sid \in Nat /\ sid <= n
  BY DEF Sound, cid_payload_length
<1>2. Decrypted(config, buf) = buf
  BY DEF Decrypted
<1> HIDE DEF n, sid
<1>3. buf # Panic
  <2>1. \A p \in buf : p \in (1..n) \X Bit
    BY DEF Slice
  <2>2. <<0, 0>> \notin buf
    BY <1>1, <2>1
  <2> QED BY <2>2 DEF Panic
<1>4. Slice(buf, 0, sid) = Slice(cid.bits, 0, sid)
  <2>1. \A p \in (1..sid) \X Bit : p \in (1..n) \X Bit /\ <<p[1] + 0, p[2]>> = p
    BY <1>1
  <2>2. \A p \in (1..n) \X Bit : <<p[1] + 0, p[2]>> = p
    BY <1>1
  <2> QED BY <2>1, <2>2 DEF Slice
<1> HIDE DEF buf
<1>5. resolve_server_idx(cid, config) = i
  BY <1>2, <1>3, <1>4 DEF resolve_server_idx, n, sid, buf
<1>6. i # PanicIdx
  BY FoundIsNoPanic DEF Sound
<1> HIDE DEF i
<1>7. Verdict(cid, config) = IF i = NoServer THEN Unroutable
                             ELSE [verdict |-> "routes", addr |-> config.servers[i].address]
  BY <1>5, <1>6 DEF Verdict
<1> QED BY <1>7 DEF i, sid

\* What whoami finds among the configs of a table: the slot the CID names.
LEMMA WhoamiSlot ==
  ASSUME RolloverInv, NEW cid
  PROVE  /\ WhoamiLookup(cid, Configs(table)) =
              {table[c] : c \in {c \in DOMAIN table : c = cid.octet \div 32}}
         /\ WhoamiLookup(cid, {View(c) : c \in Configs(table)}) =
              {View(table[c]) : c \in {c \in DOMAIN table : c = cid.octet \div 32}}
<1>1. \A c \in DOMAIN table : table[c].config_id = c /\ View(table[c]).config_id = c
  BY DEF RolloverInv, View
<1> QED BY <1>1 DEF WhoamiLookup, Configs

\* Offline whoami on the file the daemon loaded.
LEMMA OfflineAgrees ==
  ASSUME RolloverInv, NEW m \in minted
  PROVE  LET off == analyze_whoami_offline(m.cid, Configs(table))
             udp == RouteUdp([long |-> TRUE, cid |-> m.cid, rest |-> {}, n |-> m.cid.n])
         IN  IF off.verdict \in {"routes", "panic"} THEN udp = off ELSE udp = Unroutable
<1> DEFINE c == m.cid.octet \div 32
           off == analyze_whoami_offline(m.cid, Configs(table))
           udp == RouteUdp([long |-> TRUE, cid |-> m.cid, rest |-> {}, n |-> m.cid.n])
           cfg == WhoamiLookup(m.cid, Configs(table))
<1>1. c \in 0..6 /\ c # 7
  <2>1. c \in 0..6
    BY MintedCid, Zenon
  <2> HIDE DEF c
  <2> QED BY <2>1
<1>2. udp = IF c \in DOMAIN table THEN Verdict(m.cid, table[c]) ELSE Unroutable
  BY MintedCid, LongIsRouted, Zenon
<1>3. cfg = {table[d] : d \in {d \in DOMAIN table : d = c}}
  BY WhoamiSlot
<1> HIDE DEF udp, c
<1>4. CASE c \notin DOMAIN table
  <2>1. cfg = {}
    BY <1>3, <1>4
  <2>2. off = Whoami("no config")
    BY <1>1, <2>1 DEF analyze_whoami_offline, c
  <2> HIDE DEF off
  <2>3. off.verdict = "no config"
    BY <2>2, Zenon DEF Whoami
  <2> QED BY <1>2, <1>4, <2>3, Zenon DEF udp, off
<1>5. CASE c \in DOMAIN table
  <2>1. cfg = {table[c]}
    BY <1>3, <1>5
  <2>2. off = IF m.cid.n < cid_payload_length(table[c]) THEN Whoami("truncated")
              ELSE Verdict(m.cid, table[c])
    <3>1. (CHOOSE d \in cfg : TRUE) = table[c] /\ cfg # {}
      BY <2>1
    <3> QED BY <1>1, <3>1, Zenon DEF analyze_whoami_offline, c
  <2>3. udp = Verdict(m.cid, table[c])
    BY <1>2, <1>5
  <2> HIDE DEF off, cfg
  <2>4. CASE m.cid.n < cid_payload_length(table[c])
    <3>1. off.verdict = "truncated"
      BY <2>2, <2>4 DEF Whoami
    <3>2. udp = Unroutable
      BY <2>3, <2>4, TruncatedIsUnroutable
    <3> QED BY <3>1, <3>2 DEF off, udp
  <2>5. CASE ~(m.cid.n < cid_payload_length(table[c]))
    <3>1. off = udp
      BY <2>2, <2>3, <2>5
    <3>2. off.verdict \in {"routes", "panic"} \/ off = Unroutable
      BY <2>2, <2>5 DEF Verdict, Panics
    <3> QED BY <3>1, <3>2 DEF off, udp
  <2> QED BY <2>4, <2>5, Zenon
<1> QED BY <1>4, <1>5, Zenon

\* Online whoami, which sees no keys.
LEMMA OnlineAgrees ==
  ASSUME RolloverInv, NEW m \in minted
  PROVE  LET on == analyze_whoami(m.cid, {View(c) : c \in Configs(table)})
             udp == RouteUdp([long |-> TRUE, cid |-> m.cid, rest |-> {}, n |-> m.cid.n])
         IN  \/ on.verdict = "encrypted"
             \/ IF on.verdict = "routes" THEN udp = on ELSE udp = Unroutable
<1> DEFINE c == m.cid.octet \div 32
           views == {View(d) : d \in Configs(table)}
           on == analyze_whoami(m.cid, views)
           udp == RouteUdp([long |-> TRUE, cid |-> m.cid, rest |-> {}, n |-> m.cid.n])
           cfg == WhoamiLookup(m.cid, views)
<1>1. c \in 0..6 /\ c # 7
  <2>1. c \in 0..6
    BY MintedCid, Zenon
  <2> HIDE DEF c
  <2> QED BY <2>1
<1>2. udp = IF c \in DOMAIN table THEN Verdict(m.cid, table[c]) ELSE Unroutable
  BY MintedCid, LongIsRouted, Zenon
<1>3. cfg = {View(table[d]) : d \in {d \in DOMAIN table : d = c}}
  BY WhoamiSlot
<1> HIDE DEF udp, c, views
<1>4. CASE c \notin DOMAIN table
  <2>1. cfg = {}
    BY <1>3, <1>4
  <2>2. on = Whoami("no config")
    BY <1>1, <2>1 DEF analyze_whoami, c
  <2> HIDE DEF on
  <2>3. on.verdict = "no config"
    BY <2>2, Zenon DEF Whoami
  <2> QED BY <1>2, <1>4, <2>3, Zenon DEF udp, views, on
<1>5. CASE c \in DOMAIN table
  <2> DEFINE config == table[c]
             v == View(config)
             i == find_server_idx(config, Slice(m.cid.bits, 0, config.server_id_length))
  <2>1. cfg = {v}
    BY <1>3, <1>5
  <2>2. /\ v.server_id_length = config.server_id_length /\ v.nonce_length = config.nonce_length
        /\ v.encryption = config.mode /\ v.servers = config.servers
    BY DEF View
  <2>3. \A b : find_server_idx(v, b) = find_server_idx(config, b)
    BY <2>2 DEF find_server_idx
  <2>4. cid_payload_length(v) = cid_payload_length(config)
    BY <2>2 DEF cid_payload_length
  <2> HIDE DEF v, config
  <2>5. on = IF m.cid.n < cid_payload_length(config) THEN Whoami("truncated")
             ELSE IF config.mode # "plaintext" THEN Whoami("encrypted")
             ELSE IF i = NoServer THEN Unroutable
             ELSE [verdict |-> "routes", addr |-> config.servers[i].address]
    BY <1>1, <2>1, <2>2, <2>3, <2>4, Zenon DEF analyze_whoami, c
  <2>6. udp = Verdict(m.cid, config) /\ Sound(config)
    BY <1>2, <1>5 DEF config, RolloverInv
  <2> HIDE DEF on, cfg, i
  <2>7. CASE m.cid.n < cid_payload_length(config)
    <3>1. on.verdict = "truncated"
      BY <2>5, <2>7 DEF Whoami
    <3>2. udp = Unroutable
      BY <2>6, <2>7, TruncatedIsUnroutable
    <3> QED BY <3>1, <3>2 DEF on, udp, views
  <2>8. CASE ~(m.cid.n < cid_payload_length(config)) /\ config.mode # "plaintext"
    <3>1. on.verdict = "encrypted"
      BY <2>5, <2>8 DEF Whoami
    <3> QED BY <3>1 DEF on, views
  <2>9. CASE ~(m.cid.n < cid_payload_length(config)) /\ config.mode = "plaintext"
    <3>1. on = IF i = NoServer THEN Unroutable
               ELSE [verdict |-> "routes", addr |-> config.servers[i].address]
      BY <2>5, <2>9
    <3>2. udp = on
      BY <2>6, <2>9, <3>1, PlainVerdict, Zenon DEF i
    <3>3. on.verdict = "routes" \/ on = Unroutable
      BY <3>1
    <3> QED BY <3>2, <3>3, Zenon DEF on, udp, views
  <2> QED BY <2>7, <2>8, <2>9, Zenon
<1> QED BY <1>4, <1>5, Zenon

\* pesigitg-ctl whoami tells the truth over every course of a rollover: offline it
\* says what the datapath does when the daemon has loaded the same file, online it
\* never names another backend (analyze_whoami_offline, analyze_whoami).
THEOREM WhoamiTellsTheTruth == Spec => []WhoamiAgrees
<1>1. RolloverInv => WhoamiAgrees
  BY OfflineAgrees, OnlineAgrees, Zenon DEF WhoamiAgrees
<1> QED BY InductiveRollover, <1>1, PTL
=============================================================================
