------------------------------ MODULE MCReload ------------------------------
(***************************************************************************)
(* What hangs on a route file and its reloads, for TLC: a rollover, and    *)
(* the ages of keys.  A behaviour is one of Rollover or one of KeyAge, and *)
(* the other keeps still.                                                  *)
(*                                                                         *)
(* The rollover has octets of two bits and blocks of three octets; the     *)
(* limits keep the relations of the real ones: MAX_SID = BLOCK - 1,        *)
(* MAX_NONCE > BLOCK, MAX_PAYLOAD > BLOCK.                                 *)
(***************************************************************************)
EXTENDS Rollover, KeyAge, FiniteSetsExt

VARIABLE part

\* A block as a number, and RC6's permutation of such numbers, keyed.
Number(b) == FoldSet(LAMBDA p, n : n + 4 ^ (p[1] - 1) * (p[2] + 1), 0, b)
Block(n) ==
  {p \in (1..3) \X {0, 1} : (n \div (4 ^ (p[1] - 1) * (p[2] + 1))) % 2 = 1}
Scramble(k) ==
  [b \in SUBSET ((1..3) \X {0, 1}) |->
     LET x == Number(b) + (IF k = "k1" THEN 5 ELSE 22) IN Block((x * (2 * x + 1)) % 64)]

MCKey == {"k1", "k2"}
MCAes == [k \in MCKey |-> Scramble(k)]
MCPassBits == [i \in 0..3 |-> {b \in {0, 1} : (i \div (b + 1)) % 2 = 1}]

Id(n, bits) == [bits |-> bits, n |-> n]
S1 == Id(1, {<<1, 0>>})
S2 == Id(1, {<<1, 1>>})
L1 == Id(2, {<<1, 0>>, <<2, 1>>})

Srv(id, a) == [id |-> id, address |-> a]
Raw(c, sid, nonce, key, enc, servers) ==
  [config_id |-> c, first_octet_encodes_cid_length |-> enc, server_id_length |-> sid,
   nonce_length |-> nonce, key |-> key, servers |-> servers, max_key_age_secs |-> -1]

Old == Raw(0, 1, 2, "k1", FALSE, <<Srv(S1, "x"), Srv(S2, "y")>>)
New == Raw(1, 1, 3, "k2", FALSE, <<Srv(S2, "y"), Srv(S1, "x"), Srv(S1, "z")>>)
Wide == Raw(1, 2, 1, "k2", TRUE, <<Srv(L1, "z")>>)
Plain == Raw(6, 2, 2, NoKey, TRUE, <<Srv(L1, "z")>>)
Rekeyed == [Old EXCEPT !.key = "k2"]
Long == [New EXCEPT !.nonce_length = 4]

MCFiles ==
  {<<Old>>, <<Old, New>>, <<New, Plain>>, <<Rekeyed, Wide>>, <<Long>>,
   <<Old, Rekeyed>>, <<[Old EXCEPT !.nonce_length = 5]>>, <<>>}

MCBackend == {S1, L1}
MCNonce == {{<<1, 0>>, <<2, 1>>}, {<<1, 1>>, <<3, 0>>}}

\* Files that rotate, keep, relax, remove and restore keys, and one that changes the
\* cipher of a key.
K(mode, key, max) == [enc |-> [mode |-> mode, key |-> key], max |-> max]

SomeFiles == {
  [s \in {"c0", "retry"} |-> IF s = "c0" THEN K("four", "k1", 1) ELSE K("hmac", "r1", 2)],
  [s \in {"c0", "retry"} |-> IF s = "c0" THEN K("four", "k2", 1) ELSE K("hmac", "r1", 1)],
  [s \in {"c0", "retry"} |-> IF s = "c0" THEN K("single", "k1", 1) ELSE K("hmac", "r1", 2)],
  [s \in {"retry"} |-> K("hmac", "r2", NoAge)],
  [s \in {"c0"} |-> K("plain", "", 2)]}

AnyFile == CHOOSE f \in SomeFiles : TRUE

ReloadInit ==
  /\ part \in {"rollover", "ages"}
  /\ Init /\ (part = "ages" => file = <<Old>>)
  /\ AgeInit /\ (part = "rollover" => ages = LoadKeys(AnyFile))

ReloadNext ==
  /\ part' = part
  /\ \/ part = "rollover" /\ Next /\ UNCHANGED ageVars
     \/ part = "ages" /\ AgeNext /\ UNCHANGED vars

ReloadSpec ==
  /\ ReloadInit /\ [][ReloadNext]_<<part, vars, ageVars>>
  /\ WF_<<part, vars, ageVars>>(part = "ages" /\ Check /\ ReloadNext)
=============================================================================
