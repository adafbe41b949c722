------------------------- MODULE RouteTableProofs --------------------------
(***************************************************************************)
(* The fallback pool that rebuild_fallback_servers computes, for every     *)
(* list of servers.  The pool is computed by recursion over the slots; the *)
(* induction the proof needs is stated over sets (NatSetInduction), a form *)
(* the provers can instantiate, and shows both that the recursive function *)
(* exists and what its values are.                                         *)
(***************************************************************************)
EXTENDS RouteTable, TLAPS

LOCAL INSTANCE WellFoundedInduction

\* Induction over the naturals for a set, from the well-foundedness of <.
LEMMA NatSetInduction ==
  ASSUME NEW S, 0 \in S, \A n \in Nat : n \in S => n + 1 \in S
  PROVE  Nat \subseteq S
<1> DEFINE R == OpToRel(<, Nat)
           T == Nat \ S
<1>1. IsWellFoundedOn(R, Nat)
  BY NatLessThanWellFounded, Zenon
<1>2. SUFFICES ASSUME T # {} PROVE FALSE
  OBVIOUS
<1> HIDE DEF R
<1>3. PICK m \in T : \A k \in T : ~(<<k, m>> \in R)
  BY <1>1, <1>2, WFMin, Zenon
<1>4. m \in Nat /\ m # 0 /\ m - 1 \in Nat /\ (m - 1) + 1 = m
  BY <1>3
<1>5. m - 1 \notin S
  BY <1>3, <1>4
<1>6. <<m - 1, m>> \in R
  BY <1>4 DEF R, OpToRel
<1>7. QED
  BY <1>3, <1>4, <1>5, <1>6

\* p is the pool of the first n slots of s; every assignable server of them
\* has its address in p.
PoolUpTo(p, s, n) ==
  /\ p \in Seq(Server)
  /\ \E idx \in [DOMAIN p -> 1..n] :
       /\ \A j, k \in DOMAIN p : j < k => idx[j] < idx[k]
       /\ {idx[k] : k \in DOMAIN p} = {i \in 1..n : FirstAssignable(s, i)}
       /\ \A k \in DOMAIN p : p[k] = s[idx[k]]
  /\ \A i \in 1..n : Assignable(s[i]) => \E k \in DOMAIN p : p[k].address = s[i].address

\* One turn of rebuild_fallback_servers' loop.
LEMMA PushStep ==
  ASSUME NEW s \in Seq(Server), NEW n \in Nat, n + 1 \in DOMAIN s,
         NEW p, PoolUpTo(p, s, n)
  PROVE  PoolUpTo(PushUnlessPresent(p, s[n + 1]), s, n + 1)
<1> DEFINE e == s[n + 1]
<1>1. e \in Server /\ p \in Seq(Server) /\ Len(p) \in Nat /\ DOMAIN p = 1..Len(p)
  BY DEF PoolUpTo
<1>2. PICK idx \in [DOMAIN p -> 1..n] :
        /\ \A j, k \in DOMAIN p : j < k => idx[j] < idx[k]
        /\ {idx[k] : k \in DOMAIN p} = {i \in 1..n : FirstAssignable(s, i)}
        /\ \A k \in DOMAIN p : p[k] = s[idx[k]]
  BY DEF PoolUpTo
<1>3. \A i \in 1..n : Assignable(s[i]) => \E k \in DOMAIN p : p[k].address = s[i].address
  BY DEF PoolUpTo
<1>4. \A k \in DOMAIN p : Assignable(p[k]) /\ idx[k] \in 1..n
  BY <1>2 DEF FirstAssignable
<1>5. (\A k \in DOMAIN p : p[k].address # e.address)
        <=> \A j \in 1..n : Assignable(s[j]) => s[j].address # e.address
  BY <1>2, <1>3, <1>4
<1>6. CASE Assignable(e) /\ \A k \in DOMAIN p : p[k].address # e.address
  <2> DEFINE q == Append(p, e)
             jdx == [k \in 1..Len(p) + 1 |-> IF k = Len(p) + 1 THEN n + 1 ELSE idx[k]]
  <2>1. PushUnlessPresent(p, e) = q
    BY <1>6 DEF PushUnlessPresent
  <2>2. /\ q \in Seq(Server) /\ DOMAIN q = 1..Len(p) + 1
        /\ q[Len(p) + 1] = e /\ \A k \in 1..Len(p) : q[k] = p[k]
    BY <1>1
  <2>3. FirstAssignable(s, n + 1)
    BY <1>5, <1>6 DEF FirstAssignable
  <2>4. jdx \in [DOMAIN q -> 1..n + 1]
    BY <1>1, <1>4, <2>2
  <2>5. \A j, k \in DOMAIN q : j < k => jdx[j] < jdx[k]
    BY <1>1, <1>2, <1>4, <2>2
  <2>6. {jdx[k] : k \in DOMAIN q} = {i \in 1..n + 1 : FirstAssignable(s, i)}
    <3>1. \A k \in DOMAIN q : FirstAssignable(s, jdx[k]) /\ jdx[k] \in 1..n + 1
      BY <1>1, <1>2, <1>4, <2>2, <2>3
    <3>2. ASSUME NEW i \in 1..n + 1, FirstAssignable(s, i)
          PROVE  \E k \in DOMAIN q : jdx[k] = i
      <4>1. CASE i = n + 1
        BY <1>1, <2>2, <4>1
      <4>2. CASE i \in 1..n
        <5>1. PICK k \in DOMAIN p : idx[k] = i
          BY <1>2, <3>2, <4>2
        <5>2. k \in DOMAIN q /\ jdx[k] = i
          BY <1>1, <2>2, <5>1
        <5>3. QED
          BY <5>2
      <4>3. QED
        BY <4>1, <4>2
    <3>3. QED
      BY <3>1, <3>2
  <2>7. \A k \in DOMAIN q : q[k] = s[jdx[k]]
    BY <1>1, <1>2, <2>2
  <2>8. \A i \in 1..n + 1 : Assignable(s[i]) => \E k \in DOMAIN q : q[k].address = s[i].address
    <3> HIDE DEF q
    <3>0. Len(p) + 1 \in DOMAIN q /\ \A k \in DOMAIN p : k \in DOMAIN q /\ q[k] = p[k]
      BY <1>1, <2>2
    <3>1. \A i \in 1..n : Assignable(s[i]) => \E k \in DOMAIN q : q[k].address = s[i].address
      BY <1>3, <3>0
    <3>2. \E k \in DOMAIN q : q[k].address = e.address
      BY <2>2, <3>0
    <3>3. \A i \in 1..n + 1 : i \in 1..n \/ i = n + 1
      OBVIOUS
    <3>4. QED
      BY <3>1, <3>2, <3>3
  <2> HIDE DEF q, jdx
  <2>9. QED
    BY <2>1, <2>2, <2>4, <2>5, <2>6, <2>7, <2>8, Zenon DEF PoolUpTo
<1>7. CASE ~(Assignable(e) /\ \A k \in DOMAIN p : p[k].address # e.address)
  <2>1. PushUnlessPresent(p, e) = p
    BY <1>7 DEF PushUnlessPresent
  <2>2. ~FirstAssignable(s, n + 1)
    BY <1>5, <1>7 DEF FirstAssignable
  <2>3. idx \in [DOMAIN p -> 1..n + 1]
    BY <1>4
  <2>4. {idx[k] : k \in DOMAIN p} = {i \in 1..n + 1 : FirstAssignable(s, i)}
    BY <1>2, <2>2
  <2>5. \A i \in 1..n + 1 : Assignable(s[i]) => \E k \in DOMAIN p : p[k].address = s[i].address
    <3>1. Assignable(e) => \E k \in DOMAIN p : p[k].address = e.address
      BY <1>7
    <3>2. \A i \in 1..n + 1 : i \in 1..n \/ i = n + 1
      OBVIOUS
    <3>3. QED
      BY <1>3, <3>1, <3>2
  <2>6. \E jdx \in [DOMAIN p -> 1..n + 1] :
          /\ \A j, k \in DOMAIN p : j < k => jdx[j] < jdx[k]
          /\ {jdx[k] : k \in DOMAIN p} = {i \in 1..n + 1 : FirstAssignable(s, i)}
          /\ \A k \in DOMAIN p : p[k] = s[jdx[k]]
    <3>1. WITNESS idx \in [DOMAIN p -> 1..n + 1]
    <3>2. QED
      BY <1>2, <2>4
  <2>7. PoolUpTo(p, s, n + 1)
    BY <1>1, <2>5, <2>6, Zenon DEF PoolUpTo
  <2>8. QED
    BY <2>1, <2>7
<1>8. QED
  BY <1>6, <1>7

\* The recursion of PoolOf, up to slot n.
PoolRec(g, s, n) ==
  [k \in 0..n |-> IF k = 0 THEN << >> ELSE PushUnlessPresent(g[k - 1], s[k])]

\* A function with that recursion exists.
LEMMA PoolRecursion ==
  ASSUME NEW s, NEW N \in Nat
  PROVE  \E g : g = PoolRec(g, s, N)
<1> DEFINE S == {n \in Nat : \E g : g = PoolRec(g, s, n)}
<1>1. 0 \in S
  <2> DEFINE g == [k \in 0..0 |-> << >>]
  <2>1. g = PoolRec(g, s, 0)
    BY DEF PoolRec
  <2>2. QED
    BY <2>1
<1>2. ASSUME NEW n \in Nat, n \in S PROVE n + 1 \in S
  <2>1. PICK g : g = PoolRec(g, s, n)
    BY <1>2
  <2> DEFINE h == [k \in 0..n + 1 |->
                    IF k = n + 1 THEN PushUnlessPresent(g[n], s[n + 1]) ELSE g[k]]
  <2>2. \A k \in 0..n : g[k] = IF k = 0 THEN << >> ELSE PushUnlessPresent(g[k - 1], s[k])
    BY <2>1 DEF PoolRec
  <2>3. h[n + 1] = PushUnlessPresent(g[n], s[n + 1]) /\ \A k \in 0..n : h[k] = g[k]
    OBVIOUS
  <2>4. h = [k \in 0..n + 1 |-> h[k]]
    OBVIOUS
  <2> HIDE DEF h
  <2>5. ASSUME NEW k \in 0..n + 1
        PROVE  h[k] = IF k = 0 THEN << >> ELSE PushUnlessPresent(h[k - 1], s[k])
    <3>1. CASE k = n + 1
      <4>1. k # 0 /\ k - 1 = n /\ n \in 0..n
        BY <3>1
      <4>2. QED
        BY <2>3, <3>1, <4>1
    <3>2. CASE k = 0
      BY <2>2, <2>3, <3>2
    <3>3. CASE k \in 1..n
      <4>1. k \in 0..n /\ k - 1 \in 0..n /\ k # 0
        BY <3>3
      <4>2. QED
        BY <2>2, <2>3, <4>1
    <3>4. QED
      BY <3>1, <3>2, <3>3
  <2>6. h = PoolRec(h, s, n + 1)
    BY <2>4, <2>5, Zenon DEF PoolRec
  <2>7. QED
    BY <2>6
<1> HIDE DEF S
<1>3. N \in S
  BY <1>1, <1>2, NatSetInduction
<1>4. QED
  BY <1>3 DEF S

\* Its values are the pools of the prefixes.
LEMMA PoolValues ==
  ASSUME NEW s \in Seq(Server), NEW g, g = PoolRec(g, s, Len(s))
  PROVE  PoolUpTo(g[Len(s)], s, Len(s))
<1> DEFINE S == {n \in Nat : n <= Len(s) => PoolUpTo(g[n], s, n)}
<1>1. Len(s) \in Nat /\ DOMAIN s = 1..Len(s)
  OBVIOUS
<1>2. \A k \in 0..Len(s) : g[k] = IF k = 0 THEN << >> ELSE PushUnlessPresent(g[k - 1], s[k])
  BY DEF PoolRec
<1>3. 0 \in S
  <2>1. g[0] = << >>
    BY <1>1, <1>2
  <2>2. PoolUpTo(<< >>, s, 0)
    <3> DEFINE p == << >>
               none == [k \in DOMAIN p |-> 1]
    <3>1. p \in Seq(Server) /\ DOMAIN p = {} /\ 1..0 = {}
      OBVIOUS
    <3>2. none \in [DOMAIN p -> 1..0]
      BY <3>1
    <3>3. {none[k] : k \in DOMAIN p} = {i \in 1..0 : FirstAssignable(s, i)}
      BY <3>1
    <3> HIDE DEF none, p
    <3>4. PoolUpTo(p, s, 0)
      BY <3>1, <3>2, <3>3, Zenon DEF PoolUpTo
    <3>5. QED
      BY <3>4 DEF p
  <2>3. QED
    BY <2>1, <2>2
<1>4. ASSUME NEW n \in Nat, n \in S PROVE n + 1 \in S
  <2> SUFFICES ASSUME n + 1 <= Len(s) PROVE PoolUpTo(g[n + 1], s, n + 1)
    OBVIOUS
  <2>1. PoolUpTo(g[n], s, n) /\ n + 1 \in DOMAIN s
    BY <1>1, <1>4
  <2>2. g[n + 1] = PushUnlessPresent(g[n], s[n + 1])
    <3>1. n + 1 \in 0..Len(s) /\ n + 1 # 0 /\ (n + 1) - 1 = n
      BY <1>1
    <3>2. QED
      BY <1>2, <3>1
  <2>3. QED
    BY <2>1, <2>2, PushStep
<1> HIDE DEF S
<1>5. Len(s) \in S
  BY <1>1, <1>3, <1>4, NatSetInduction
<1>6. QED
  BY <1>1, <1>5 DEF S

\* rebuild_fallback_servers computes the pool of its table: the first
\* assignable entry of each address, in slot order, and nothing else.
THEOREM PoolCorrect ==
  ASSUME NEW s \in Seq(Server)
  PROVE  PoolOf(s) \in Seq(Server) /\ IsPoolOf(PoolOf(s), s)
<1> DEFINE pool == CHOOSE g : g = PoolRec(g, s, Len(s))
<1>1. Len(s) \in Nat /\ DOMAIN s = 1..Len(s)
  OBVIOUS
<1>2. pool = PoolRec(pool, s, Len(s))
  BY <1>1, PoolRecursion
<1>3. PoolOf(s) = pool[Len(s)]
  BY DEF PoolOf, PoolRec
<1> HIDE DEF pool
<1>4. PoolUpTo(PoolOf(s), s, Len(s))
  BY <1>2, <1>3, PoolValues
<1>5. QED
  BY <1>1, <1>4 DEF PoolUpTo, IsPoolOf
=============================================================================
