---------------------------- MODULE StatusProofs ----------------------------
(***************************************************************************)
(* The counters and the status socket for any number of workers, counters, *)
(* readers, connections and slots.                                         *)
(*                                                                         *)
(* The argument about the counters: the sum of a column of slots moves     *)
(* with every store by what was added, and a reader that is half way holds *)
(* no more than the slots behind it and lacks no more than those ahead.    *)
(***************************************************************************)
EXTENDS StatusApi, WellFoundedInduction, TLAPS

-----------------------------------------------------------------------------
(* Sums over workers.                                                       *)

\* Induction over the naturals, as a fact about sets.
LEMMA NatSetInduction ==
  ASSUME NEW S, 0 \in S, \A n \in Nat : n \in S => n + 1 \in S
  PROVE  Nat \subseteq S
<1> DEFINE R == OpToRel(<, Nat)
           T == Nat \ S
<1>1. IsWellFoundedOn(R, Nat)
  BY NatLessThanWellFounded, Zenon
<1>2. SUFFICES ASSUME T # {} PROVE FALSE
  OBVIOUS
<1> HIDE DEF R
<1>3. PICK m \in T : \A k \in T : ~(<<k, m>> \in R)
  BY <1>1, <1>2, WFMin, Zenon
<1>4. m \in Nat /\ m # 0 /\ m - 1 \in Nat /\ (m - 1) + 1 = m
  BY <1>3
<1>5. m - 1 \notin S
  BY <1>3, <1>4
<1>6. <<m - 1, m>> \in R
  BY <1>4 DEF R, OpToRel
<1> QED BY <1>3, <1>4, <1>5, <1>6

\* SumTo's recursion, over the first n workers.
SumRec(g, f, n) == [k \in 0..n |-> IF k = 0 THEN 0 ELSE g[k - 1] + f[k]]

LEMMA SumRecursion ==
  ASSUME NEW f, NEW N \in Nat
  PROVE  \E g : g = SumRec(g, f, N)
<1> DEFINE S == {n \in Nat : \E g : g = SumRec(g, f, n)}
<1>1. 0 \in S
  <2> DEFINE g == [k \in 0..0 |-> 0]
  <2>1. g = SumRec(g, f, 0)
    BY DEF SumRec
  <2> QED BY <2>1
<1>2. ASSUME NEW n \in Nat, n \in S PROVE n + 1 \in S
  <2>1. PICK g : g = SumRec(g, f, n)
    BY <1>2
  <2> DEFINE h == [k \in 0..n + 1 |-> IF k = n + 1 THEN g[n] + f[k] ELSE g[k]]
  <2>2. \A k \in 0..n : g[k] = IF k = 0 THEN 0 ELSE g[k - 1] + f[k]
    BY <2>1 DEF SumRec
  <2>3. h[n + 1] = g[n] + f[n + 1] /\ \A k \in 0..n : h[k] = g[k]
    OBVIOUS
  <2>4. h = [k \in 0..n + 1 |-> h[k]]
    OBVIOUS
  <2> HIDE DEF h
  <2>5. ASSUME NEW k \in 0..n + 1
        PROVE  h[k] = IF k = 0 THEN 0 ELSE h[k - 1] + f[k]
    <3>1. CASE k = n + 1
      <4>1. k # 0 /\ k - 1 = n /\ n \in 0..n
        BY <3>1
      <4> QED BY <2>3, <3>1, <4>1
    <3>2. CASE k = 0
      BY <2>2, <2>3, <3>2
    <3>3. CASE k \in 1..n
      <4>1. k \in 0..n /\ k - 1 \in 0..n /\ k # 0
        BY <3>3
      <4> QED BY <2>2, <2>3, <4>1
    <3> QED BY <3>1, <3>2, <3>3
  <2>6. h = SumRec(h, f, n + 1)
    BY <2>4, <2>5, Zenon DEF SumRec
  <2> QED BY <2>6
<1> HIDE DEF S
<1>3. N \in S
  BY <1>1, <1>2, NatSetInduction
<1> QED BY <1>3 DEF S

\* What SumTo computes, one worker at a time.
LEMMA SumUnfolds ==
  ASSUME NEW f
  PROVE  /\ SumTo(f, 0) = 0
         /\ \A k \in Worker : SumTo(f, k) = SumTo(f, k - 1) + f[k]
<1> DEFINE g == CHOOSE g : g = [k \in 0..NUM_WORKERS |-> IF k = 0 THEN 0 ELSE g[k - 1] + f[k]]
<1>1. NUM_WORKERS \in Nat
  BY StatsAssumption
<1>2. \A n : SumTo(f, n) = g[n]
  BY DEF SumTo
<1>3. g = SumRec(g, f, NUM_WORKERS)
  <2>1. \E h : h = SumRec(h, f, NUM_WORKERS)
    BY <1>1, SumRecursion
  <2> QED BY <2>1, Zenon DEF SumRec
<1> HIDE DEF g
<1>4. \A k \in 0..NUM_WORKERS : g[k] = IF k = 0 THEN 0 ELSE g[k - 1] + f[k]
  BY <1>3, Zenon DEF SumRec
<1>5. g[0] = 0
  BY <1>1, <1>4
<1>6. \A k \in Worker : g[k] = g[k - 1] + f[k]
  BY <1>1, <1>4 DEF Worker
<1> QED BY <1>2, <1>5, <1>6

LEMMA SumIsNat ==
  ASSUME NEW f \in [Worker -> Nat]
  PROVE  \A n \in 0..NUM_WORKERS : SumTo(f, n) \in Nat
<1> DEFINE S == {n \in Nat : n <= NUM_WORKERS => SumTo(f, n) \in Nat}
<1>1. 0 \in S
  BY SumUnfolds
<1>2. ASSUME NEW n \in Nat, n \in S PROVE n + 1 \in S
  <2> SUFFICES ASSUME n + 1 <= NUM_WORKERS PROVE SumTo(f, n + 1) \in Nat
    OBVIOUS
  <2>1. SumTo(f, n) \in Nat
    BY <1>2, StatsAssumption
  <2>2. n + 1 \in Worker /\ (n + 1) - 1 = n
    BY StatsAssumption DEF Worker
  <2>3. SumTo(f, n + 1) = SumTo(f, n) + f[n + 1]
    BY <2>2, SumUnfolds
  <2> QED BY <2>1, <2>2, <2>3
<1> HIDE DEF S
<1>3. Nat \subseteq S
  BY <1>1, <1>2, NatSetInduction
<1> QED BY <1>3, StatsAssumption DEF S

\* One entry moves by d, and with it the sums that it is part of.
LEMMA SumMoves ==
  ASSUME NEW f \in [Worker -> Nat], NEW g \in [Worker -> Nat], NEW w \in Worker, NEW d \in Int,
         g[w] = f[w] + d, \A v \in Worker \ {w} : g[v] = f[v]
  PROVE  \A n \in 0..NUM_WORKERS : SumTo(g, n) = SumTo(f, n) + (IF w <= n THEN d ELSE 0)
<1> DEFINE P(n) == SumTo(g, n) = SumTo(f, n) + (IF w <= n THEN d ELSE 0)
           S == {n \in Nat : n <= NUM_WORKERS => P(n)}
<1>1. w \in Nat /\ w >= 1
  BY StatsAssumption DEF Worker
<1>2. 0 \in S
  BY <1>1, SumUnfolds
<1>3. ASSUME NEW n \in Nat, n \in S PROVE n + 1 \in S
  <2> SUFFICES ASSUME n + 1 <= NUM_WORKERS PROVE P(n + 1)
    OBVIOUS
  <2>1. P(n) /\ SumTo(f, n) \in Nat /\ SumTo(g, n) \in Nat
    <3>1. n \in 0..NUM_WORKERS
      BY StatsAssumption
    <3> QED BY <1>3, <3>1, SumIsNat
  <2>2. n + 1 \in Worker /\ (n + 1) - 1 = n
    BY StatsAssumption DEF Worker
  <2>3. SumTo(f, n + 1) = SumTo(f, n) + f[n + 1] /\ SumTo(g, n + 1) = SumTo(g, n) + g[n + 1]
    BY <2>2, SumUnfolds
  <2>4. f[n + 1] \in Nat /\ g[n + 1] \in Nat /\ f[w] \in Nat
    BY <2>2
  <2>5. CASE w = n + 1
    BY <1>1, <2>1, <2>3, <2>4, <2>5
  <2>6. CASE w # n + 1
    <3>1. g[n + 1] = f[n + 1] /\ (w <= n + 1 <=> w <= n)
      BY <1>1, <2>2, <2>6
    <3> QED BY <2>1, <2>3, <2>4, <3>1
  <2> QED BY <2>5, <2>6
<1> HIDE DEF S
<1>4. Nat \subseteq S
  BY <1>2, <1>3, NatSetInduction
<1> QED BY <1>4, StatsAssumption DEF S

LEMMA TimesGrows ==
  ASSUME NEW a \in Nat, NEW b \in Nat, NEW m \in Nat, a <= b
  PROVE  a * m <= b * m
<1> DEFINE d == b - a
<1>1. d \in Nat /\ b = a + d
  OBVIOUS
<1> HIDE DEF d
<1>2. d * m \in Nat /\ a * m \in Nat /\ (a + d) * m = a * m + d * m
  BY <1>1
<1> QED BY <1>1, <1>2

\* Entries of at most MAX_PACKETS do not sum up to a wrap.
LEMMA SumIsBounded ==
  ASSUME NEW f \in [Worker -> Nat], \A w \in Worker : f[w] <= MAX_PACKETS
  PROVE  \A n \in 0..NUM_WORKERS : SumTo(f, n) <= NUM_WORKERS * MAX_PACKETS
<1> DEFINE S == {n \in Nat : n <= NUM_WORKERS => SumTo(f, n) <= n * MAX_PACKETS}
<1>1. 0 \in S
  BY SumUnfolds, StatsAssumption
<1>2. ASSUME NEW n \in Nat, n \in S PROVE n + 1 \in S
  <2> SUFFICES ASSUME n + 1 <= NUM_WORKERS PROVE SumTo(f, n + 1) <= (n + 1) * MAX_PACKETS
    OBVIOUS
  <2>1. SumTo(f, n) <= n * MAX_PACKETS
    BY <1>2, StatsAssumption
  <2>2. n + 1 \in Worker /\ (n + 1) - 1 = n /\ n \in 0..NUM_WORKERS
    BY StatsAssumption DEF Worker
  <2>3. SumTo(f, n + 1) = SumTo(f, n) + f[n + 1] /\ SumTo(f, n) \in Nat
    BY <2>2, SumUnfolds, SumIsNat
  <2>4. f[n + 1] \in Nat /\ f[n + 1] <= MAX_PACKETS
    BY <2>2
  <2>5. (n + 1) * MAX_PACKETS = n * MAX_PACKETS + MAX_PACKETS /\ n * MAX_PACKETS \in Nat
        /\ MAX_PACKETS \in Nat
    BY StatsAssumption
  <2> QED BY <2>1, <2>3, <2>4, <2>5
<1> HIDE DEF S
<1>3. Nat \subseteq S
  BY <1>1, <1>2, NatSetInduction
<1>4. ASSUME NEW n \in 0..NUM_WORKERS PROVE SumTo(f, n) <= NUM_WORKERS * MAX_PACKETS
  <2>1. SumTo(f, n) <= n * MAX_PACKETS
    BY <1>3, StatsAssumption DEF S
  <2>2. n * MAX_PACKETS <= NUM_WORKERS * MAX_PACKETS
    BY TimesGrows, StatsAssumption
  <2>3. n * MAX_PACKETS \in Nat /\ NUM_WORKERS * MAX_PACKETS \in Nat /\ SumTo(f, n) \in Nat
    BY SumIsNat, StatsAssumption
  <2> QED BY <2>1, <2>2, <2>3
<1> QED BY <1>4

LEMMA NoWrap ==
  ASSUME NEW x \in Nat, x <= NUM_WORKERS * MAX_PACKETS
  PROVE  x % WRAP = x
<1>1. NUM_WORKERS * MAX_PACKETS \in Nat /\ WRAP \in Nat /\ NUM_WORKERS * MAX_PACKETS < WRAP
  BY StatsAssumption
<1>2. x < WRAP
  BY <1>1
<1> QED BY <1>1, <1>2

-----------------------------------------------------------------------------
(* The workers' counters.                                                   *)

Table == [Worker -> [Counter -> Nat]]
ColumnOf(s, c) == [w \in Worker |-> s[w][c]]

LEMMA ColumnIsNat ==
  ASSUME NEW s \in Table, NEW c \in Counter
  PROVE  /\ ColumnOf(s, c) \in [Worker -> Nat]
         /\ \A n \in 0..NUM_WORKERS : SumTo(ColumnOf(s, c), n) \in Nat
<1>1. ColumnOf(s, c) \in [Worker -> Nat]
  BY DEF Table, ColumnOf
<1> QED BY <1>1, SumIsNat

\* The row of one worker moves.
LEMMA RowMoves ==
  ASSUME NEW s \in Table, NEW t \in Table, NEW w \in Worker,
         \A v \in Worker \ {w} : t[v] = s[v], NEW c \in Counter, NEW n \in 0..NUM_WORKERS
  PROVE  SumTo(ColumnOf(t, c), n)
           = SumTo(ColumnOf(s, c), n) + (IF w <= n THEN t[w][c] - s[w][c] ELSE 0)
<1> DEFINE f == ColumnOf(s, c)
           g == ColumnOf(t, c)
           d == t[w][c] - s[w][c]
<1>1. f \in [Worker -> Nat] /\ g \in [Worker -> Nat]
  BY ColumnIsNat
<1>2. s[w][c] \in Nat /\ t[w][c] \in Nat
  BY DEF Table
<1>3. d \in Int /\ g[w] = f[w] + d
  BY <1>2 DEF ColumnOf
<1>4. \A v \in Worker \ {w} : g[v] = f[v]
  BY DEF ColumnOf
<1> HIDE DEF f, g, d
<1>5. SumTo(g, n) = SumTo(f, n) + (IF w <= n THEN d ELSE 0)
  BY <1>1, <1>3, <1>4, SumMoves
<1> QED BY <1>5 DEF f, g, d

\* What a worker still has to add has been received, and what it has loaded is current:
\* nobody else writes its slot.
CountTypes ==
  /\ slots \in Table /\ pending \in Table
  /\ received \in [Worker -> 0..MAX_PACKETS] /\ recorded \in [Counter -> Nat]
  /\ loaded \in [Worker -> Nat \cup {-1}]
CountInv ==
  /\ CountTypes
  /\ \A w \in Worker : \A c \in Counter : slots[w][c] + pending[w][c] <= received[w]
  /\ \A w \in Worker : loaded[w] # -1 => pending[w] # Zero /\ loaded[w] = slots[w][NextAdd(w)]
  /\ NothingLost

LEMMA NothingLostSums ==
  NothingLost <=> \A c \in Counter : recorded[c] = SumTo(ColumnOf(slots, c), NUM_WORKERS)
                                                   + SumTo(ColumnOf(pending, c), NUM_WORKERS)
BY DEF NothingLost, Sum, ColumnOf

\* A column sums up to no more than the packets there are.
LEMMA ColumnIsBounded ==
  ASSUME CountInv, NEW c \in Counter, NEW n \in 0..NUM_WORKERS
  PROVE  /\ SumTo(ColumnOf(slots, c), n) \in Nat
         /\ SumTo(ColumnOf(slots, c), n) <= NUM_WORKERS * MAX_PACKETS
<1>1. ColumnOf(slots, c) \in [Worker -> Nat] /\ SumTo(ColumnOf(slots, c), n) \in Nat
  BY ColumnIsNat DEF CountInv, CountTypes
<1>2. \A w \in Worker : ColumnOf(slots, c)[w] <= MAX_PACKETS
  <2> SUFFICES ASSUME NEW w \in Worker PROVE slots[w][c] <= MAX_PACKETS
    BY DEF ColumnOf
  <2>1. slots[w][c] \in Nat /\ pending[w][c] \in Nat /\ received[w] \in 0..MAX_PACKETS
    BY DEF CountInv, CountTypes, Table
  <2>2. slots[w][c] + pending[w][c] <= received[w]
    BY DEF CountInv
  <2> QED BY <2>1, <2>2, StatsAssumption
<1> QED BY <1>1, <1>2, SumIsBounded

LEMMA SumOfZeros ==
  ASSUME NEW c \in Counter, NEW n \in 0..NUM_WORKERS
  PROVE  SumTo(ColumnOf([w \in Worker |-> Zero], c), n) = 0
<1> DEFINE f == ColumnOf([w \in Worker |-> Zero], c)
           S == {k \in Nat : k <= NUM_WORKERS => SumTo(f, k) = 0}
<1>1. \A w \in Worker : f[w] = 0
  BY DEF ColumnOf, Zero
<1> HIDE DEF f
<1>2. 0 \in S
  BY SumUnfolds
<1>3. ASSUME NEW k \in Nat, k \in S PROVE k + 1 \in S
  <2> SUFFICES ASSUME k + 1 <= NUM_WORKERS PROVE SumTo(f, k + 1) = 0
    OBVIOUS
  <2>1. SumTo(f, k) = 0
    BY <1>3, StatsAssumption
  <2>2. k + 1 \in Worker /\ (k + 1) - 1 = k
    BY StatsAssumption DEF Worker
  <2>3. SumTo(f, k + 1) = SumTo(f, k) + f[k + 1]
    BY <2>2, SumUnfolds
  <2> QED BY <1>1, <2>1, <2>2, <2>3
<1> HIDE DEF S
<1>4. Nat \subseteq S
  BY <1>2, <1>3, NatSetInduction
<1> QED BY <1>4, StatsAssumption DEF S, f

LEMMA CountInit == StatsInit => CountInv
<1> SUFFICES ASSUME StatsInit PROVE CountInv
  OBVIOUS
<1>1. CountTypes
  BY StatsAssumption DEF StatsInit, CountTypes, Table, Zero
<1>2. \A w \in Worker : \A c \in Counter : slots[w][c] + pending[w][c] <= received[w]
  BY DEF StatsInit, Zero
<1>3. \A w \in Worker : loaded[w] = -1
  BY DEF StatsInit
<1>4. NothingLost
  <2>1. NUM_WORKERS \in 0..NUM_WORKERS
    BY StatsAssumption
  <2>2. slots = [w \in Worker |-> Zero] /\ pending = [w \in Worker |-> Zero]
    BY DEF StatsInit
  <2>3. \A c \in Counter : recorded[c] = 0
    BY DEF StatsInit, Zero
  <2> QED BY <2>1, <2>2, <2>3, SumOfZeros, NothingLostSums
<1> QED BY <1>1, <1>2, <1>3, <1>4, Zenon DEF CountInv

LEMMA MinIsMember ==
  ASSUME NEW S \in SUBSET Nat, S # {}
  PROVE  Min(S) \in S
<1> DEFINE R == OpToRel(<, Nat)
<1>1. IsWellFoundedOn(R, Nat)
  BY NatLessThanWellFounded, Zenon
<1> HIDE DEF R
<1>2. PICK m \in S : \A k \in S : ~(<<k, m>> \in R)
  BY <1>1, WFMin, Zenon
<1>3. ASSUME NEW k \in S PROVE m <= k
  <2>1. k \in Nat /\ m \in Nat /\ ~(<<k, m>> \in R)
    BY <1>2
  <2>2. ~(k < m)
    BY <2>1 DEF R, OpToRel
  <2> QED BY <2>1, <2>2
<1> QED BY <1>2, <1>3, Zenon DEF Min

LEMMA NextAddIsPending ==
  ASSUME CountTypes, NEW w \in Worker, pending[w] # Zero
  PROVE  NextAdd(w) \in Counter /\ pending[w][NextAdd(w)] > 0
<1> DEFINE S == {i \in DOMAIN COUNTERS : pending[w][COUNTERS[i]] > 0}
<1>1. pending[w] \in [Counter -> Nat]
  BY DEF CountTypes, Table
<1>2. PICK c \in Counter : pending[w][c] # 0
  BY <1>1 DEF Zero
<1>3. PICK i \in DOMAIN COUNTERS : c = COUNTERS[i]
  BY DEF Counter, Range
<1>4. pending[w][c] \in Nat
  BY <1>1
<1>5. S # {}
  BY <1>2, <1>3, <1>4
<1>6. DOMAIN COUNTERS \subseteq Nat
  BY StatsAssumption
<1>7. S \in SUBSET Nat
  BY <1>6
<1>8. NextAdd(w) = COUNTERS[Min(S)]
  BY DEF NextAdd
<1>9. Min(S) \in S
  BY <1>5, <1>7, MinIsMember, Zenon
<1>10. \A k \in S : COUNTERS[k] \in Counter /\ pending[w][COUNTERS[k]] > 0
  BY Zenon DEF Counter, Range
<1> HIDE DEF S
<1> QED BY <1>8, <1>9, <1>10, Zenon

\* A load.
LEMMA LoadCounts ==
  ASSUME CountInv, NEW w \in Worker, AddLoad(w)
  PROVE  CountInv'
<1>1. CountTypes /\ pending[w] # Zero
  BY DEF CountInv, AddLoad
<1>2. NextAdd(w) \in Counter
  BY <1>1, NextAddIsPending
<1>3. /\ loaded' = [loaded EXCEPT ![w] = slots[w][NextAdd(w)]]
      /\ UNCHANGED <<slots, pending, received, recorded>>
  BY DEF AddLoad, slot
<1>4. slots[w][NextAdd(w)] \in Nat
  BY <1>1, <1>2 DEF CountTypes, Table
<1>5. CountTypes'
  BY <1>1, <1>3, <1>4 DEF CountTypes
<1>6. \A v \in Worker : NextAdd(v)' = NextAdd(v)
  BY <1>3, Zenon DEF NextAdd
<1>7. ASSUME NEW v \in Worker, loaded'[v] # -1
      PROVE  pending'[v] # Zero /\ loaded'[v] = slots'[v][NextAdd(v)']
  <2>1. CASE v = w
    BY <1>1, <1>3, <1>6, <2>1 DEF CountTypes
  <2>2. CASE v # w
    BY <1>1, <1>3, <1>6, <1>7, <2>2, Zenon DEF CountTypes, CountInv
  <2> QED BY <2>1, <2>2
<1>8. NothingLost'
  BY <1>3, Zenon DEF CountInv, NothingLost
<1> QED BY <1>3, <1>5, <1>7, <1>8, Zenon DEF CountInv

\* A store: what was pending is in the slot.
LEMMA StoreMoves ==
  ASSUME CountInv, NEW w \in Worker, AddStore(w)
  PROVE  LET c == NextAdd(w) IN
         /\ c \in Counter /\ pending[w][c] \in Nat
         /\ slots' = [slots EXCEPT ![w][c] = slots[w][c] + pending[w][c]]
         /\ pending' = [pending EXCEPT ![w][c] = 0]
         /\ slots' \in Table /\ pending' \in Table
         /\ loaded' = [loaded EXCEPT ![w] = -1] /\ UNCHANGED <<received, recorded>>
<1> DEFINE c == NextAdd(w)
<1>1. CountTypes /\ pending[w] # Zero /\ loaded[w] = slots[w][c]
  BY Zenon DEF CountInv, AddStore
<1>2. c \in Counter
  BY <1>1, NextAddIsPending
<1>3. /\ slots' = [slots EXCEPT ![w][c] = (loaded[w] + pending[w][c]) % WRAP]
      /\ pending' = [pending EXCEPT ![w][c] = 0]
      /\ loaded' = [loaded EXCEPT ![w] = -1] /\ UNCHANGED <<received, recorded>>
  BY DEF AddStore, slot
<1> HIDE DEF c
<1>4. slots[w][c] \in Nat /\ pending[w][c] \in Nat /\ received[w] \in Nat /\ received[w] <= MAX_PACKETS
  BY <1>1, <1>2, StatsAssumption DEF CountTypes, Table
<1>5. slots[w][c] + pending[w][c] <= received[w]
  BY <1>2 DEF CountInv
<1>6. MAX_PACKETS <= NUM_WORKERS * MAX_PACKETS /\ MAX_PACKETS \in Nat
      /\ NUM_WORKERS * MAX_PACKETS \in Nat
  <2>1. 1 * MAX_PACKETS <= NUM_WORKERS * MAX_PACKETS
    BY StatsAssumption, TimesGrows
  <2> QED BY <2>1, StatsAssumption
<1>7. slots[w][c] + pending[w][c] <= NUM_WORKERS * MAX_PACKETS
  BY <1>4, <1>5, <1>6
<1>8. (slots[w][c] + pending[w][c]) % WRAP = slots[w][c] + pending[w][c]
  BY <1>4, <1>7, NoWrap
<1>9. slots' = [slots EXCEPT ![w][c] = slots[w][c] + pending[w][c]]
  BY <1>1, <1>3, <1>8, Zenon
<1>10. slots' \in Table /\ pending' \in Table
  BY <1>1, <1>2, <1>3, <1>4, <1>9 DEF CountTypes, Table
<1> QED BY <1>2, <1>3, <1>4, <1>9, <1>10, Zenon DEF c

LEMMA StoreCounts ==
  ASSUME CountInv, NEW w \in Worker, AddStore(w)
  PROVE  CountInv'
<1> DEFINE c == NextAdd(w)
<1>1. /\ c \in Counter /\ pending[w][c] \in Nat
      /\ slots' = [slots EXCEPT ![w][c] = slots[w][c] + pending[w][c]]
      /\ pending' = [pending EXCEPT ![w][c] = 0]
      /\ slots' \in Table /\ pending' \in Table
      /\ loaded' = [loaded EXCEPT ![w] = -1] /\ UNCHANGED <<received, recorded>>
  BY StoreMoves, Zenon
<1> HIDE DEF c
<1>2. CountTypes
  BY DEF CountInv
<1>3. CountTypes'
  BY <1>1, <1>2, Zenon DEF CountTypes
<1>4. ASSUME NEW v \in Worker, NEW b \in Counter
      PROVE  /\ slots'[v][b] = slots[v][b] + (IF v = w /\ b = c THEN pending[w][c] ELSE 0)
             /\ pending'[v][b] = pending[v][b] - (IF v = w /\ b = c THEN pending[w][c] ELSE 0)
             /\ slots[v][b] \in Nat /\ pending[v][b] \in Nat
  BY <1>1, <1>2 DEF CountTypes, Table
<1>5. ASSUME NEW v \in Worker, NEW b \in Counter
      PROVE  slots'[v][b] + pending'[v][b] <= received'[v]
  <2>1. slots[v][b] + pending[v][b] <= received[v] /\ received'[v] = received[v]
    BY <1>1, Zenon DEF CountInv
  <2> QED BY <1>1, <1>4, <2>1
<1>6. ASSUME NEW v \in Worker, loaded'[v] # -1
      PROVE  pending'[v] # Zero /\ loaded'[v] = slots'[v][NextAdd(v)']
  <2>1. v # w /\ loaded'[v] = loaded[v]
    BY <1>1, <1>2, <1>6, Zenon DEF CountTypes
  <2>2. pending'[v] = pending[v] /\ slots'[v] = slots[v]
    BY <1>1, <1>2, <2>1, Zenon DEF CountTypes, Table
  <2>3. NextAdd(v)' = NextAdd(v)
    BY <2>2 DEF NextAdd
  <2> QED BY <1>6, <2>1, <2>2, <2>3, Zenon DEF CountInv
<1>7. NothingLost'
  <2>1. ASSUME NEW b \in Counter
        PROVE  recorded'[b] = SumTo(ColumnOf(slots', b), NUM_WORKERS)
                              + SumTo(ColumnOf(pending', b), NUM_WORKERS)
    <3> DEFINE n == NUM_WORKERS
    <3>1. n \in 0..n /\ w <= n
      BY StatsAssumption DEF Worker
    <3>2. \A v \in Worker \ {w} : pending'[v] = pending[v] /\ slots'[v] = slots[v]
      BY <1>1, <1>2, Zenon DEF CountTypes, Table
    <3>3. slots \in Table /\ slots' \in Table /\ pending \in Table /\ pending' \in Table
      BY <1>1, <1>2, Zenon DEF CountTypes
    <3>4. SumTo(ColumnOf(pending', b), n)
            = SumTo(ColumnOf(pending, b), n)
              + (IF w <= n THEN pending'[w][b] - pending[w][b] ELSE 0)
      BY <3>1, <3>2, <3>3, RowMoves
    <3>5. SumTo(ColumnOf(slots', b), n)
            = SumTo(ColumnOf(slots, b), n) + (IF w <= n THEN slots'[w][b] - slots[w][b] ELSE 0)
      BY <3>1, <3>2, <3>3, RowMoves
    <3>6. recorded'[b] = SumTo(ColumnOf(slots, b), n) + SumTo(ColumnOf(pending, b), n)
      BY <1>1, NothingLostSums, Zenon DEF CountInv
    <3>7. /\ SumTo(ColumnOf(slots, b), n) \in Nat /\ SumTo(ColumnOf(pending, b), n) \in Nat
      BY <1>2, <3>1, ColumnIsNat DEF CountTypes
    <3>8. /\ slots'[w][b] - slots[w][b] = pending[w][b] - pending'[w][b]
          /\ slots'[w][b] - slots[w][b] \in Int
          /\ pending'[w][b] - pending[w][b] = 0 - (slots'[w][b] - slots[w][b])
      BY <1>1, <1>4
    <3> HIDE DEF n
    <3> QED BY <3>1, <3>4, <3>5, <3>6, <3>7, <3>8 DEF n
  <2> QED BY <2>1 DEF NothingLost, Sum, ColumnOf
<1> QED BY <1>3, <1>5, <1>6, <1>7, Zenon DEF CountInv

-----------------------------------------------------------------------------
(* The readers.                                                             *)

\* How many slots have given a reader at p their i-th counter; between two Snapshots, all.
ReadOf(p, i) ==
  IF p = First THEN NUM_WORKERS ELSE IF i < p.counter THEN p.slot ELSE p.slot - 1

\* A reader with t of counter c, read from the first n slots, that has to get past l.
InStep(s, n, c, t, l) ==
  /\ t <= SumTo(ColumnOf(s, c), n)
  /\ l <= t + SumTo(ColumnOf(s, c), NUM_WORKERS) - SumTo(ColumnOf(s, c), n)

Place == [slot: Worker, counter: DOMAIN COUNTERS]
ReadTypes ==
  /\ place \in [Reader -> Place] /\ latest \in [Counter -> Nat]
  /\ total \in [Reader -> [Counter -> Nat]] /\ low \in [Reader -> [Counter -> Nat]]
ReadInv ==
  /\ ReadTypes
  /\ \A c \in Counter : latest[c] <= SumTo(ColumnOf(slots, c), NUM_WORKERS)
  /\ \A r \in Reader : \A i \in DOMAIN COUNTERS :
       InStep(slots, ReadOf(place[r], i), COUNTERS[i], total[r][COUNTERS[i]], low[r][COUNTERS[i]])

LEMMA CountersAre ==
  /\ DOMAIN COUNTERS = 1..Len(COUNTERS) /\ Len(COUNTERS) \in Nat /\ Len(COUNTERS) > 1
  /\ \A i \in DOMAIN COUNTERS : COUNTERS[i] \in Counter
  /\ \A c \in Counter : \E i \in DOMAIN COUNTERS : c = COUNTERS[i]
  /\ \A i, j \in DOMAIN COUNTERS : COUNTERS[i] = COUNTERS[j] => i = j
BY StatsAssumption DEF Counter, Range, IsInjective

LEMMA ReadOfRange ==
  ASSUME NEW p \in Place, NEW i \in DOMAIN COUNTERS
  PROVE  ReadOf(p, i) \in 0..NUM_WORKERS
<1>1. p.slot \in 1..NUM_WORKERS /\ NUM_WORKERS \in Nat
  BY StatsAssumption DEF Place, Worker
<1> QED BY <1>1 DEF ReadOf

\* aggregate's loops: the next place has read what this one had, and this counter.
LEMMA ReadAdvances ==
  ASSUME NEW p \in Place
  PROVE  /\ Following(p) \in Place
         /\ \A i \in DOMAIN COUNTERS :
              ReadOf(Following(p), i) = IF i <= p.counter THEN p.slot ELSE p.slot - 1
         /\ p = Last => Following(p) = First
<1> DEFINE L == Len(COUNTERS)
<1>1. p.slot \in 1..NUM_WORKERS /\ p.counter \in 1..L /\ NUM_WORKERS \in Nat /\ L \in Nat /\ L > 1
  BY StatsAssumption, CountersAre DEF Place, Worker
<1>2. Worker = 1..NUM_WORKERS /\ DOMAIN COUNTERS = 1..L
  BY CountersAre DEF Worker
<1>3. CASE p.counter < L
  <2> DEFINE q == [slot |-> p.slot, counter |-> p.counter + 1]
  <2>1. Following(p) = q
    BY <1>3 DEF Following
  <2>2. q # First
    BY <1>1 DEF First
  <2>3. q \in Place
    BY <1>1, <1>2, <1>3 DEF Place
  <2>4. \A i \in 1..L : i < p.counter + 1 <=> i <= p.counter
    BY <1>1
  <2>5. p # Last
    BY <1>1, <1>3 DEF Last
  <2> QED BY <1>2, <2>1, <2>2, <2>3, <2>4, <2>5 DEF ReadOf
<1>4. CASE p.counter = L /\ p.slot < NUM_WORKERS
  <2> DEFINE q == [slot |-> p.slot + 1, counter |-> 1]
  <2>1. Following(p) = q
    BY <1>1, <1>4 DEF Following
  <2>2. q # First
    BY <1>1 DEF First
  <2>3. q \in Place
    BY <1>1, <1>2, <1>4 DEF Place
  <2>4. \A i \in 1..L : ~(i < 1) /\ i <= p.counter
    BY <1>1, <1>4
  <2>5. (p.slot + 1) - 1 = p.slot
    BY <1>1
  <2>6. p # Last
    BY <1>1, <1>4 DEF Last
  <2> QED BY <1>2, <2>1, <2>2, <2>3, <2>4, <2>5, <2>6 DEF ReadOf
<1>5. CASE p.counter = L /\ p.slot = NUM_WORKERS
  <2>1. Following(p) = First
    BY <1>1, <1>5 DEF Following
  <2>2. First \in Place
    BY <1>1, <1>2 DEF First, Place
  <2>3. \A i \in 1..L : i <= p.counter
    BY <1>1, <1>5
  <2> QED BY <1>2, <1>5, <2>1, <2>2, <2>3 DEF ReadOf
<1> QED BY <1>1, <1>3, <1>4, <1>5

\* Slots that grow leave every reader in step.
LEMMA StoreKeepsReaders ==
  ASSUME CountInv, ReadInv, NEW w \in Worker, AddStore(w)
  PROVE  ReadInv'
<1> DEFINE S(c, n) == SumTo(ColumnOf(slots, c), n)
           T(c, n) == SumTo(ColumnOf(slots', c), n)
           N == NUM_WORKERS
<1>1. slots \in Table /\ slots' \in Table
  BY StoreMoves, Zenon DEF CountInv, CountTypes
<1>2. \A v \in Worker \ {w} : slots'[v] = slots[v]
  BY <1>1, StoreMoves DEF Table
<1>3. \A c \in Counter : slots'[w][c] - slots[w][c] \in Nat
  <2> DEFINE b == NextAdd(w)
  <2>1. /\ pending[w][b] \in Nat
        /\ slots' = [slots EXCEPT ![w][b] = slots[w][b] + pending[w][b]]
    BY StoreMoves
  <2> HIDE DEF b
  <2> QED BY <1>1, <2>1 DEF Table
<1>4. N \in Nat /\ N \in 0..N /\ w \in Nat /\ w <= N
  BY StatsAssumption DEF Worker
<1>5. ASSUME NEW c \in Counter, NEW n \in 0..N
      PROVE  /\ S(c, n) \in Nat /\ T(c, n) \in Nat /\ S(c, n) <= T(c, n)
             /\ S(c, N) - S(c, n) <= T(c, N) - T(c, n)
  <2>1. T(c, n) = S(c, n) + (IF w <= n THEN slots'[w][c] - slots[w][c] ELSE 0)
    BY <1>1, <1>2, RowMoves
  <2>2. T(c, N) = S(c, N) + (IF w <= N THEN slots'[w][c] - slots[w][c] ELSE 0)
    BY <1>1, <1>2, <1>4, RowMoves
  <2>3. S(c, n) \in Nat /\ T(c, n) \in Nat /\ S(c, N) \in Nat /\ T(c, N) \in Nat
    BY <1>1, <1>4, ColumnIsNat
  <2> HIDE DEF S, T
  <2> QED BY <1>3, <1>4, <2>1, <2>2, <2>3
<1>6. UNCHANGED <<place, total, low, latest>>
  BY Zenon DEF AddStore, readerVars
<1>7. ReadTypes /\ ReadTypes'
  BY <1>6, Zenon DEF ReadInv, ReadTypes
<1>8. ASSUME NEW c \in Counter PROVE latest'[c] <= T(c, N)
  <2>1. latest[c] <= S(c, N) /\ latest[c] \in Nat
    BY <1>7 DEF ReadInv, ReadTypes
  <2>2. S(c, N) \in Nat /\ T(c, N) \in Nat /\ S(c, N) <= T(c, N)
    BY <1>4, <1>5
  <2> HIDE DEF S, T
  <2> QED BY <1>6, <2>1, <2>2
<1>9. ASSUME NEW r \in Reader, NEW i \in DOMAIN COUNTERS
      PROVE  InStep(slots', ReadOf(place'[r], i), COUNTERS[i],
                    total'[r][COUNTERS[i]], low'[r][COUNTERS[i]])
  <2> DEFINE c == COUNTERS[i]
             n == ReadOf(place[r], i)
  <2>1. c \in Counter /\ n \in 0..N
    BY <1>7, CountersAre, ReadOfRange DEF ReadTypes
  <2>2. total[r][c] \in Nat /\ low[r][c] \in Nat
    BY <1>7, <2>1 DEF ReadTypes
  <2>3. total[r][c] <= S(c, n) /\ low[r][c] <= total[r][c] + S(c, N) - S(c, n)
    BY Zenon DEF ReadInv, InStep
  <2> HIDE DEF c, n, S, T
  <2>4. /\ S(c, n) \in Nat /\ T(c, n) \in Nat /\ S(c, n) <= T(c, n)
        /\ S(c, N) - S(c, n) <= T(c, N) - T(c, n) /\ S(c, N) \in Nat /\ T(c, N) \in Nat
    BY <1>4, <1>5, <2>1
  <2>5. total[r][c] <= T(c, n) /\ low[r][c] <= total[r][c] + T(c, N) - T(c, n)
    BY <2>2, <2>3, <2>4
  <2> QED BY <1>6, <2>5 DEF InStep, c, n, T
<1> QED BY <1>7, <1>8, <1>9, Zenon DEF ReadInv

\* One load of aggregate.
LEMMA ReadKeepsStep ==
  ASSUME CountInv, ReadInv, NEW r \in Reader, Read(r)
  PROVE  ReadInv'
<1> DEFINE S(c, n) == SumTo(ColumnOf(slots, c), n)
           N == NUM_WORKERS
           p == place[r]
           b == COUNTERS[p.counter]
           x == slots[p.slot][b]
           before == IF p = First THEN Zero ELSE total[r]
           past == IF p = First THEN latest ELSE low[r]
           was(i) == IF i < p.counter THEN p.slot ELSE p.slot - 1
<1>1. ReadTypes /\ slots \in Table
  BY DEF ReadInv, CountInv, CountTypes
<1>2. /\ p \in Place /\ p.slot \in Worker /\ p.counter \in DOMAIN COUNTERS /\ b \in Counter
      /\ p.slot \in Nat /\ p.slot >= 1 /\ p.slot <= N /\ N \in Nat
  BY <1>1, CountersAre, StatsAssumption, SMTT(20) DEF ReadTypes, Place, Worker
<1>3. before \in [Counter -> Nat] /\ past \in [Counter -> Nat]
  BY <1>1 DEF ReadTypes, Zero
<1>4. /\ total' = [total EXCEPT ![r] = [before EXCEPT ![b] = (before[b] + x) % WRAP]]
      /\ low' = [low EXCEPT ![r] = past]
      /\ place' = [place EXCEPT ![r] = Following(p)]
      /\ latest' = IF p = Last THEN total'[r] ELSE latest
      /\ slots' = slots
  <2>1. low' = [low EXCEPT ![r] = past]
    BY <1>1, Zenon DEF Read, ReadTypes
  <2> QED BY <2>1, Zenon DEF Read, workerVars
<1>5. ASSUME NEW c \in Counter, NEW n \in 0..N PROVE S(c, n) \in Nat /\ S(c, n) <= N * MAX_PACKETS
  BY ColumnIsBounded
<1>6. ASSUME NEW i \in DOMAIN COUNTERS
      PROVE  /\ was(i) \in 0..N
             /\ before[COUNTERS[i]] <= S(COUNTERS[i], was(i))
             /\ past[COUNTERS[i]] <= before[COUNTERS[i]] + S(COUNTERS[i], N) - S(COUNTERS[i], was(i))
  <2> DEFINE c == COUNTERS[i]
  <2>1. was(i) \in 0..N
    BY <1>2
  <2>2. c \in Counter /\ i \in Nat /\ i >= 1
    BY CountersAre
  <2>3. CASE p = First
    <3>1. p.slot = 1 /\ p.counter = 1
      BY <2>3 DEF First
    <3>2. was(i) = 0
      BY <2>2, <3>1
    <3>3. before[c] = 0 /\ past[c] = latest[c] /\ S(c, 0) = 0
      BY <2>2, <2>3, SumUnfolds DEF Zero
    <3>4. latest[c] <= S(c, N) /\ latest[c] \in Nat /\ S(c, N) \in Nat
      BY <1>1, <1>2, <1>5, <2>2 DEF ReadInv, ReadTypes
    <3> HIDE DEF S, c, before, past, was
    <3>5. before[c] <= S(c, was(i)) /\ past[c] <= before[c] + S(c, N) - S(c, was(i))
      BY <3>2, <3>3, <3>4
    <3> QED BY <2>1, <3>5 DEF c
  <2>4. CASE p # First
    <3>1. was(i) = ReadOf(p, i) /\ before = total[r] /\ past = low[r]
      BY <2>4 DEF ReadOf
    <3>2. InStep(slots, ReadOf(p, i), c, total[r][c], low[r][c])
      BY DEF ReadInv
    <3> HIDE DEF c, before, past, was, p
    <3> QED BY <2>1, <3>1, <3>2, Zenon DEF InStep, c
  <2> QED BY <2>3, <2>4, Zenon
<1> HIDE DEF before, past, p
<1>7. x \in Nat /\ S(b, p.slot) = S(b, p.slot - 1) + x
  <2>1. x \in Nat /\ ColumnOf(slots, b)[p.slot] = x
    BY <1>1, <1>2, Zenon DEF Table, ColumnOf
  <2> QED BY <1>2, <2>1, SumUnfolds, Zenon
<1> HIDE DEF x
<1>8. (before[b] + x) % WRAP = before[b] + x
  <2>1. was(p.counter) = p.slot - 1
    BY <1>2, CountersAre
  <2>2. before[b] <= S(b, p.slot - 1)
    BY <1>2, <1>6, <2>1
  <2>3. p.slot \in 0..N /\ p.slot - 1 \in 0..N
    BY <1>2
  <2>4. /\ S(b, p.slot) \in Nat /\ S(b, p.slot) <= N * MAX_PACKETS /\ S(b, p.slot - 1) \in Nat
        /\ N * MAX_PACKETS \in Nat
    <3>1. N * MAX_PACKETS \in Nat
      BY StatsAssumption
    <3>2. b \in Counter
      BY <1>2
    <3> HIDE DEF S, N, b
    <3> QED BY <1>5, <2>3, <3>1, <3>2
  <2>5. before[b] \in Nat
    BY <1>2, <1>3
  <2> HIDE DEF S, b, N
  <2>6. before[b] + x \in Nat /\ before[b] + x <= N * MAX_PACKETS
    BY <1>7, <2>2, <2>4, <2>5
  <2> QED BY <2>6, NoWrap DEF N
<1>9. total'[r] = [before EXCEPT ![b] = before[b] + x] /\ low'[r] = past /\ place'[r] = Following(p)
  BY <1>1, <1>4, <1>8, Zenon DEF ReadTypes
<1>10. ReadTypes'
  <2>1. total'[r] \in [Counter -> Nat]
    BY <1>2, <1>3, <1>7, <1>9
  <2>2. total' \in [Reader -> [Counter -> Nat]]
    BY <1>1, <1>4, <1>9, <2>1, Zenon DEF ReadTypes
  <2>3. low' \in [Reader -> [Counter -> Nat]]
    BY <1>1, <1>3, <1>4, Zenon DEF ReadTypes
  <2>4. place' \in [Reader -> Place]
    BY <1>1, <1>2, <1>4, ReadAdvances, Zenon DEF ReadTypes
  <2>5. latest' \in [Counter -> Nat]
    BY <1>1, <1>4, <2>1, Zenon DEF ReadTypes
  <2> QED BY <2>2, <2>3, <2>4, <2>5 DEF ReadTypes
<1>11. ASSUME NEW i \in DOMAIN COUNTERS
       PROVE  InStep(slots, ReadOf(Following(p), i), COUNTERS[i],
                     total'[r][COUNTERS[i]], past[COUNTERS[i]])
  <2> DEFINE c == COUNTERS[i]
             n == ReadOf(Following(p), i)
  <2>1. n = IF i <= p.counter THEN p.slot ELSE p.slot - 1
    BY <1>2, ReadAdvances
  <2>2. i \in Nat /\ p.counter \in Nat /\ c \in Counter
    BY <1>2, CountersAre
  <2>3. before[c] \in Nat /\ past[c] \in Nat
    BY <1>3, <2>2
  <2>4. was(i) \in 0..N /\ before[c] <= S(c, was(i))
        /\ past[c] <= before[c] + S(c, N) - S(c, was(i))
    BY <1>6, Zenon
  <2>5. S(c, was(i)) \in Nat /\ S(c, N) \in Nat
    BY <1>2, <1>5, <2>2, <2>4
  <2>6. CASE i = p.counter
    <3>1. c = b /\ was(i) = p.slot - 1 /\ n = p.slot
      BY <2>1, <2>2, <2>6
    <3>2. total'[r][c] = before[c] + x
      BY <1>2, <1>3, <1>9, <3>1, Zenon
    <3>3. S(c, n) = S(c, was(i)) + x
      BY <1>7, <3>1, Zenon
    <3> HIDE DEF S, c, n, was, b
    <3>4. /\ total'[r][c] <= S(c, n) /\ past[c] <= total'[r][c] + S(c, N) - S(c, n)
      BY <1>7, <2>3, <2>4, <2>5, <3>2, <3>3
    <3> QED BY <3>4, Zenon DEF InStep, S, c, n
  <2>7. CASE i # p.counter
    <3>1. c # b /\ was(i) = n
      BY <1>2, <2>1, <2>2, <2>7, CountersAre
    <3>2. total'[r][c] = before[c]
      BY <1>3, <1>9, <2>2, <3>1, Zenon
    <3> HIDE DEF c, n, was, b
    <3> QED BY <2>4, <3>1, <3>2, Zenon DEF InStep, c, n
  <2> QED BY <2>6, <2>7, Zenon
<1>12. ASSUME NEW q \in Reader, NEW i \in DOMAIN COUNTERS
       PROVE  InStep(slots', ReadOf(place'[q], i), COUNTERS[i],
                     total'[q][COUNTERS[i]], low'[q][COUNTERS[i]])
  <2>1. CASE q = r
    BY <1>4, <1>9, <1>11, <2>1, Zenon
  <2>2. CASE q # r
    <3>1. place'[q] = place[q] /\ total'[q] = total[q] /\ low'[q] = low[q]
      BY <1>1, <1>4, <2>2, Zenon DEF ReadTypes
    <3> QED BY <1>4, <3>1, Zenon DEF ReadInv
  <2> QED BY <2>1, <2>2, Zenon
<1>13. ASSUME NEW c \in Counter PROVE latest'[c] <= SumTo(ColumnOf(slots', c), N)
  <2>1. CASE p = Last
    <3>1. PICK i \in DOMAIN COUNTERS : c = COUNTERS[i]
      BY CountersAre
    <3>2. ReadOf(Following(p), i) = N
      BY <1>2, <2>1, ReadAdvances DEF ReadOf
    <3>3. total'[r][c] <= S(c, N)
      BY <1>11, <3>1, <3>2 DEF InStep
    <3> QED BY <1>4, <2>1, <3>3, Zenon
  <2>2. CASE p # Last
    BY <1>4, <2>2, Zenon DEF ReadInv
  <2> QED BY <2>1, <2>2
<1> QED BY <1>10, <1>12, <1>13, Zenon DEF ReadInv

\* Only a client that asked for the counters aggregates.
AsksForStats == \A c \in Conn : conn[c] = "stats" => c \in Reader

LEMMA ReadInit == StatsInit => ReadInv
<1> SUFFICES ASSUME StatsInit PROVE ReadInv
  OBVIOUS
<1>1. NUM_WORKERS \in 0..NUM_WORKERS /\ 1 \in Worker /\ 1 \in DOMAIN COUNTERS
  BY StatsAssumption, CountersAre DEF Worker
<1>2. First \in Place
  BY <1>1 DEF First, Place
<1>3. ReadTypes
  BY <1>2 DEF StatsInit, ReadTypes, Zero
<1>4. \A c \in Counter : SumTo(ColumnOf(slots, c), NUM_WORKERS) = 0
  BY <1>1, SumOfZeros DEF StatsInit
<1>5. ASSUME NEW r \in Reader, NEW i \in DOMAIN COUNTERS
      PROVE  InStep(slots, ReadOf(place[r], i), COUNTERS[i],
                    total[r][COUNTERS[i]], low[r][COUNTERS[i]])
  <2>1. COUNTERS[i] \in Counter
    BY CountersAre
  <2>2. ReadOf(place[r], i) = NUM_WORKERS
    BY DEF StatsInit, ReadOf
  <2>3. total[r][COUNTERS[i]] = 0 /\ low[r][COUNTERS[i]] = 0
    BY <2>1 DEF StatsInit, Zero
  <2> QED BY <1>4, <2>1, <2>2, <2>3 DEF InStep
<1>6. \A c \in Counter : latest[c] = 0
  BY DEF StatsInit, Zero
<1> QED BY <1>3, <1>4, <1>5, <1>6 DEF ReadInv

LEMMA ReadNext == CountInv /\ AsksForStats /\ ReadInv /\ [Next]_vars => ReadInv'
<1> SUFFICES ASSUME CountInv, AsksForStats, ReadInv, [Next]_vars PROVE ReadInv'
  OBVIOUS
<1>1. ASSUME UNCHANGED <<slots, readerVars>> PROVE ReadInv'
  BY <1>1, Zenon DEF ReadInv, ReadTypes, InStep, readerVars
<1>2. \/ \E w \in Worker : \/ \E batch \in Batches : Batch(w, batch)
                           \/ AddLoad(w) \/ AddStore(w)
      \/ \E c \in Conn : conn[c] = "stats" /\ Read(c)
      \/ Read(MainLoop)
      \/ UNCHANGED statsVars
  BY Zenon DEF Next, vars, Flush, AcceptLoop, HandleConnection, Connect, Accept, AcceptError,
         SeeShutdown, Spawn, Reject, SpawnFails, RequestStats, RequestOther, Aggregate,
         HandlerEnds, LogStats, SetFlag, StopApi, Kick, JoinAndUnlink
<1>3. ASSUME NEW w \in Worker, NEW batch \in Batches, Batch(w, batch) PROVE ReadInv'
  BY <1>1, <1>3 DEF Batch
<1>4. ASSUME NEW w \in Worker, AddLoad(w) PROVE ReadInv'
  BY <1>1, <1>4 DEF AddLoad
<1>5. ASSUME NEW c \in Conn, conn[c] = "stats", Read(c) PROVE ReadInv'
  BY <1>5, ReadKeepsStep DEF AsksForStats
<1>6. CASE Read(MainLoop)
  BY <1>6, ReadKeepsStep, ApiAssumption
<1>7. CASE UNCHANGED statsVars
  BY <1>1, <1>7 DEF statsVars, workerVars
<1> QED BY <1>2, <1>3, <1>4, <1>5, <1>6, <1>7, StoreKeepsReaders

-----------------------------------------------------------------------------
(* Adds and slots, by the cardinality of what they count.                   *)

INSTANCE FiniteSetTheorems

LEMMA AddsCount ==
  ASSUME NEW batch \in Batches
  PROVE  /\ Len(batch) \in Nat /\ Adds(batch) \in [Counter -> Nat]
         /\ \A c \in Counter : Adds(batch)[c] <= Len(batch)
<1>1. PICK n \in 1..MAX_PACKETS : batch \in [1..n -> Verdict]
  BY DEF Batches
<1>2. n \in Nat /\ Len(batch) = n /\ DOMAIN batch = 1..n
  BY <1>1, StatsAssumption
<1>3. IsFiniteSet(1..n) /\ Cardinality(1..n) = n
  BY <1>2, FS_Interval
<1>4. ASSUME NEW c \in Counter
      PROVE  Adds(batch)[c] \in Nat /\ Adds(batch)[c] <= n
  <2> DEFINE T == {i \in DOMAIN batch : c \in batch[i]}
  <2>1. T \subseteq 1..n
    BY <1>2, Zenon
  <2> HIDE DEF T
  <2>2. Cardinality(T) \in Nat /\ Cardinality(T) <= n
    BY <1>3, <2>1, FS_Subset, FS_CardinalityType, Zenon
  <2>3. Adds(batch)[c] = IF c = rx_packets THEN n ELSE Cardinality(T)
    BY <1>2, Zenon DEF Adds, T
  <2> QED BY <1>2, <2>2, <2>3
<1>5. Adds(batch) = [c \in Counter |-> Adds(batch)[c]]
  BY Zenon DEF Adds
<1> QED BY <1>2, <1>4, <1>5, Zenon

\* A batch: what is recorded is pending.
LEMMA BatchCounts ==
  ASSUME CountInv, NEW w \in Worker, NEW batch \in Batches, Batch(w, batch)
  PROVE  CountInv'
<1> DEFINE a == Adds(batch)
<1>1. CountTypes /\ pending[w] = Zero
  BY Zenon DEF CountInv, Batch
<1>2. Len(batch) \in Nat /\ a \in [Counter -> Nat] /\ \A c \in Counter : a[c] <= Len(batch)
  BY AddsCount
<1> HIDE DEF a
<1>3. /\ pending' = [pending EXCEPT ![w] = a] /\ received' = [received EXCEPT ![w] = @ + Len(batch)]
      /\ received[w] + Len(batch) <= MAX_PACKETS
      /\ recorded' = [c \in Counter |-> recorded[c] + a[c]] /\ UNCHANGED <<slots, loaded>>
  BY Zenon DEF Batch, a
<1>4. pending' \in Table
  BY <1>1, <1>2, <1>3, Zenon DEF CountTypes, Table
<1>5. CountTypes'
  <2>1. received' \in [Worker -> 0..MAX_PACKETS]
    BY <1>1, <1>2, <1>3, StatsAssumption DEF CountTypes
  <2>2. recorded' \in [Counter -> Nat]
    BY <1>1, <1>2, <1>3 DEF CountTypes
  <2> QED BY <1>1, <1>3, <1>4, <2>1, <2>2, Zenon DEF CountTypes
<1>6. ASSUME NEW v \in Worker, NEW c \in Counter
      PROVE  slots'[v][c] + pending'[v][c] <= received'[v]
  <2>1. slots[v][c] \in Nat /\ pending[v][c] \in Nat /\ received[v] \in Nat
    BY <1>1 DEF CountTypes, Table
  <2>2. slots[v][c] + pending[v][c] <= received[v]
    BY Zenon DEF CountInv
  <2>3. CASE v = w
    <3>1. pending[v][c] = 0 /\ pending'[v][c] = a[c] /\ received'[v] = received[v] + Len(batch)
      BY <1>1, <1>3, <2>3, Zenon DEF CountTypes, Table, Zero
    <3> QED BY <1>2, <1>3, <2>1, <2>2, <3>1
  <2>4. CASE v # w
    BY <1>1, <1>3, <2>2, <2>4, Zenon DEF CountTypes, Table
  <2> QED BY <2>3, <2>4, Zenon
<1>7. ASSUME NEW v \in Worker, loaded'[v] # -1
      PROVE  pending'[v] # Zero /\ loaded'[v] = slots'[v][NextAdd(v)']
  <2>1. v # w
    BY <1>1, <1>3, <1>7, Zenon DEF CountInv
  <2>2. pending'[v] = pending[v]
    BY <1>1, <1>3, <2>1, Zenon DEF CountTypes, Table
  <2>3. NextAdd(v)' = NextAdd(v)
    BY <2>2, Zenon DEF NextAdd
  <2> QED BY <1>3, <1>7, <2>2, <2>3, Zenon DEF CountInv
<1>8. NothingLost'
  <2>1. ASSUME NEW c \in Counter
        PROVE  recorded'[c] = SumTo(ColumnOf(slots', c), NUM_WORKERS)
                              + SumTo(ColumnOf(pending', c), NUM_WORKERS)
    <3>1. NUM_WORKERS \in 0..NUM_WORKERS /\ w <= NUM_WORKERS
      BY StatsAssumption DEF Worker
    <3>2. \A v \in Worker \ {w} : pending'[v] = pending[v]
      BY <1>1, <1>3, Zenon DEF CountTypes, Table
    <3>3. pending[w][c] = 0 /\ pending'[w][c] = a[c] /\ recorded'[c] = recorded[c] + a[c]
      BY <1>1, <1>3, Zenon DEF CountTypes, Table, Zero
    <3>4. SumTo(ColumnOf(pending', c), NUM_WORKERS)
            = SumTo(ColumnOf(pending, c), NUM_WORKERS)
              + (IF w <= NUM_WORKERS THEN pending'[w][c] - pending[w][c] ELSE 0)
      BY <1>1, <1>4, <3>1, <3>2, RowMoves DEF CountTypes
    <3>5. recorded[c] = SumTo(ColumnOf(slots, c), NUM_WORKERS)
                        + SumTo(ColumnOf(pending, c), NUM_WORKERS)
      BY NothingLostSums, Zenon DEF CountInv
    <3>6. /\ SumTo(ColumnOf(slots, c), NUM_WORKERS) \in Nat
          /\ SumTo(ColumnOf(pending, c), NUM_WORKERS) \in Nat /\ a[c] \in Nat
      BY <1>1, <1>2, <3>1, ColumnIsNat, Zenon DEF CountTypes
    <3>7. SumTo(ColumnOf(slots', c), NUM_WORKERS) = SumTo(ColumnOf(slots, c), NUM_WORKERS)
      BY <1>3, Zenon
    <3> QED BY <3>1, <3>3, <3>4, <3>5, <3>6, <3>7
  <2> QED BY <2>1, Zenon DEF NothingLost, Sum, ColumnOf
<1> QED BY <1>5, <1>6, <1>7, <1>8, Zenon DEF CountInv

LEMMA CountNext == CountInv /\ [Next]_vars => CountInv'
<1> SUFFICES ASSUME CountInv, [Next]_vars PROVE CountInv'
  OBVIOUS
<1>1. ASSUME UNCHANGED workerVars PROVE CountInv'
  <2>1. UNCHANGED <<slots, pending, loaded, received, recorded>>
    BY <1>1, Zenon DEF workerVars
  <2>2. \A w \in Worker : NextAdd(w)' = NextAdd(w)
    BY <2>1, Zenon DEF NextAdd
  <2> QED BY <2>1, <2>2, Zenon DEF CountInv, CountTypes, NothingLost
<1>2. \/ \E w \in Worker : \/ \E batch \in Batches : Batch(w, batch)
                           \/ AddLoad(w) \/ AddStore(w)
      \/ UNCHANGED workerVars
  BY Zenon DEF Next, vars, statsVars, Flush, AcceptLoop, HandleConnection, Connect, Accept, AcceptError,
         SeeShutdown, Spawn, Reject, SpawnFails, RequestStats, RequestOther, Aggregate,
         HandlerEnds, LogStats, Read, SetFlag, StopApi, Kick, JoinAndUnlink
<1> QED BY <1>1, <1>2, BatchCounts, LoadCounts, StoreCounts, Zenon

LEMMA CountInvariant == Spec => []CountInv
<1>1. Init => CountInv
  BY CountInit, Zenon DEF Init
<1> QED BY <1>1, CountNext, PTL DEF Spec

\* For any number of workers and counters, and batches of any size: what was recorded is
\* in the slots or in the hands of the worker that has yet to add it.
THEOREM CountersLoseNothing == Spec => []NothingLost
BY CountInvariant, PTL DEF CountInv

Handlers == {c \in Conn : conn[c] \in {"reading", "stats", "answered"}}

\* The connection in the accept loop's hands is not a handler's yet, so a thread for it
\* takes a slot that nobody has.
SlotInv ==
  /\ conn \in [Conn -> {"none", "queued", "accepted", "reading", "stats", "answered", "closed"}]
  /\ accepting = "accepted" => stream \in Conn /\ conn[stream] = "accepted"
  /\ active \in Nat /\ active <= MAX_CONCURRENT
  /\ IsFiniteSet(Handlers) /\ active = Cardinality(Handlers)

LEMMA SlotInit == Init => SlotInv
<1> SUFFICES ASSUME Init PROVE SlotInv
  OBVIOUS
<1>1. Handlers = {}
  BY Zenon DEF Init, Handlers
<1>2. IsFiniteSet(Handlers) /\ Cardinality(Handlers) = 0
  BY <1>1, FS_EmptySet, Zenon
<1>3. conn \in [Conn -> {"none", "queued", "accepted", "reading", "stats", "answered", "closed"}]
  BY DEF Init
<1> QED BY <1>2, <1>3, ApiAssumption DEF Init, SlotInv

\* A step that leaves the handlers what they are.
LEMMA SameHandlers ==
  ASSUME SlotInv, active' = active,
         conn' \in [Conn -> {"none", "queued", "accepted", "reading", "stats", "answered", "closed"}],
         \A c \in Conn : (conn'[c] \in {"reading", "stats", "answered"})
                           <=> (conn[c] \in {"reading", "stats", "answered"}),
         accepting' = "accepted" => stream' \in Conn /\ conn'[stream'] = "accepted"
  PROVE  SlotInv'
<1>1. Handlers' = Handlers
  BY Zenon DEF Handlers
<1> QED BY <1>1, Zenon DEF SlotInv

\* fetch_add and a thread.
LEMMA SpawnTakesASlot == ASSUME SlotInv, Spawn PROVE SlotInv'
<1>1. stream \in Conn /\ stream \notin Handlers /\ IsFiniteSet(Handlers)
  BY Zenon DEF SlotInv, Spawn, Handlers
<1>2. Handlers' = Handlers \cup {stream}
  BY <1>1, Zenon DEF SlotInv, Spawn, Handlers
<1>3. IsFiniteSet(Handlers') /\ Cardinality(Handlers') = Cardinality(Handlers) + 1
  BY <1>1, <1>2, FS_AddElement, Zenon
<1>4. active' \in Nat /\ active' <= MAX_CONCURRENT /\ active' = active + 1
  BY ApiAssumption DEF SlotInv, Spawn, Full
<1>5. /\ conn' \in [Conn -> {"none", "queued", "accepted", "reading", "stats", "answered", "closed"}]
      /\ accepting' = "accept"
  BY <1>1, Zenon DEF SlotInv, Spawn
<1> QED BY <1>3, <1>4, <1>5, Zenon DEF SlotInv

\* fetch_sub at a handler's end.
LEMMA EndFreesASlot == ASSUME SlotInv, NEW c \in Conn, HandlerEnds(c) PROVE SlotInv'
<1>1. c \in Handlers /\ IsFiniteSet(Handlers)
  BY Zenon DEF SlotInv, HandlerEnds, Handlers
<1>2. Handlers' = Handlers \ {c}
  BY <1>1, Zenon DEF SlotInv, HandlerEnds, Handlers
<1>3. IsFiniteSet(Handlers') /\ Cardinality(Handlers') = Cardinality(Handlers) - 1
  BY <1>1, <1>2, FS_RemoveElement, Zenon
<1>4. Cardinality(Handlers') \in Nat
  BY <1>3, FS_CardinalityType, Zenon
<1>5. active' \in Nat /\ active' <= MAX_CONCURRENT /\ active' = Cardinality(Handlers')
  BY <1>3, <1>4, ApiAssumption DEF SlotInv, HandlerEnds
<1>6. /\ conn' \in [Conn -> {"none", "queued", "accepted", "reading", "stats", "answered", "closed"}]
      /\ accepting' = "accepted" => stream' \in Conn /\ conn'[stream'] = "accepted"
  BY Zenon DEF SlotInv, HandlerEnds
<1> QED BY <1>3, <1>5, <1>6, Zenon DEF SlotInv

LEMMA SlotNext == SlotInv /\ [Next]_vars => SlotInv'
<1> SUFFICES ASSUME SlotInv, [Next]_vars PROVE SlotInv'
  OBVIOUS
<1>1. ASSUME UNCHANGED <<conn, accepting, stream, active>> PROVE SlotInv'
  BY <1>1, SameHandlers, Zenon DEF SlotInv
<1>2. ASSUME NEW c \in Conn, Connect(c) PROVE SlotInv'
  BY <1>2, SameHandlers, Zenon DEF SlotInv, Connect
<1>3. ASSUME NEW c \in Conn, Accept(c) PROVE SlotInv'
  BY <1>3, SameHandlers, Zenon DEF SlotInv, Accept
<1>4. CASE AcceptError
  BY <1>4, SameHandlers, Zenon DEF SlotInv, AcceptError
<1>5. CASE SeeShutdown
  BY <1>5, SameHandlers, Zenon DEF SlotInv, SeeShutdown
<1>6. CASE Reject \/ SpawnFails
  BY <1>6, SameHandlers, Zenon DEF SlotInv, Reject, SpawnFails
<1>7. ASSUME NEW c \in Conn, RequestStats(c) \/ RequestOther(c) PROVE SlotInv'
  BY <1>7, SameHandlers, Zenon DEF SlotInv, RequestStats, RequestOther, To
<1>8. ASSUME NEW c \in Conn, Aggregate(c) PROVE SlotInv'
  <2>1. CASE UNCHANGED apiVars
    BY <1>1, <2>1, Zenon DEF apiVars
  <2>2. CASE To(c, "answered")
    BY <1>8, <2>2, SameHandlers, Zenon DEF SlotInv, Aggregate, To
  <2> QED BY <1>8, <2>1, <2>2, Zenon DEF Aggregate
<1>9. ASSUME \/ UNCHANGED apiVars \/ LogStats \/ SetFlag \/ StopApi \/ UNCHANGED vars
      PROVE  SlotInv'
  BY <1>1, <1>9, Zenon DEF apiVars, LogStats, SetFlag, StopApi, Kick, JoinAndUnlink, vars
<1>10. \/ UNCHANGED apiVars \/ LogStats \/ SetFlag \/ StopApi \/ UNCHANGED vars
       \/ AcceptLoop \/ \E c \in Conn : Connect(c) \/ HandleConnection(c)
  BY Zenon DEF Next, Flush
<1> QED
  BY <1>2, <1>3, <1>4, <1>5, <1>6, <1>7, <1>8, <1>9, <1>10, SpawnTakesASlot, EndFreesASlot, Zenon
  DEF AcceptLoop, HandleConnection

\* For any number of connections and slots: the count of slots is that of the handler
\* threads, and both stay within MAX_CONCURRENT.
THEOREM SlotsStayCounted == Spec => []SlotsAreHandlers
<1>1. SlotInv => SlotsAreHandlers
  BY Zenon DEF SlotInv, SlotsAreHandlers, Handlers
<1> QED BY <1>1, SlotInit, SlotNext, PTL DEF Spec

LEMMA AsksNext == SlotInv /\ AsksForStats /\ [Next]_vars => AsksForStats'
<1> SUFFICES ASSUME SlotInv, AsksForStats, [Next]_vars,
                    NEW d \in Conn, conn'[d] = "stats", conn[d] # "stats"
             PROVE  d \in Reader
  BY DEF AsksForStats
<1> USE DEF SlotInv
<1>1. ASSUME NEW c \in Conn, Connect(c) \/ Accept(c) \/ RequestOther(c) \/ HandlerEnds(c) PROVE FALSE
  BY <1>1, Zenon DEF Connect, Accept, RequestOther, HandlerEnds, To
<1>2. ASSUME NEW c \in Conn, RequestStats(c) PROVE d \in Reader
  BY <1>2, Zenon DEF RequestStats, To
<1>3. ASSUME NEW c \in Conn, Aggregate(c) PROVE FALSE
  BY <1>3, Zenon DEF Aggregate, To, apiVars
<1>4. CASE AcceptError \/ SeeShutdown
  BY <1>4, Zenon DEF AcceptError, SeeShutdown
<1>5. CASE Spawn \/ Reject \/ SpawnFails
  BY <1>5, Zenon DEF Spawn, Reject, SpawnFails
<1>6. ASSUME \/ UNCHANGED apiVars \/ LogStats \/ SetFlag \/ StopApi \/ UNCHANGED vars
      PROVE  FALSE
  BY <1>6, Zenon DEF apiVars, LogStats, SetFlag, StopApi, Kick, JoinAndUnlink, vars
<1>7. \/ UNCHANGED apiVars \/ LogStats \/ SetFlag \/ StopApi \/ UNCHANGED vars
      \/ AcceptLoop \/ \E c \in Conn : Connect(c) \/ HandleConnection(c)
  BY Zenon DEF Next, Flush
<1> QED
  BY <1>1, <1>2, <1>3, <1>4, <1>5, <1>6, <1>7, Zenon DEF AcceptLoop, HandleConnection

\* For any number of workers, counters and readers: no Snapshot falls behind one finished
\* before it started, and Snapshot::delta is at most the packets there have been.
THEOREM SnapshotsNeverFallBehind == Spec => []DeltasAreTraffic
<1>1. Init => SlotInv /\ CountInv /\ AsksForStats /\ ReadInv
  BY SlotInit, CountInit, ReadInit DEF Init, AsksForStats
<1>2. CountInv /\ ReadInv => DeltasAreTraffic
  <2> SUFFICES ASSUME CountInv, ReadInv, NEW r \in Reader, place[r] = First, NEW c \in Counter
               PROVE  delta(total[r], low[r])[c] <= NUM_WORKERS * MAX_PACKETS
    BY Zenon DEF DeltasAreTraffic
  <2> DEFINE s == SumTo(ColumnOf(slots, c), NUM_WORKERS)
  <2>1. PICK i \in DOMAIN COUNTERS : c = COUNTERS[i]
    BY CountersAre, Zenon
  <2>2. total[r][c] <= s /\ low[r][c] <= total[r][c] + s - s
    BY <2>1, Zenon DEF ReadInv, InStep, ReadOf
  <2>3. total[r][c] \in Nat /\ low[r][c] \in Nat
    BY Zenon DEF ReadInv, ReadTypes
  <2>4. s \in Nat /\ s <= NUM_WORKERS * MAX_PACKETS
    BY StatsAssumption, ColumnIsBounded
  <2>5. NUM_WORKERS * MAX_PACKETS \in Nat
    BY StatsAssumption
  <2> HIDE DEF s
  <2>6. total[r][c] - low[r][c] \in Nat /\ total[r][c] - low[r][c] <= NUM_WORKERS * MAX_PACKETS
    BY <2>2, <2>3, <2>4, <2>5
  <2>7. delta(total[r], low[r])[c] = (total[r][c] - low[r][c]) % WRAP
    BY Zenon DEF delta
  <2>8. (total[r][c] - low[r][c]) % WRAP = total[r][c] - low[r][c]
    BY <2>6, NoWrap, Zenon
  <2> QED BY <2>6, <2>7, <2>8, Zenon
<1> QED BY <1>1, <1>2, SlotNext, CountNext, AsksNext, ReadNext, PTL DEF Spec

=============================================================================
