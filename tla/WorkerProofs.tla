---------------------------- MODULE WorkerProofs ----------------------------
(***************************************************************************)
(* What a worker counts and holds, for any number of workers and frames,   *)
(* any clock and any ring sizes: the load tracker's window, and the frames *)
(* of the UMEM.                                                            *)
(***************************************************************************)
EXTENDS LoadRate, Umem, TLAPS

-----------------------------------------------------------------------------
(* The load tracker.                                                        *)

CountsInv == RateTypeOK /\ CountsConserved

LEMMA CountsInit == RateInit => CountsInv
BY LoadRateAssumption DEF RateInit, CountsInv, RateTypeOK, CountsConserved, Steps

\* A step of one worker; the clock has moved by then, so samples stay in range.
LEMMA CountsStep ==
  ASSUME CountsInv, NEW w \in Caller,
         \/ \E n \in 0..MAX_TALLY : BatchArrives(w, n)
         \/ LoadWindow(w) \/ CompareExchange(w) \/ Swap(w) \/ StoreRate(w) \/ FetchAdd(w)
  PROVE  CountsInv'
<1> USE LoadRateAssumption DEF CountsInv, RateTypeOK, Steps
<1>1. ASSUME NEW n \in 0..MAX_TALLY, BatchArrives(w, n) PROVE CountsInv'
  BY SMTT(60), <1>1 DEF BatchArrives, CountsConserved, historyVars
<1>2. CASE LoadWindow(w)
  BY SMTT(60), <1>2 DEF LoadWindow, CountsConserved, historyVars
<1>3. CASE CompareExchange(w)
  <2>1. window_sec' \in 0..clock
    BY <1>3 DEF CompareExchange
  <2>2. step' \in [Caller -> Steps]
    BY <1>3, Zenon DEF CompareExchange
  <2> QED
    BY SMTT(60), <1>3, <2>1, <2>2 DEF CompareExchange, CountsConserved, historyVars, batchVars
<1>4. CASE Swap(w)
  BY SMTT(60), <1>4 DEF Swap, CountsConserved
<1>5. CASE StoreRate(w)
  BY SMTT(60), <1>5 DEF StoreRate, CountsConserved, batchVars
<1>6. CASE FetchAdd(w)
  <2>1. now_sec[w] \in 0..MAX_SECOND /\ count[w] \in Nat
    BY SMTT(60)
  <2>2. flushed' \in [0..MAX_SECOND -> Nat]
    BY SMTT(60), <1>6, <2>1 DEF FetchAdd
  <2>3. window_count' \in Nat /\ recorded' \in Nat
    BY SMTT(60), <1>6, <2>1 DEF FetchAdd
  <2>4. CountsConserved'
    BY SMTT(60), <1>6, <2>1 DEF FetchAdd, CountsConserved
  <2>5. step' \in [Caller -> Steps]
    BY <1>6, Zenon DEF FetchAdd
  <2> QED BY <1>6, <2>2, <2>3, <2>4, <2>5, Zenon DEF FetchAdd, batchVars
<1> QED BY <1>1, <1>2, <1>3, <1>4, <1>5, <1>6, Zenon

LEMMA CountsNext == CountsInv /\ [RateNext]_rateVars => CountsInv'
<1> SUFFICES ASSUME CountsInv, [RateNext]_rateVars PROVE CountsInv' OBVIOUS
<1>1. CASE Advance
  <2>1. clock' \in 1..MAX_SECOND /\ 0..clock \subseteq 0..clock'
    BY <1>1, LoadRateAssumption DEF Advance, CountsInv, RateTypeOK
  <2> QED
    BY <1>1, <2>1, Zenon DEF Advance, CountsInv, RateTypeOK, CountsConserved, batchVars, historyVars
<1>2. ASSUME NEW w \in Caller,
             \/ \E n \in 0..MAX_TALLY : BatchArrives(w, n)
             \/ LoadWindow(w) \/ CompareExchange(w) \/ Swap(w) \/ StoreRate(w) \/ FetchAdd(w)
      PROVE  CountsInv'
  BY <1>2, CountsStep
<1>3. CASE UNCHANGED rateVars
  BY <1>3, Zenon DEF rateVars, CountsInv, RateTypeOK, CountsConserved, batchVars, historyVars
<1> QED BY <1>1, <1>2, <1>3 DEF RateNext

\* However many workers flush and rotate at once, every Initial that record_batch
\* was given is in the window or was taken out of it by exactly one swap.
THEOREM NoInitialLost == RateSpec => [](RateTypeOK /\ CountsConserved)
<1>1. CountsInv => RateTypeOK /\ CountsConserved
  BY DEF CountsInv
<1>2. RateSpec => []CountsInv
  BY CountsInit, CountsNext, PTL DEF RateSpec
<1> QED BY <1>1, <1>2, PTL

\* A worker on its way through record_batch has had a batch.
BusyAreUsers == \A v \in Caller : step[v] # "poll" => v \in users

\* The window as its only user w leaves it between two steps.  Seconds after the window
\* have nothing flushed; between the exchange and the store the window is already the
\* new one, and what is counted in it belongs to the one before, cur[w].
SoleWindow(w) ==
  /\ last_rate = flushed[rate_window]
  /\ rate_window <= window_sec /\ (window_sec > 0 => rate_window < window_sec)
  /\ step[w] # "poll" => now_sec[w] > 0 /\ window_sec <= now_sec[w]
  /\ step[w] = "cas" => cur[w] = window_sec /\ window_sec < now_sec[w]
  /\ step[w] \in {"swap", "store"} =>
       cur[w] < window_sec /\ \A s \in 0..MAX_SECOND : s > cur[w] => flushed[s] = 0
  /\ step[w] \in {"swap", "store", "add"} => window_sec = now_sec[w]
  /\ step[w] = "swap" => window_count = flushed[cur[w]]
  /\ step[w] = "store" => prev[w] = flushed[cur[w]]
  /\ step[w] # "swap" => window_count = flushed[window_sec]
  /\ \A s \in 0..MAX_SECOND : s > window_sec => flushed[s] = 0

SoleInv == BusyAreUsers /\ \A w \in Caller : users \subseteq {w} => SoleWindow(w)

LEMMA SoleInit == RateInit => SoleInv
BY LoadRateAssumption DEF RateInit, SoleInv, BusyAreUsers, SoleWindow

\* What a step that changes neither the window nor w's place leaves: everything.
LEMMA SoleStays ==
  ASSUME NEW w \in Caller, SoleWindow(w),
         UNCHANGED <<last_rate, rate_window, window_sec, window_count, flushed>>,
         step'[w] = step[w], now_sec'[w] = now_sec[w], cur'[w] = cur[w], prev'[w] = prev[w]
  PROVE  SoleWindow(w)'
BY Zenon DEF SoleWindow

\* A step of the only user.
LEMMA SoleStep ==
  ASSUME CountsInv, NEW w \in Caller, SoleWindow(w),
         \/ \E n \in 0..MAX_TALLY : BatchArrives(w, n)
         \/ LoadWindow(w) \/ CompareExchange(w) \/ Swap(w) \/ StoreRate(w) \/ FetchAdd(w)
  PROVE  SoleWindow(w)'
<1>1. /\ clock \in Nat /\ clock > 0 /\ clock <= MAX_SECOND /\ MAX_SECOND \in Nat
      /\ window_sec \in Nat /\ window_sec <= clock /\ rate_window \in Nat /\ rate_window <= clock
      /\ now_sec[w] \in Nat /\ now_sec[w] <= clock /\ cur[w] \in Nat /\ count[w] \in Nat
      /\ window_count \in Nat
  BY LoadRateAssumption DEF CountsInv, RateTypeOK
<1>2. \A x : /\ [step EXCEPT ![w] = x][w] = x /\ [now_sec EXCEPT ![w] = x][w] = x
             /\ [cur EXCEPT ![w] = x][w] = x /\ [prev EXCEPT ![w] = x][w] = x
  BY Zenon DEF CountsInv, RateTypeOK
<1>3. ASSUME NEW n \in 0..MAX_TALLY, BatchArrives(w, n) PROVE SoleWindow(w)'
  <2>1. /\ step[w] = "poll" /\ step'[w] = "load" /\ now_sec'[w] = clock
        /\ UNCHANGED <<window_sec, window_count, last_rate, flushed, rate_window>>
    BY <1>2, <1>3, Zenon DEF BatchArrives
  <2> QED BY <1>1, <2>1, SMTT(20) DEF SoleWindow
<1>4. CASE LoadWindow(w)
  <2>1. /\ step[w] = "load" /\ step'[w] = IF now_sec[w] # window_sec THEN "cas" ELSE "add"
        /\ now_sec'[w] = now_sec[w] /\ cur'[w] = window_sec
        /\ UNCHANGED <<window_sec, window_count, last_rate, flushed, rate_window>>
    BY <1>2, <1>4, Zenon DEF LoadWindow, historyVars
  <2> QED BY <1>1, <2>1, SMTT(20) DEF SoleWindow
<1>5. CASE CompareExchange(w)
  <2>1. cur[w] = window_sec
    BY <1>5, Zenon DEF CompareExchange, SoleWindow
  <2>2. /\ step[w] = "cas" /\ step'[w] = "swap" /\ window_sec' = now_sec[w]
        /\ now_sec'[w] = now_sec[w] /\ cur'[w] = cur[w]
        /\ UNCHANGED <<window_count, last_rate, flushed, rate_window>>
    BY <1>2, <1>5, <2>1, Zenon DEF CompareExchange, batchVars, historyVars
  <2> QED BY <1>1, <2>1, <2>2, SMTT(20) DEF SoleWindow
<1>6. CASE Swap(w)
  <2>1. /\ step[w] = "swap" /\ step'[w] = "store" /\ prev'[w] = window_count /\ window_count' = 0
        /\ now_sec'[w] = now_sec[w] /\ cur'[w] = cur[w]
        /\ UNCHANGED <<window_sec, last_rate, flushed, rate_window>>
    BY <1>2, <1>6, Zenon DEF Swap
  <2> QED BY <1>1, <2>1, SMTT(20) DEF SoleWindow
<1>7. CASE StoreRate(w)
  <2>1. /\ step[w] = "store" /\ step'[w] = "add" /\ last_rate' = prev[w] /\ rate_window' = cur[w]
        /\ now_sec'[w] = now_sec[w]
        /\ UNCHANGED <<window_sec, window_count, flushed>>
    BY <1>2, <1>7, Zenon DEF StoreRate, batchVars
  <2> QED BY <1>1, <2>1, SMTT(20) DEF SoleWindow
<1>8. CASE FetchAdd(w)
  <2>1. step[w] = "add" /\ step'[w] = "poll"
    BY <1>2, <1>8, Zenon DEF FetchAdd
  <2>2. now_sec[w] = window_sec /\ rate_window < window_sec /\ window_count = flushed[window_sec]
    BY <1>1, <2>1, Zenon DEF SoleWindow
  <2>3. /\ flushed' = [flushed EXCEPT ![window_sec] = @ + count[w]]
        /\ window_count' = window_count + count[w]
        /\ UNCHANGED <<last_rate, rate_window, window_sec>>
    BY <1>8, <2>2, Zenon DEF FetchAdd
  <2>4. \A s \in 0..MAX_SECOND :
          flushed'[s] = IF s = window_sec THEN flushed[s] + count[w] ELSE flushed[s]
    BY <2>3, Zenon DEF CountsInv, RateTypeOK
  <2>5. window_sec \in 0..MAX_SECOND /\ rate_window \in 0..MAX_SECOND
    BY <1>1
  <2> QED BY <1>1, <2>1, <2>2, <2>3, <2>4, <2>5, SMTT(20) DEF SoleWindow
<1> QED BY <1>3, <1>4, <1>5, <1>6, <1>7, <1>8, Zenon

LEMMA SoleNext == CountsInv /\ SoleInv /\ [RateNext]_rateVars => SoleInv'
<1> SUFFICES ASSUME CountsInv, SoleInv, [RateNext]_rateVars PROVE SoleInv'
  OBVIOUS
<1>1. CASE Advance \/ UNCHANGED rateVars
  <2>1. UNCHANGED <<last_rate, rate_window, window_sec, window_count, flushed, step, now_sec, cur,
                    prev, users>>
    BY <1>1, Zenon DEF Advance, rateVars, batchVars, historyVars
  <2> QED BY <2>1, SoleStays DEF SoleInv, BusyAreUsers
<1>2. ASSUME NEW v \in Caller,
             \/ \E n \in 0..MAX_TALLY : BatchArrives(v, n)
             \/ LoadWindow(v) \/ CompareExchange(v) \/ Swap(v) \/ StoreRate(v) \/ FetchAdd(v)
      PROVE  SoleInv'
  <2>1. /\ users \subseteq users' /\ v \in users'
        /\ \A u \in Caller : u # v => step'[u] = step[u]
    BY <1>2, Zenon DEF BatchArrives, LoadWindow, CompareExchange, Swap, StoreRate, FetchAdd, historyVars,
                SoleInv, BusyAreUsers, CountsInv, RateTypeOK
  <2>2. BusyAreUsers'
    BY <2>1, Zenon DEF SoleInv, BusyAreUsers
  <2>3. ASSUME NEW w \in Caller, users' \subseteq {w} PROVE SoleWindow(w)'
    <3>1. w = v /\ SoleWindow(v)
      BY <2>1, <2>3 DEF SoleInv
    <3> QED BY <1>2, <3>1, SoleStep, Zenon
  <2> QED BY <2>2, <2>3, Zenon DEF SoleInv
<1> QED BY <1>1, <1>2 DEF RateNext

\* While one worker alone has had batches, what rate() returns is exactly the number of
\* Initials that arrived in the window it was counted in, at every step of record_batch.
THEOREM RateOfOneWorkerIsExact == RateSpec => []RateIsExact
<1>1. SoleInv => RateIsExact
  BY Zenon DEF SoleInv, SoleWindow, RateIsExact
<1>2. RateInit => CountsInv /\ SoleInv
  BY CountsInit, SoleInit
<1>3. CountsInv /\ SoleInv /\ [RateNext]_rateVars => CountsInv' /\ SoleInv'
  BY CountsNext, SoleNext
<1> QED BY <1>1, <1>2, <1>3, PTL DEF RateSpec
-----------------------------------------------------------------------------
(* The frames of the UMEM.  That no frame is in two places is a fact about  *)
(* a sum: the places hold every frame, and together as many entries as      *)
(* there are frames.  Moving entries keeps both.                            *)

INSTANCE FiniteSetTheorems

\* Len, as an operator the provers need not look into when they add up.
Size(s) == Len(s)

LEMMA SplitSeq ==
  ASSUME NEW s \in Seq(Frame), NEW n \in 0..Size(s)
  PROVE  /\ Prefix(s, n) \in Seq(Frame) /\ Size(Prefix(s, n)) = n
         /\ Rest(s, n) \in Seq(Frame) /\ Size(Rest(s, n)) = Size(s) - n
         /\ Range(Prefix(s, n)) \cup Range(Rest(s, n)) = Range(s)
<1> USE DEF Size
<1> DEFINE p == Prefix(s, n)
           r == Rest(s, n)
<1>1. /\ p \in Seq(Frame) /\ Size(p) = n /\ \A i \in 1..n : p[i] = s[i]
  BY DEF Prefix
<1>2. /\ r \in Seq(Frame) /\ Size(r) = Size(s) - n /\ \A i \in 1..Size(s) - n : r[i] = s[n + i]
  BY DEF Rest
<1> HIDE DEF p, r
<1>3. DOMAIN p = 1..n /\ DOMAIN r = 1..Size(s) - n /\ DOMAIN s = 1..Size(s) /\ Size(s) \in Nat
  BY <1>1, <1>2
<1>4. Range(p) \subseteq Range(s) /\ Range(r) \subseteq Range(s)
  <2>1. \A i \in 1..n : p[i] = s[i] /\ i \in 1..Size(s)
    BY <1>1
  <2>2. \A i \in 1..Size(s) - n : r[i] = s[n + i] /\ n + i \in 1..Size(s)
    BY <1>2
  <2> QED BY <1>3, <2>1, <2>2, Zenon DEF Range
<1>5. ASSUME NEW i \in 1..Size(s) PROVE s[i] \in Range(p) \cup Range(r)
  <2>1. CASE i <= n
    BY <1>1, <1>3, <2>1 DEF Range
  <2>2. CASE i > n
    <3>1. i - n \in 1..Size(s) - n /\ n + (i - n) = i
      BY <2>2
    <3>2. r[i - n] = s[i]
      BY <1>2, <3>1, Zenon
    <3> QED BY <1>3, <3>1, <3>2, Zenon DEF Range
  <2> QED BY <2>1, <2>2
<1>6. Range(p) \cup Range(r) = Range(s)
  BY <1>3, <1>4, <1>5, Zenon DEF Range
<1> QED BY <1>1, <1>2, <1>6, Zenon DEF p, r

LEMMA ConcatSeq ==
  ASSUME NEW s \in Seq(Frame), NEW t \in Seq(Frame)
  PROVE  /\ s \o t \in Seq(Frame) /\ Size(s \o t) = Size(s) + Size(t)
         /\ Range(s \o t) = Range(s) \cup Range(t)
<1> USE DEF Size
<1> DEFINE c == s \o t
<1>1. /\ c \in Seq(Frame) /\ Size(c) = Size(s) + Size(t) /\ Size(s) \in Nat /\ Size(t) \in Nat
      /\ \A i \in 1..Size(s) : c[i] = s[i]
      /\ \A i \in 1..Size(t) : c[Size(s) + i] = t[i]
  OBVIOUS
<1>2. DOMAIN s = 1..Size(s) /\ DOMAIN t = 1..Size(t) /\ DOMAIN c = 1..Size(s) + Size(t)
  BY <1>1
<1> HIDE DEF c
<1>3. ASSUME NEW i \in 1..Size(s) + Size(t) PROVE c[i] \in Range(s) \cup Range(t)
  <2>1. CASE i <= Size(s)
    BY <1>1, <1>2, <2>1 DEF Range
  <2>2. CASE i > Size(s)
    <3>1. i - Size(s) \in 1..Size(t) /\ Size(s) + (i - Size(s)) = i
      BY <1>1, <2>2
    <3>2. c[i] = t[i - Size(s)]
      BY <1>1, <3>1, Zenon
    <3> QED BY <1>2, <3>1, <3>2, Zenon DEF Range
  <2> QED BY <1>1, <2>1, <2>2
<1>4. Range(s) \subseteq Range(c)
  <2>1. \A i \in 1..Size(s) : i \in 1..Size(s) + Size(t)
    BY <1>1
  <2> QED BY <1>1, <1>2, <2>1, Zenon DEF Range
<1>5. Range(t) \subseteq Range(c)
  <2>1. \A i \in 1..Size(t) : Size(s) + i \in 1..Size(s) + Size(t)
    BY <1>1
  <2> QED BY <1>1, <1>2, <2>1, ZenonT(30) DEF Range
<1>6. Range(c) \subseteq Range(s) \cup Range(t)
  BY <1>2, <1>3, Zenon DEF Range
<1> QED BY <1>1, <1>4, <1>5, <1>6, Zenon DEF c

LEMMA EmptyHoldsNothing ==
  ASSUME NEW s \in Seq(Frame), Size(s) = 0
  PROVE  Range(s) = {}
<1> USE DEF Size
<1>1. DOMAIN s = {}
  OBVIOUS
<1>2. \A x : x \notin Range(s)
  BY <1>1, Zenon DEF Range
<1> QED BY <1>2

\* One entry at the end, and one from the front.
LEMMA AppendSeq ==
  ASSUME NEW s \in Seq(Frame), NEW f \in Frame
  PROVE  /\ Append(s, f) \in Seq(Frame) /\ Size(Append(s, f)) = Size(s) + 1
         /\ Range(Append(s, f)) = Range(s) \cup {f}
<1> USE DEF Size
<1>1. <<f>> \in Seq(Frame) /\ Size(<<f>>) = 1 /\ Range(<<f>>) = {f} /\ Append(s, f) = s \o <<f>>
  BY DEF Range
<1> HIDE DEF Range
<1> QED BY <1>1, ConcatSeq, ZenonT(30)

LEMMA HeadTailSeq ==
  ASSUME NEW s \in Seq(Frame), s # << >>
  PROVE  /\ Head(s) \in Frame /\ Tail(s) \in Seq(Frame) /\ Size(Tail(s)) = Size(s) - 1
         /\ Size(s) \in Nat /\ Range(Tail(s)) \cup {Head(s)} = Range(s)
<1> USE DEF Size
<1>1. 1 \in 0..Size(s) /\ Size(s) \in Nat
  OBVIOUS
<1>2. Tail(s) = Rest(s, 1) /\ Head(s) = s[1] /\ s[1] \in Frame
  BY DEF Rest
<1>3. Range(Prefix(s, 1)) = {s[1]}
  <2>1. Prefix(s, 1) \in Seq(Frame) /\ Size(Prefix(s, 1)) = 1 /\ Prefix(s, 1)[1] = s[1]
    BY DEF Prefix
  <2>2. DOMAIN Prefix(s, 1) = {1}
    BY <2>1
  <2> QED BY <2>1, <2>2, Zenon DEF Range
<1>4. /\ Rest(s, 1) \in Seq(Frame) /\ Size(Rest(s, 1)) = Size(s) - 1
      /\ Range(Prefix(s, 1)) \cup Range(Rest(s, 1)) = Range(s)
  BY <1>1, SplitSeq, Zenon
<1> QED BY <1>1, <1>2, <1>3, <1>4, Zenon

\* A produce takes some of the entries, and all of them when a ring of the adopted kind
\* has room.
LEMMA AcceptedSome ==
  ASSUME NEW ring \in Seq(Frame), NEW size \in Nat, NEW s \in Seq(Frame),
         flavour = "adopted" => Size(ring) + Size(s) <= size
  PROVE  /\ Accepted(ring, size, s) \in 0..Size(s)
         /\ flavour = "adopted" => Accepted(ring, size, s) = Size(s)
<1> USE DEF Size
<1>1. Size(ring) \in Nat /\ Size(s) \in Nat
  OBVIOUS
<1> QED BY <1>1 DEF Accepted, Min2

LEMMA MinOfLengths ==
  ASSUME NEW s \in Seq(Frame)
  PROVE  Min2(Size(s), BATCH_SIZE) \in 0..Size(s)
<1> USE DEF Size
<1>1. Size(s) \in Nat
  OBVIOUS
<1> QED BY <1>1, UmemAssumption DEF Min2
Total == Size(fill) + Size(rx) + Size(tx) + Size(comp)
         + Size(batch) + Size(tx_batch) + Size(recycle_batch) + Size(pending_fill)
Held == Range(fill) \cup Range(rx) \cup Range(tx) \cup Range(comp)
        \cup Range(batch) \cup Range(tx_batch) \cup Range(recycle_batch) \cup Range(pending_fill)

UmemTypes ==
  /\ flavour \in {"xsk", "adopted"} /\ loop \in {"top", "complete", "poll", "sort", "recycle", "exited"}
  /\ shutdown \in BOOLEAN
  /\ fill \in Seq(Frame) /\ rx \in Seq(Frame) /\ tx \in Seq(Frame) /\ comp \in Seq(Frame)
  /\ batch \in Seq(Frame) /\ tx_batch \in Seq(Frame) /\ recycle_batch \in Seq(Frame)
  /\ pending_fill \in Seq(Frame)

Gone == flavour = "xsk" /\ loop = "exited"

\* Every frame is somewhere, as often as the sum allows; a batch is sorted before the
\* next arrives; and rings with room for every frame leave nothing pending, so that a
\* handoff drops nothing.
UmemInv ==
  /\ UmemTypes
  /\ Gone \/ (Total = Cardinality(Frame) /\ Held = Frame)
  /\ loop # "sort" => batch = << >>
  /\ flavour = "adopted" => pending_fill = << >>

\* The fill ring as Cold boot seeds it.
LEMMA SeededFill ==
  LET s == InOrder
  IN  s \in Seq(Frame) /\ Size(s) = Cardinality(Frame) /\ Range(s) = Frame
<1> USE DEF Size
<1> DEFINE N == Cardinality(Frame)
           s == InOrder
<1>1. N \in Nat /\ ExistsBijection(1..N, Frame)
  BY FS_CardinalityType, UmemAssumption
<1>2. \E f \in [1..N -> Frame] : IsInjective(f)
  BY <1>1 DEF ExistsBijection, Bijection, Injection
<1>3. s \in [1..N -> Frame] /\ IsInjective(s)
  BY <1>2 DEF InOrder
<1> HIDE DEF s, N
<1>4. s \in Injection(1..N, Frame)
  BY <1>3, Zenon DEF Injection
<1>5. N = Cardinality(1..N) /\ IsFiniteSet(1..N)
  BY <1>1, FS_Interval
<1>6. s \in Surjection(1..N, Frame)
  BY <1>4, <1>5, FS_Injection, UmemAssumption DEF N
<1>7. s \in Seq(Frame) /\ Size(s) = N
  BY <1>1, <1>3
<1>8. Range(s) = Frame
  BY <1>3, <1>6, Zenon DEF Surjection, Range
<1> QED BY <1>7, <1>8, Zenon DEF s, N

LEMMA UmemInitInv == UmemInit => UmemInv
<1> SUFFICES ASSUME UmemInit PROVE UmemInv
  OBVIOUS
<1>1. fill \in Seq(Frame) /\ Size(fill) = Cardinality(Frame) /\ Range(fill) = Frame
  BY SeededFill DEF UmemInit
<1>2. Cardinality(Frame) \in Nat
  BY FS_CardinalityType, UmemAssumption
<1>3. \A s \in {rx, tx, comp, batch, tx_batch, recycle_batch, pending_fill} :
        s \in Seq(Frame) /\ Size(s) = 0 /\ Range(s) = {}
  <2> SUFFICES ASSUME NEW s \in {rx, tx, comp, batch, tx_batch, recycle_batch, pending_fill}
               PROVE  s \in Seq(Frame) /\ Size(s) = 0 /\ Range(s) = {}
    OBVIOUS
  <2>1. s = << >>
    BY Zenon DEF UmemInit
  <2>2. s \in Seq(Frame) /\ Size(s) = 0
    BY <2>1 DEF Size
  <2> QED BY <2>2, EmptyHoldsNothing, Zenon
<1>4. Total = Cardinality(Frame) /\ Held = Frame
  BY <1>1, <1>2, <1>3 DEF Total, Held
<1> QED BY <1>1, <1>3, <1>4, Zenon DEF UmemInit, UmemInv, UmemTypes

LEMMA Lengths ==
  ASSUME UmemInv
  PROVE  /\ Size(fill) \in Nat /\ Size(rx) \in Nat /\ Size(tx) \in Nat /\ Size(comp) \in Nat
         /\ Size(batch) \in Nat /\ Size(tx_batch) \in Nat /\ Size(recycle_batch) \in Nat
         /\ Size(pending_fill) \in Nat
BY DEF UmemInv, UmemTypes, Size

\* A sum of the places bounds any two of them.
LEMMA Room ==
  ASSUME UmemInv, ~Gone
  PROVE  Total <= RING_SIZE
<1>1. Cardinality(Frame) \in Nat /\ Cardinality(Frame) <= RING_SIZE
  BY FS_CardinalityType, UmemAssumption, Zenon
<1> QED BY <1>1 DEF UmemInv

\* A batch s handed to a ring: what the ring takes is at its end, the rest is pending.
IsHanded(ring, s, ring2, pending2) ==
  /\ ring2 \in Seq(Frame) /\ pending2 \in Seq(Frame)
  /\ Size(ring2) + Size(pending2) = Size(ring) + Size(pending_fill) + Size(s)
  /\ Range(ring2) \cup Range(pending2) = Range(ring) \cup Range(pending_fill) \cup Range(s)
  /\ flavour = "adopted" => pending2 = << >>

LEMMA Handed ==
  ASSUME UmemTypes, NEW ring \in Seq(Frame), NEW size \in Nat, NEW s \in Seq(Frame),
         flavour = "adopted" => Size(ring) + Size(s) <= size /\ pending_fill = << >>,
         NEW n, n = Accepted(ring, size, s)
  PROVE  IsHanded(ring, s, ring \o Prefix(s, n), pending_fill \o Rest(s, n))
<1> DEFINE p == Prefix(s, n)
           r == Rest(s, n)
<1>1. n \in 0..Size(s) /\ (flavour = "adopted" => n = Size(s))
  BY AcceptedSome
<1>2. /\ p \in Seq(Frame) /\ Size(p) = n /\ r \in Seq(Frame) /\ Size(r) = Size(s) - n
      /\ Range(p) \cup Range(r) = Range(s)
  BY <1>1, SplitSeq, Zenon
<1> HIDE DEF p, r
<1>3. /\ ring \o p \in Seq(Frame) /\ Size(ring \o p) = Size(ring) + Size(p)
      /\ Range(ring \o p) = Range(ring) \cup Range(p)
  BY <1>2, ConcatSeq, Zenon
<1>4. /\ pending_fill \in Seq(Frame)
      /\ pending_fill \o r \in Seq(Frame)
      /\ Size(pending_fill \o r) = Size(pending_fill) + Size(r)
      /\ Range(pending_fill \o r) = Range(pending_fill) \cup Range(r)
  BY <1>2, ConcatSeq, Zenon DEF UmemTypes
<1>5. Size(ring) \in Nat /\ Size(pending_fill) \in Nat /\ Size(s) \in Nat
  BY <1>4 DEF Size
<1>6. flavour = "adopted" => pending_fill \o r = << >>
  BY <1>1, <1>2, <1>4, <1>5 DEF Size
<1>7. Size(ring \o p) + Size(pending_fill \o r) = Size(ring) + Size(pending_fill) + Size(s)
  BY <1>1, <1>2, <1>3, <1>4, <1>5, SMTT(20)
<1>8. Range(ring \o p) \cup Range(pending_fill \o r)
      = Range(ring) \cup Range(pending_fill) \cup Range(s)
  BY <1>2, <1>3, <1>4, Zenon
<1>9. IsHanded(ring, s, ring \o p, pending_fill \o r)
  BY <1>3, <1>4, <1>6, <1>7, <1>8, Zenon DEF IsHanded
<1> QED BY <1>9, Zenon DEF p, r
\* What is left to show of a step that moves frames between places of the same worker.
LEMMA Moved ==
  ASSUME UmemInv, ~Gone, UmemTypes', Total' = Total, Held' = Held,
         (loop # "sort" => batch = << >>)', (flavour = "adopted" => pending_fill = << >>)'
  PROVE  UmemInv'
BY DEF UmemInv

LEMMA RefillInv ==
  ASSUME UmemInv, RefillPending
  PROVE  UmemInv'
<1> DEFINE n == Accepted(fill, RING_SIZE, pending_fill)
           p == Prefix(pending_fill, n)
           r == Rest(pending_fill, n)
<1>1. ~Gone /\ UmemTypes
  BY DEF RefillPending, Gone, UmemInv
<1>2. n \in 0..Size(pending_fill) /\ (flavour = "adopted" => n = Size(pending_fill))
  <2>1. flavour = "adopted" => Size(fill) + Size(pending_fill) <= RING_SIZE
    BY <1>1, Room, Lengths, UmemAssumption DEF Total
  <2> QED BY <1>1, <2>1, AcceptedSome, UmemAssumption, Zenon DEF UmemTypes
<1>3. fill' = fill \o p /\ pending_fill' = r /\ loop' = "complete"
      /\ UNCHANGED <<flavour, rx, tx, comp, batch, tx_batch, recycle_batch, shutdown>>
  BY Zenon DEF RefillPending
<1> HIDE DEF n
<1>4. /\ p \in Seq(Frame) /\ Size(p) = n /\ r \in Seq(Frame) /\ Size(r) = Size(pending_fill) - n
      /\ Range(p) \cup Range(r) = Range(pending_fill)
  BY <1>1, <1>2, SplitSeq, Zenon DEF UmemTypes
<1> HIDE DEF p, r
<1>5. /\ fill' \in Seq(Frame) /\ Size(fill') = Size(fill) + n
      /\ Range(fill') = Range(fill) \cup Range(p)
  BY <1>1, <1>3, <1>4, ConcatSeq, Zenon DEF UmemTypes
<1>6. Total' = Total
  <2>1. Size(fill') = Size(fill) + n /\ Size(pending_fill') = Size(pending_fill) - n /\ n \in Int
    BY <1>2, <1>3, <1>4, <1>5
  <2>2. UNCHANGED <<Size(rx), Size(tx), Size(comp), Size(batch), Size(tx_batch), Size(recycle_batch)>>
    BY <1>3, Zenon
  <2> QED BY <2>1, <2>2, Lengths DEF Total
<1>7. Held' = Held
  BY <1>3, <1>4, <1>5, Zenon DEF Held
<1>8. UmemTypes'
  BY <1>1, <1>3, <1>4, <1>5, Zenon DEF UmemTypes
<1>9. batch' = << >> /\ (flavour' = "adopted" => pending_fill' = << >>)
  <2>1. flavour = "adopted" => Size(r) = 0
    BY <1>1, <1>2, <1>4, Lengths
  <2>2. flavour = "adopted" => r = << >>
    BY <1>4, <2>1 DEF Size
  <2> QED BY <1>3, <2>2, Zenon DEF UmemInv, RefillPending
<1> QED BY <1>1, <1>6, <1>7, <1>8, <1>9, Moved, Zenon

\* complete: the completions of one call, to the fill ring or pending.
LEMMA CompleteInv ==
  ASSUME UmemInv, Complete
  PROVE  UmemInv'
<1> DEFINE k == Min2(Size(comp), BATCH_SIZE)
           done == Prefix(comp, k)
           rest == Rest(comp, k)
           n == Accepted(fill, RING_SIZE, done)
<1>1. ~Gone /\ UmemTypes
  BY Zenon DEF Complete, Gone, UmemInv
<1>2. /\ comp' = rest /\ fill' = fill \o Prefix(done, n)
      /\ pending_fill' = pending_fill \o Rest(done, n) /\ loop' = "poll"
      /\ UNCHANGED <<flavour, rx, tx, batch, tx_batch, recycle_batch, shutdown>>
  BY Zenon DEF Complete, Size
<1>3. k \in 0..Size(comp)
  BY <1>1, MinOfLengths, Zenon DEF UmemTypes
<1> HIDE DEF k
<1>4. /\ done \in Seq(Frame) /\ Size(done) = k /\ rest \in Seq(Frame) /\ Size(rest) = Size(comp) - k
      /\ Range(done) \cup Range(rest) = Range(comp)
  BY <1>1, <1>3, SplitSeq, Zenon DEF UmemTypes
<1> HIDE DEF done, rest, n
<1>5. flavour = "adopted" => Size(fill) + Size(done) <= RING_SIZE /\ pending_fill = << >>
  <2>1. Size(done) \in 0..Size(comp) /\ Total <= RING_SIZE /\ RING_SIZE \in Nat
    BY <1>1, <1>3, <1>4, Room, UmemAssumption
  <2>2. Size(fill) + Size(done) <= RING_SIZE
    BY <2>1, Lengths DEF Total
  <2> QED BY <2>2 DEF UmemInv
<1>6. IsHanded(fill, done, fill', pending_fill')
  <2>1. fill \in Seq(Frame) /\ RING_SIZE \in Nat
    BY <1>1, UmemAssumption, Zenon DEF UmemTypes
  <2>2. IsHanded(fill, done, fill \o Prefix(done, n), pending_fill \o Rest(done, n))
    BY <1>1, <1>4, <1>5, <2>1, Handed, Zenon DEF n
  <2> QED BY <1>2, <2>2, Zenon
<1>7. Total' = Total
  <2>1. Size(fill') \in Nat /\ Size(pending_fill') \in Nat
        /\ Size(fill') + Size(pending_fill') = Size(fill) + Size(pending_fill) + k
    BY <1>4, <1>6 DEF IsHanded, Size
  <2>2. Size(comp') = Size(comp) - k /\ k \in Int
    BY <1>2, <1>3, <1>4
  <2>3. UNCHANGED <<Size(rx), Size(tx), Size(batch), Size(tx_batch), Size(recycle_batch)>>
    BY <1>2, Zenon
  <2> QED BY <2>1, <2>2, <2>3, Lengths DEF Total
<1>8. Held' = Held
  BY <1>2, <1>4, <1>6, Zenon DEF Held, IsHanded
<1>9. UmemTypes'
  BY <1>1, <1>2, <1>4, <1>6, Zenon DEF UmemTypes, IsHanded
<1>10. batch' = << >> /\ (flavour' = "adopted" => pending_fill' = << >>)
  BY <1>2, <1>6, Zenon DEF UmemInv, Complete, IsHanded
<1> QED BY <1>1, <1>7, <1>8, <1>9, <1>10, Moved, Zenon
\* transmit, and after it refill: a batch goes to a ring whole, or what is left is pending.
LEMMA TransmitInv ==
  ASSUME UmemInv, Transmit
  PROVE  UmemInv'
<1> DEFINE n == Accepted(tx, TxSize, tx_batch)
<1>1. ~Gone /\ UmemTypes
  BY Zenon DEF Transmit, Gone, UmemInv
<1>2. /\ tx' = tx \o Prefix(tx_batch, n) /\ pending_fill' = pending_fill \o Rest(tx_batch, n)
      /\ tx_batch' = << >> /\ batch = << >> /\ loop' = "recycle"
      /\ UNCHANGED <<flavour, fill, rx, comp, batch, recycle_batch, shutdown>>
  BY Zenon DEF Transmit
<1>3. /\ TxSize \in Nat
      /\ flavour = "adopted" => Size(tx) + Size(tx_batch) <= TxSize /\ pending_fill = << >>
  BY <1>1, Room, Lengths, UmemAssumption, SMTT(20) DEF Total, UmemInv, TxSize
<1> HIDE DEF n
<1>4. IsHanded(tx, tx_batch, tx', pending_fill')
  <2>1. IsHanded(tx, tx_batch, tx \o Prefix(tx_batch, n), pending_fill \o Rest(tx_batch, n))
    BY <1>1, <1>3, Handed, Zenon DEF n, UmemTypes
  <2> QED BY <1>2, <2>1, Zenon
<1>5. tx_batch' \in Seq(Frame) /\ Size(tx_batch') = 0 /\ Range(tx_batch') = {}
  <2>1. tx_batch' \in Seq(Frame) /\ Size(tx_batch') = 0
    BY <1>2 DEF Size
  <2> QED BY <2>1, EmptyHoldsNothing, Zenon
<1>6. Total' = Total
  <2>1. Size(tx') \in Nat /\ Size(pending_fill') \in Nat
        /\ Size(tx') + Size(pending_fill') = Size(tx) + Size(pending_fill) + Size(tx_batch)
    BY <1>4 DEF IsHanded, Size
  <2>2. UNCHANGED <<Size(fill), Size(rx), Size(comp), Size(batch), Size(recycle_batch)>>
    BY <1>2, Zenon
  <2>3. Size(tx_batch') = 0
    BY <1>5, Zenon
  <2> QED BY <2>1, <2>2, <2>3, Lengths DEF Total
<1>7. Held' = Held
  BY <1>2, <1>4, <1>5, Zenon DEF Held, IsHanded
<1>8. UmemTypes'
  BY <1>1, <1>2, <1>4, <1>5, Zenon DEF UmemTypes, IsHanded
<1>9. batch' = << >> /\ (flavour' = "adopted" => pending_fill' = << >>)
  BY <1>2, <1>4, Zenon DEF IsHanded
<1> QED BY <1>1, <1>6, <1>7, <1>8, <1>9, Moved, Zenon

LEMMA RecycleInv ==
  ASSUME UmemInv, Recycle
  PROVE  UmemInv'
<1> DEFINE n == Accepted(fill, RING_SIZE, recycle_batch)
<1>1. ~Gone /\ UmemTypes
  BY Zenon DEF Recycle, Gone, UmemInv
<1>2. /\ fill' = fill \o Prefix(recycle_batch, n)
      /\ pending_fill' = pending_fill \o Rest(recycle_batch, n)
      /\ recycle_batch' = << >> /\ batch = << >> /\ loop' = "top"
      /\ UNCHANGED <<flavour, tx, rx, comp, batch, tx_batch, shutdown>>
  BY Zenon DEF Recycle, UmemInv
<1>3. flavour = "adopted" => Size(fill) + Size(recycle_batch) <= RING_SIZE /\ pending_fill = << >>
  BY <1>1, Room, Lengths, UmemAssumption, SMTT(20) DEF Total, UmemInv
<1> HIDE DEF n
<1>4. IsHanded(fill, recycle_batch, fill', pending_fill')
  <2>1. IsHanded(fill, recycle_batch, fill \o Prefix(recycle_batch, n),
                 pending_fill \o Rest(recycle_batch, n))
    BY <1>1, <1>3, Handed, UmemAssumption, Zenon DEF n, UmemTypes
  <2> QED BY <1>2, <2>1, Zenon
<1>5. recycle_batch' \in Seq(Frame) /\ Size(recycle_batch') = 0 /\ Range(recycle_batch') = {}
  <2>1. recycle_batch' \in Seq(Frame) /\ Size(recycle_batch') = 0
    BY <1>2 DEF Size
  <2> QED BY <2>1, EmptyHoldsNothing
<1>6. Total' = Total
  <2>1. Size(fill') \in Nat /\ Size(pending_fill') \in Nat
        /\ Size(fill') + Size(pending_fill') = Size(fill) + Size(pending_fill) + Size(recycle_batch)
    BY <1>4 DEF IsHanded, Size
  <2>2. UNCHANGED <<Size(tx), Size(rx), Size(comp), Size(batch), Size(tx_batch)>>
    BY <1>2, Zenon
  <2>3. Size(recycle_batch') = 0
    BY <1>5
  <2> QED BY <2>1, <2>2, <2>3, Lengths DEF Total
<1>7. Held' = Held
  BY <1>2, <1>4, <1>5, Zenon DEF Held, IsHanded
<1>8. UmemTypes'
  BY <1>1, <1>2, <1>4, <1>5, Zenon DEF UmemTypes, IsHanded
<1>9. batch' = << >> /\ (flavour' = "adopted" => pending_fill' = << >>)
  BY <1>2, <1>4, Zenon DEF IsHanded
<1> QED BY <1>1, <1>6, <1>7, <1>8, <1>9, Moved, Zenon

\* poll_recv fills an empty batch.
LEMMA PollInv ==
  ASSUME UmemInv, PollRecv
  PROVE  UmemInv'
<1> DEFINE n == Min2(Size(rx), BATCH_SIZE)
<1>1. ~Gone /\ UmemTypes /\ batch = << >>
  BY DEF PollRecv, Gone, UmemInv
<1>2. /\ batch' = Prefix(rx, n) /\ rx' = Rest(rx, n) /\ loop' = "sort"
      /\ UNCHANGED <<flavour, fill, tx, comp, tx_batch, recycle_batch, pending_fill, shutdown>>
  BY Zenon DEF PollRecv, Size
<1>3. n \in 0..Size(rx)
  BY <1>1, MinOfLengths, Zenon DEF UmemTypes
<1> HIDE DEF n
<1>4. /\ batch' \in Seq(Frame) /\ Size(batch') = n /\ rx' \in Seq(Frame) /\ Size(rx') = Size(rx) - n
      /\ Range(batch') \cup Range(rx') = Range(rx)
  <2>1. /\ Prefix(rx, n) \in Seq(Frame) /\ Size(Prefix(rx, n)) = n
        /\ Rest(rx, n) \in Seq(Frame) /\ Size(Rest(rx, n)) = Size(rx) - n
        /\ Range(Prefix(rx, n)) \cup Range(Rest(rx, n)) = Range(rx)
    BY <1>1, <1>3, SplitSeq, Zenon DEF UmemTypes
  <2> QED BY <1>2, <2>1, Zenon
<1>5. Size(batch) = 0 /\ Range(batch) = {}
  <2>1. batch \in Seq(Frame) /\ Size(batch) = 0
    BY <1>1 DEF Size
  <2> QED BY <2>1, EmptyHoldsNothing, Zenon
<1>6. Total' = Total
  <2>1. UNCHANGED <<Size(fill), Size(tx), Size(comp), Size(tx_batch), Size(recycle_batch), Size(pending_fill)>>
    BY <1>2
  <2>2. n \in Int
    BY <1>3
  <2>3. Size(batch') = n /\ Size(rx') = Size(rx) - n /\ Size(batch) = 0
    BY <1>4, <1>5, Zenon
  <2> QED BY <2>1, <2>2, <2>3, Lengths DEF Total
<1>7. Held' = Held
  BY <1>2, <1>4, <1>5, Zenon DEF Held
<1>8. UmemTypes'
  BY <1>1, <1>2, <1>4, Zenon DEF UmemTypes
<1> QED BY <1>1, <1>2, <1>6, <1>7, <1>8, Moved, Zenon DEF UmemInv
\* One frame from the front of a place to the end of another.
LEMMA OneMoves ==
  ASSUME NEW s \in Seq(Frame), s # << >>, NEW t \in Seq(Frame)
  PROVE  /\ Tail(s) \in Seq(Frame) /\ Append(t, Head(s)) \in Seq(Frame)
         /\ Size(Tail(s)) \in Nat /\ Size(Append(t, Head(s))) \in Nat
         /\ Size(Tail(s)) + Size(Append(t, Head(s))) = Size(s) + Size(t)
         /\ Range(Tail(s)) \cup Range(Append(t, Head(s))) = Range(s) \cup Range(t)
<1>1. /\ Head(s) \in Frame /\ Tail(s) \in Seq(Frame) /\ Size(Tail(s)) = Size(s) - 1
      /\ Size(s) \in Nat /\ Range(Tail(s)) \cup {Head(s)} = Range(s)
  BY HeadTailSeq, Zenon
<1> DEFINE f == Head(s)
           r == Tail(s)
           a == Append(t, f)
<1>2. a \in Seq(Frame) /\ Size(a) = Size(t) + 1 /\ Range(a) = Range(t) \cup {f}
  BY <1>1, AppendSeq, Zenon
<1>3. Size(t) \in Nat /\ Size(r) \in Nat
  BY <1>1 DEF Size
<1> HIDE DEF f, r, a
<1>4. f \in Frame /\ r \in Seq(Frame) /\ Size(r) = Size(s) - 1 /\ Range(r) \cup {f} = Range(s)
  BY <1>1 DEF f, r
<1>5. Size(r) + Size(a) = Size(s) + Size(t) /\ Size(a) \in Nat
  <2>1. Size(a) = Size(t) + 1 /\ Size(r) = Size(s) - 1 /\ Size(s) \in Nat /\ Size(t) \in Nat
    BY <1>1, <1>2, <1>3, <1>4, Zenon
  <2> QED BY <2>1
<1>6. Range(r) \cup Range(a) = Range(s) \cup Range(t)
  <2>1. Range(a) = Range(t) \cup {f} /\ Range(s) = Range(r) \cup {f}
    BY <1>2, <1>4, Zenon
  <2> QED BY <2>1
<1> QED BY <1>2, <1>3, <1>4, <1>5, <1>6, Zenon DEF f, r, a

LEMMA SortInv ==
  ASSUME UmemInv, Sort
  PROVE  UmemInv'
<1>1. ~Gone /\ UmemTypes /\ batch # << >>
  BY Zenon DEF Sort, Gone, UmemInv
<1>2. /\ batch' = Tail(batch)
      /\ UNCHANGED <<flavour, fill, rx, tx, comp, loop, pending_fill, shutdown>> /\ loop = "sort"
  BY Zenon DEF Sort, rings
<1>3. UNCHANGED <<Size(fill), Size(rx), Size(tx), Size(comp), Size(pending_fill)>>
  BY <1>2
<1>4. CASE tx_batch' = Append(tx_batch, Head(batch)) /\ recycle_batch' = recycle_batch
  <2>1. /\ batch' \in Seq(Frame) /\ tx_batch' \in Seq(Frame)
        /\ Size(batch') \in Nat /\ Size(tx_batch') \in Nat
        /\ Size(batch') + Size(tx_batch') = Size(batch) + Size(tx_batch)
        /\ Range(batch') \cup Range(tx_batch') = Range(batch) \cup Range(tx_batch)
    BY <1>1, <1>2, <1>4, OneMoves, Zenon DEF UmemTypes
  <2>2. Total' = Total
    <3>1. /\ Size(batch') \in Nat /\ Size(tx_batch') \in Nat /\ Size(recycle_batch') = Size(recycle_batch)
          /\ Size(batch') + Size(tx_batch') = Size(batch) + Size(tx_batch)
      BY <1>4, <2>1, Zenon
    <3> QED BY <1>3, <3>1, Lengths DEF Total
  <2>3. Held' = Held
    BY <1>2, <1>4, <2>1, Zenon DEF Held
  <2>4. UmemTypes'
    BY <1>1, <1>2, <1>4, <2>1, Zenon DEF UmemTypes
  <2> QED BY <1>1, <1>2, <2>2, <2>3, <2>4, Moved, Zenon DEF UmemInv
<1>5. CASE recycle_batch' = Append(recycle_batch, Head(batch)) /\ tx_batch' = tx_batch
  <2>1. /\ batch' \in Seq(Frame) /\ recycle_batch' \in Seq(Frame)
        /\ Size(batch') \in Nat /\ Size(recycle_batch') \in Nat
        /\ Size(batch') + Size(recycle_batch') = Size(batch) + Size(recycle_batch)
        /\ Range(batch') \cup Range(recycle_batch') = Range(batch) \cup Range(recycle_batch)
    BY <1>1, <1>2, <1>5, OneMoves, Zenon DEF UmemTypes
  <2>2. Total' = Total
    <3>1. /\ Size(batch') \in Nat /\ Size(recycle_batch') \in Nat /\ Size(tx_batch') = Size(tx_batch)
          /\ Size(batch') + Size(recycle_batch') = Size(batch) + Size(recycle_batch)
      BY <1>5, <2>1, Zenon
    <3> QED BY <1>3, <3>1, Lengths DEF Total
  <2>3. Held' = Held
    BY <1>2, <1>5, <2>1, Zenon DEF Held
  <2>4. UmemTypes'
    BY <1>1, <1>2, <1>5, <2>1, Zenon DEF UmemTypes
  <2> QED BY <1>1, <1>2, <2>2, <2>3, <2>4, Moved, Zenon DEF UmemInv
<1> QED BY <1>4, <1>5, Zenon DEF Sort

\* The kernel moves frames also after the worker is gone.
LEMMA ReceiveInv ==
  ASSUME UmemInv, Receive
  PROVE  UmemInv'
<1>1. UmemTypes /\ fill # << >> /\ rx' = Append(rx, Head(fill)) /\ fill' = Tail(fill)
      /\ UNCHANGED <<flavour, tx, comp, loop, batch, tx_batch, recycle_batch, pending_fill, shutdown>>
  BY Zenon DEF Receive, UmemInv
<1>2. /\ fill' \in Seq(Frame) /\ rx' \in Seq(Frame) /\ Size(fill') \in Nat /\ Size(rx') \in Nat
      /\ Size(fill') + Size(rx') = Size(fill) + Size(rx)
      /\ Range(fill') \cup Range(rx') = Range(fill) \cup Range(rx)
  BY <1>1, OneMoves, Zenon DEF UmemTypes
<1>3. UmemTypes'
  BY <1>1, <1>2, Zenon DEF UmemTypes
<1>4. CASE Gone
  BY <1>1, <1>3, <1>4 DEF UmemInv, Gone
<1>5. CASE ~Gone
  <2>1. UNCHANGED <<Size(tx), Size(comp), Size(batch), Size(tx_batch), Size(recycle_batch), Size(pending_fill)>>
    BY <1>1, Zenon
  <2>2. Total' = Total
    <3>1. /\ Size(fill') \in Nat /\ Size(rx') \in Nat
          /\ Size(fill') + Size(rx') = Size(fill) + Size(rx)
      BY <1>2, Zenon
    <3> QED BY <2>1, <3>1, Lengths, Zenon DEF Total
  <2>3. Held' = Held
    BY <1>1, <1>2, Zenon DEF Held
  <2> QED BY <1>1, <1>3, <1>5, <2>2, <2>3, Moved, Zenon DEF UmemInv
<1> QED BY <1>4, <1>5, Zenon

LEMMA SendInv ==
  ASSUME UmemInv, Send
  PROVE  UmemInv'
<1>1. UmemTypes /\ tx # << >> /\ comp' = Append(comp, Head(tx)) /\ tx' = Tail(tx)
      /\ UNCHANGED <<flavour, fill, rx, loop, batch, tx_batch, recycle_batch, pending_fill, shutdown>>
  BY DEF Send, UmemInv
<1>2. /\ tx' \in Seq(Frame) /\ comp' \in Seq(Frame) /\ Size(tx') \in Nat /\ Size(comp') \in Nat
      /\ Size(tx') + Size(comp') = Size(tx) + Size(comp)
      /\ Range(tx') \cup Range(comp') = Range(tx) \cup Range(comp)
  BY <1>1, OneMoves, Zenon DEF UmemTypes
<1>3. UmemTypes'
  BY <1>1, <1>2, Zenon DEF UmemTypes
<1>4. CASE Gone
  BY <1>1, <1>3, <1>4, Zenon DEF UmemInv, Gone
<1>5. CASE ~Gone
  <2>1. UNCHANGED <<Size(fill), Size(rx), Size(batch), Size(tx_batch), Size(recycle_batch), Size(pending_fill)>>
    BY <1>1, Zenon
  <2>2. Total' = Total
    <3>1. /\ Size(tx') \in Nat /\ Size(comp') \in Nat
          /\ Size(tx') + Size(comp') = Size(tx) + Size(comp)
      BY <1>2, Zenon
    <3> QED BY <2>1, <3>1, Lengths DEF Total
  <2>3. Held' = Held
    BY <1>1, <1>2, Zenon DEF Held
  <2> QED BY <1>1, <1>3, <1>5, <2>2, <2>3, Moved, Zenon DEF UmemInv
<1> QED BY <1>4, <1>5

\* Steps that move no frame.  The loop of an XskSocket ends with whatever is pending; that
\* of an AdoptedSocket has nothing pending to drop.
LEMMA StillInv ==
  ASSUME UmemInv, UNCHANGED <<flavour, fill, rx, tx, comp, batch, tx_batch, recycle_batch>>,
         pending_fill' = << >> \/ pending_fill' = pending_fill,
         Gone' \/ (pending_fill' = pending_fill /\ ~Gone),
         loop' \in {"top", "complete", "poll", "sort", "recycle", "exited"}, shutdown' \in BOOLEAN,
         loop' = loop \/ batch = << >>
  PROVE  UmemInv'
<1>1. UmemTypes'
  <2>1. pending_fill' \in Seq(Frame)
    <3>1. pending_fill \in Seq(Frame) /\ << >> \in Seq(Frame)
      BY DEF UmemInv, UmemTypes
    <3> QED BY <3>1, Zenon
  <2> QED BY <2>1, Zenon DEF UmemInv, UmemTypes
<1>2. (loop # "sort" => batch = << >>)' /\ (flavour = "adopted" => pending_fill = << >>)'
  BY Zenon DEF UmemInv
<1>3. CASE Gone'
  BY <1>1, <1>2, <1>3, Zenon DEF UmemInv
<1>4. CASE pending_fill' = pending_fill /\ ~Gone
  <2>1. Total' = Total /\ Held' = Held
    BY <1>4, Zenon DEF Total, Held
  <2> QED BY <1>1, <1>2, <1>4, <2>1, Moved, Zenon
<1> QED BY <1>3, <1>4

LEMMA UmemNextInv == UmemInv /\ [UmemNext]_umemVars => UmemInv'
<1> SUFFICES ASSUME UmemInv, [UmemNext]_umemVars PROVE UmemInv'
  OBVIOUS
<1>1. UmemTypes /\ (loop # "sort" => batch = << >>) /\ (flavour = "adopted" => pending_fill = << >>)
  BY Zenon DEF UmemInv
<1>2. CASE PollNothing
  BY <1>1, <1>2, StillInv, Zenon DEF PollNothing, rings, Gone, UmemTypes
<1>3. CASE LoopEnds
  BY <1>1, <1>3, StillInv, Zenon DEF LoopEnds, rings, Gone, UmemTypes
<1>4. CASE Adopt
  BY <1>1, <1>4, StillInv, Zenon DEF Adopt, rings, Gone, UmemTypes
<1>5. CASE Shutdown
  BY <1>1, <1>5, StillInv, Zenon DEF Shutdown, rings, Gone, UmemTypes
<1>6. CASE UNCHANGED umemVars
  BY <1>1, <1>6, StillInv, Zenon DEF umemVars, Gone, UmemTypes
<1> HIDE DEF UmemInv
<1> QED BY <1>2, <1>3, <1>4, <1>5, <1>6, RefillInv, CompleteInv, PollInv, SortInv, TransmitInv,
           RecycleInv, ReceiveInv, SendInv, Zenon DEF UmemNext, WorkerLoop

\* The places end to end hold every frame in as many entries as there are frames.
LEMMA KeptIsConserved == UmemInv => FramesConserved
<1> SUFFICES ASSUME UmemInv, ~Gone PROVE IsInjective(AllFrames) /\ Range(AllFrames) = Frame
  BY Zenon DEF FramesConserved, Gone
<1> DEFINE s2 == fill \o rx
           s3 == s2 \o tx
           s4 == s3 \o comp
           s5 == s4 \o batch
           s6 == s5 \o tx_batch
           s7 == s6 \o recycle_batch
           s8 == s7 \o pending_fill
           N == Cardinality(Frame)
<1>1. UmemTypes
  BY Zenon DEF UmemInv
<1>2. s2 \in Seq(Frame) /\ Size(s2) = Size(fill) + Size(rx) /\ Range(s2) = Range(fill) \cup Range(rx)
  BY <1>1, ConcatSeq, Zenon DEF UmemTypes
<1> HIDE DEF s2
<1>3. s3 \in Seq(Frame) /\ Size(s3) = Size(s2) + Size(tx) /\ Range(s3) = Range(s2) \cup Range(tx)
  BY <1>1, <1>2, ConcatSeq, Zenon DEF UmemTypes
<1> HIDE DEF s3
<1>4. s4 \in Seq(Frame) /\ Size(s4) = Size(s3) + Size(comp) /\ Range(s4) = Range(s3) \cup Range(comp)
  BY <1>1, <1>3, ConcatSeq, Zenon DEF UmemTypes
<1> HIDE DEF s4
<1>5. s5 \in Seq(Frame) /\ Size(s5) = Size(s4) + Size(batch) /\ Range(s5) = Range(s4) \cup Range(batch)
  BY <1>1, <1>4, ConcatSeq, Zenon DEF UmemTypes
<1> HIDE DEF s5
<1>6. s6 \in Seq(Frame) /\ Size(s6) = Size(s5) + Size(tx_batch)
      /\ Range(s6) = Range(s5) \cup Range(tx_batch)
  BY <1>1, <1>5, ConcatSeq, Zenon DEF UmemTypes
<1> HIDE DEF s6
<1>7. s7 \in Seq(Frame) /\ Size(s7) = Size(s6) + Size(recycle_batch)
      /\ Range(s7) = Range(s6) \cup Range(recycle_batch)
  BY <1>1, <1>6, ConcatSeq, Zenon DEF UmemTypes
<1> HIDE DEF s7
<1>8. s8 \in Seq(Frame) /\ Size(s8) = Size(s7) + Size(pending_fill)
      /\ Range(s8) = Range(s7) \cup Range(pending_fill)
  BY <1>1, <1>7, ConcatSeq, Zenon DEF UmemTypes
<1> HIDE DEF s8
<1>9. AllFrames = s8
  BY DEF AllFrames, s2, s3, s4, s5, s6, s7, s8
<1>10. Total = N /\ Held = Frame
  BY Zenon DEF UmemInv
<1>11. Size(s8) = N
  BY <1>2, <1>3, <1>4, <1>5, <1>6, <1>7, <1>8, <1>10, Zenon DEF Total
<1>12. Range(s8) = Frame
  BY <1>2, <1>3, <1>4, <1>5, <1>6, <1>7, <1>8, <1>10, Zenon DEF Held
<1>13. N \in Nat
  BY FS_CardinalityType, UmemAssumption, Zenon
<1>14. IsFiniteSet(1..N) /\ Cardinality(1..N) = N
  BY <1>13, FS_Interval
<1>15. s8 \in [1..N -> Frame] /\ DOMAIN s8 = 1..N
  BY <1>8, <1>11 DEF Size
<1>16. s8 \in Surjection(1..N, Frame)
  BY <1>12, <1>15, Zenon DEF Surjection, Range
<1>17. s8 \in Injection(1..N, Frame)
  BY <1>14, <1>16, FS_SurjSameCardinalityImpliesInj, Zenon
<1> QED BY <1>9, <1>12, <1>17, Zenon DEF Injection

\* For any UMEM, ring sizes and batch size: every frame is in exactly one place, on every
\* path of worker_loop_generic, with both sockets' ways of producing, and across handoffs.
THEOREM FramesStayConserved == UmemSpec => []FramesConserved
BY UmemInitInv, UmemNextInv, KeptIsConserved, PTL DEF UmemSpec

=============================================================================
