------------------------------ MODULE LoadRate ------------------------------
(***************************************************************************)
(* LoadRateTracker (retry/load.rs): the Initial rate the workers share     *)
(* through three relaxed atomics.  A worker samples the clock when its     *)
(* batch arrives, reads the rate per Initial, and flushes the batch's      *)
(* tally in record_batch; every atomic operation is a step of its own.     *)
(***************************************************************************)
EXTENDS Integers

CONSTANTS
  Caller,        \* the workers, which call record_batch
  MAX_SECOND,    \* bound: the clock stops here
  MAX_TALLY,     \* bound: Initials of one batch
  MAX_RECORDED   \* bound: no batch brings in more once this many are flushed

ASSUME LoadRateAssumption ==
  MAX_SECOND \in Nat \ {0} /\ MAX_TALLY \in Nat /\ MAX_RECORDED \in Nat

VARIABLES
  clock,         \* wall-clock second
  window_sec, window_count, last_rate,   \* the atomics
  step,            \* per worker: the next step of its batch
  now_sec,       \* per worker: the second its batch arrived in
  count,         \* per worker: the batch's tally
  cur,           \* per worker: window_sec as it was loaded
  prev,          \* per worker: what its swap took out of the window
  recorded,      \* history: Initials flushed so far
  flushed,       \* history: Initials flushed so far by the batches of each second
  taken,         \* history: Initials taken out of the window so far
  users,         \* history: workers that have had a batch
  rate_window    \* history: the window last_rate was counted in

batchVars == <<now_sec, count, cur, prev>>
historyVars == <<recorded, flushed, taken, users, rate_window>>
rateVars == <<clock, window_sec, window_count, last_rate, step, batchVars, historyVars>>

RateInit ==
  /\ clock = 1
  /\ window_sec = 0 /\ window_count = 0 /\ last_rate = 0
  /\ step = [w \in Caller |-> "poll"]
  /\ now_sec = [w \in Caller |-> 0]
  /\ count = [w \in Caller |-> 0]
  /\ cur = [w \in Caller |-> 0]
  /\ prev = [w \in Caller |-> 0]
  /\ recorded = 0 /\ flushed = [s \in 0..MAX_SECOND |-> 0]
  /\ taken = 0 /\ users = {} /\ rate_window = 0

Advance == clock < MAX_SECOND /\ clock' = clock + 1
           /\ UNCHANGED <<window_sec, window_count, last_rate, step, batchVars, historyVars>>

\* A batch with n counted Initials arrives and the clock is sampled.  An empty
\* poll goes round the loop without reaching the tracker.
BatchArrives(w, n) ==
  /\ step[w] = "poll"
  /\ recorded < MAX_RECORDED \/ n = 0
  /\ now_sec' = [now_sec EXCEPT ![w] = clock]
  /\ count' = [count EXCEPT ![w] = n]
  /\ step' = [step EXCEPT ![w] = "load"]
  /\ users' = users \cup {w}
  /\ UNCHANGED <<clock, window_sec, window_count, last_rate, cur, prev,
                 recorded, flushed, taken, rate_window>>

\* The reads of rate() while the batch is classified come before this step: the
\* load of window_sec and the comparison with it.
LoadWindow(w) ==
  /\ step[w] = "load"
  /\ cur' = [cur EXCEPT ![w] = window_sec]
  /\ step' = [step EXCEPT ![w] = IF now_sec[w] # window_sec THEN "cas" ELSE "add"]
  /\ UNCHANGED <<clock, window_sec, window_count, last_rate, now_sec, count, prev,
                 historyVars>>

CompareExchange(w) ==
  /\ step[w] = "cas"
  /\ IF window_sec = cur[w]
     THEN window_sec' = now_sec[w] /\ step' = [step EXCEPT ![w] = "swap"]
     ELSE window_sec' = window_sec /\ step' = [step EXCEPT ![w] = "add"]
  /\ UNCHANGED <<clock, window_count, last_rate, batchVars, historyVars>>

\* Mutant: the window is read but not emptied.
SwapKeeps(w) ==
  /\ step[w] = "swap"
  /\ prev' = [prev EXCEPT ![w] = window_count]
  /\ taken' = taken + window_count
  /\ step' = [step EXCEPT ![w] = "store"]
  /\ UNCHANGED <<clock, window_sec, window_count, last_rate, now_sec, count, cur,
                 recorded, flushed, users, rate_window>>

Swap(w) ==
  /\ step[w] = "swap"
  /\ prev' = [prev EXCEPT ![w] = window_count]
  /\ window_count' = 0
  /\ taken' = taken + window_count
  /\ step' = [step EXCEPT ![w] = "store"]
  /\ UNCHANGED <<clock, window_sec, last_rate, now_sec, count, cur, recorded, flushed,
                 users, rate_window>>

\* Mutant: the winner publishes its own batch's tally.
StoreTally(w) ==
  /\ step[w] = "store"
  /\ last_rate' = count[w]
  /\ rate_window' = cur[w]
  /\ step' = [step EXCEPT ![w] = "add"]
  /\ UNCHANGED <<clock, window_sec, window_count, batchVars, recorded, flushed, taken, users>>

StoreRate(w) ==
  /\ step[w] = "store"
  /\ last_rate' = prev[w]
  /\ rate_window' = cur[w]
  /\ step' = [step EXCEPT ![w] = "add"]
  /\ UNCHANGED <<clock, window_sec, window_count, batchVars, recorded, flushed, taken, users>>

FetchAdd(w) ==
  /\ step[w] = "add"
  /\ window_count' = window_count + count[w]
  /\ recorded' = recorded + count[w]
  /\ flushed' = [flushed EXCEPT ![now_sec[w]] = @ + count[w]]
  /\ step' = [step EXCEPT ![w] = "poll"]
  /\ UNCHANGED <<clock, window_sec, last_rate, batchVars, taken, users, rate_window>>

RateNext ==
  \/ Advance
  \/ \E w \in Caller :
       \/ \E n \in 0..MAX_TALLY : BatchArrives(w, n)
       \/ LoadWindow(w)
       \/ CompareExchange(w)
       \/ Swap(w)
       \/ StoreRate(w)
       \/ FetchAdd(w)

RateSpec == RateInit /\ [][RateNext]_rateVars

-----------------------------------------------------------------------------
(* Properties                                                               *)

Steps == {"poll", "load", "cas", "swap", "store", "add"}

\* Counters are naturals, samples are seconds the clock has shown, and every
\* worker is somewhere in its loop (retry/load.rs).
RateTypeOK ==
  /\ clock \in 1..MAX_SECOND /\ window_sec \in 0..clock
  /\ window_count \in Nat /\ last_rate \in Nat
  /\ step \in [Caller -> Steps]
  /\ now_sec \in [Caller -> 0..clock] /\ count \in [Caller -> 0..MAX_TALLY]
  /\ cur \in [Caller -> 0..clock] /\ prev \in [Caller -> Nat]
  /\ recorded \in Nat /\ flushed \in [0..MAX_SECOND -> Nat]
  /\ taken \in Nat /\ users \subseteq Caller /\ rate_window \in 0..clock

\* An Initial is neither lost nor counted twice, whoever wins the rotation and
\* whenever a straggler adds (what the bounds of concurrent_observers_are_counted
\* test): all that record_batch flushed is in the window or was taken out of it.
CountsConserved == recorded = window_count + taken

\* While only one worker has seen traffic, rate() is exactly the number of Initials of
\* the batches that arrived in the window it was counted in, whatever idle gaps lie
\* between them and wherever the worker is in record_batch.
RateIsExact ==
  \A w \in Caller : users \subseteq {w} => last_rate = flushed[rate_window]
=============================================================================
