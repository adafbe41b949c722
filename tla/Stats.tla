-------------------------------- MODULE Stats --------------------------------
(***************************************************************************)
(* The traffic counters (stats.rs): every worker adds its batches to the   *)
(* atomics of its own slot, one counter after the other and each with a    *)
(* load and a store, while readers sum all slots counter by counter.       *)
(***************************************************************************)
EXTENDS Integers, Sequences, FiniteSetsExt, Functions

CONSTANTS
  NUM_WORKERS,
  Reader,
  COUNTERS,      \* the counters of a slot in the order flush and aggregate take them
  Verdict,       \* for each kind of packet, the counters it is recorded in
  WRAP,          \* values of an atomic (2^64)
  MAX_PACKETS    \* bound: packets each worker receives

Counter == Range(COUNTERS)
Worker == 1..NUM_WORKERS
rx_packets == Head(COUNTERS)

\* The packets of a daemon's life do not fill a 64-bit counter.
ASSUME StatsAssumption ==
  /\ NUM_WORKERS \in Nat \ {0} /\ MAX_PACKETS \in Nat
  /\ WRAP \in Nat /\ NUM_WORKERS * MAX_PACKETS < WRAP
  /\ COUNTERS \in Seq(Counter) /\ Len(COUNTERS) > 1 /\ IsInjective(COUNTERS)
  /\ \A v \in Verdict : v \subseteq Counter \ {rx_packets}

VARIABLES
  slots,      \* StatsTable: per slot and counter, the atomic
  pending,    \* per worker and counter: what its batch still has to add
  loaded,     \* per worker: the value `add` has loaded, -1 between two adds
  received,   \* per worker: packets so far
  recorded,   \* history: per counter, what batches were given to add
  place,      \* per reader: the atomic aggregate reads next
  total,      \* per reader: the Snapshot it builds
  low,        \* history: per reader, the Snapshot last finished when it started
  latest      \* history: the Snapshot last finished by any reader

workerVars == <<slots, pending, loaded, received, recorded>>
readerVars == <<place, total, low, latest>>
statsVars == <<workerVars, readerVars>>

Zero == [c \in Counter |-> 0]

\* aggregate goes from slot to slot, and in each from counter to counter.
First == [slot |-> 1, counter |-> 1]
Last == [slot |-> NUM_WORKERS, counter |-> Len(COUNTERS)]
Following(p) ==
  IF p.counter < Len(COUNTERS) THEN [slot |-> p.slot, counter |-> p.counter + 1]
  ELSE IF p.slot < NUM_WORKERS THEN [slot |-> p.slot + 1, counter |-> 1]
  ELSE First

StatsInit ==
  /\ slots = [s \in Worker |-> Zero]
  /\ pending = [w \in Worker |-> Zero] /\ loaded = [w \in Worker |-> -1]
  /\ received = [w \in Worker |-> 0] /\ recorded = Zero
  /\ place = [r \in Reader |-> First] /\ total = [r \in Reader |-> Zero]
  /\ low = [r \in Reader |-> Zero] /\ latest = Zero

\* The sum of f over the first n workers, and over all.
SumTo(f, n) ==
  LET upto[k \in 0..NUM_WORKERS] == IF k = 0 THEN 0 ELSE upto[k - 1] + f[k]
  IN  upto[n]
Sum(f) == SumTo(f, NUM_WORKERS)

\* Mutant: the slot is chosen by something that two workers share.
OneSlot(w) == 1

\* The slot is that of the worker's index.
slot(w) == w

-----------------------------------------------------------------------------
(* Workers                                                                  *)

\* record_rx, and record_* for every packet of a batch.
Adds(batch) ==
  [c \in Counter |-> IF c = rx_packets THEN Len(batch)
                    ELSE Cardinality({i \in DOMAIN batch : c \in batch[i]})]

\* Whatever poll_recv may return and the packets turn out to be.
Batches == UNION {[1..n -> Verdict] : n \in 1..MAX_PACKETS}

\* A batch is received and judged.
Batch(w, batch) ==
  /\ pending[w] = Zero
  /\ received[w] + Len(batch) <= MAX_PACKETS
  /\ received' = [received EXCEPT ![w] = @ + Len(batch)]
  /\ pending' = [pending EXCEPT ![w] = Adds(batch)]
  /\ recorded' = [c \in Counter |-> recorded[c] + Adds(batch)[c]]
  /\ UNCHANGED <<slots, loaded, readerVars>>

\* flush skips the counters that stayed zero.
NextAdd(w) == COUNTERS[Min({i \in DOMAIN COUNTERS : pending[w][COUNTERS[i]] > 0})]

\* add, a relaxed load ...
AddLoad(w) ==
  /\ pending[w] # Zero /\ loaded[w] = -1
  /\ loaded' = [loaded EXCEPT ![w] = slots[slot(w)][NextAdd(w)]]
  /\ UNCHANGED <<slots, pending, received, recorded, readerVars>>

\* ... and a relaxed store.
AddStore(w) ==
  /\ loaded[w] # -1
  /\ slots' = [slots EXCEPT ![slot(w)][NextAdd(w)] =
                (loaded[w] + pending[w][NextAdd(w)]) % WRAP]
  /\ pending' = [pending EXCEPT ![w][NextAdd(w)] = 0]
  /\ loaded' = [loaded EXCEPT ![w] = -1]
  /\ UNCHANGED <<received, recorded, readerVars>>

-----------------------------------------------------------------------------
(* aggregate                                                                *)

\* Mutant: a slot that is being written is skipped.
ReadUnlessBusy(r) ==
  LET p == place[r]
      before == IF p = First THEN Zero ELSE total[r]
      seen == IF loaded[p.slot] # -1 THEN 0 ELSE slots[p.slot][COUNTERS[p.counter]] IN
  /\ total' = [total EXCEPT ![r] = [before EXCEPT ![COUNTERS[p.counter]] = @ + seen]]
  /\ low' = IF p = First THEN [low EXCEPT ![r] = latest] ELSE low
  /\ place' = [place EXCEPT ![r] = Following(p)]
  /\ latest' = IF p = Last THEN total'[r] ELSE latest
  /\ UNCHANGED workerVars

\* The next atomic; the first read starts a Snapshot from zero and the last returns it.
Read(r) ==
  LET p == place[r]
      c == COUNTERS[p.counter]
      before == IF p = First THEN Zero ELSE total[r] IN
  /\ total' = [total EXCEPT ![r] = [before EXCEPT ![c] = (@ + slots[p.slot][c]) % WRAP]]
  /\ low' = IF p = First THEN [low EXCEPT ![r] = latest] ELSE low
  /\ place' = [place EXCEPT ![r] = Following(p)]
  /\ latest' = IF p = Last THEN total'[r] ELSE latest
  /\ UNCHANGED workerVars

\* wrapping_sub, counter by counter.
delta(new, prev) == [c \in Counter |-> (new[c] - prev[c]) % WRAP]

-----------------------------------------------------------------------------
(* Properties                                                               *)

\* No load+store of one worker undoes another's (WorkerStats: "safe because only one
\* thread writes to each slot"): what batches recorded is in the slots or still pending.
NothingLost ==
  \A c \in Counter :
    recorded[c] = Sum([w \in Worker |-> slots[w][c]]) + Sum([w \in Worker |-> pending[w][c]])

\* A reader sums atomics that move under it, yet a Snapshot never falls behind one that
\* was finished before it started: `delta` is a number of packets, not one near 2^64.
DeltasAreTraffic ==
  \A r \in Reader : place[r] = First =>
    \A c \in Counter : delta(total[r], low[r])[c] <= NUM_WORKERS * MAX_PACKETS

=============================================================================
