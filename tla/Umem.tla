-------------------------------- MODULE Umem --------------------------------
(***************************************************************************)
(* Where the UMEM frames of one worker are (worker_loop_generic of         *)
(* threading.rs, xsk.rs, xdp_adopt.rs): in one of the four rings, which    *)
(* Ring shows to be queues, in the worker's batch, or in pending_fill.     *)
(* The kernel's side moves frames from fill to rx and from tx to comp.     *)
(***************************************************************************)
EXTENDS Integers, Sequences, FiniteSets, Functions

CONSTANTS
  Frame,        \* the chunks of the UMEM
  RING_SIZE,    \* size of every ring but the tx ring of XskSocket
  TX_SIZE,      \* size of that one
  BATCH_SIZE

\* The rings, but that one, have an entry for every frame.
ASSUME UmemAssumption ==
  /\ IsFiniteSet(Frame) /\ RING_SIZE \in Nat /\ Cardinality(Frame) <= RING_SIZE
  /\ TX_SIZE \in Nat /\ BATCH_SIZE \in Nat \ {0}

VARIABLES
  flavour,              \* XskSocket ("xsk") or AdoptedSocket ("adopted"), for good
  fill, rx, tx, comp,   \* the rings
  loop,                   \* the worker's place in its loop
  batch,                \* rx_descs, not yet sorted
  tx_batch, recycle_batch, pending_fill,
  shutdown

rings == <<fill, rx, tx, comp>>
umemVars == <<flavour, fill, rx, tx, comp, loop, batch, tx_batch, recycle_batch, pending_fill, shutdown>>

Min2(a, b) == IF a <= b THEN a ELSE b
Prefix(s, n) == SubSeq(s, 1, n)
Rest(s, n) == SubSeq(s, n + 1, Len(s))

TxSize == IF flavour = "xsk" THEN TX_SIZE ELSE RING_SIZE

\* How many of the entries s a produce on a ring of this size enqueues: what fits
\* (AdoptedSocket), or all or nothing (xsk-rs).
Accepted(ring, size, s) ==
  LET free == size - Len(ring)
  IN  IF flavour = "adopted" THEN Min2(free, Len(s))
      ELSE IF Len(s) <= free THEN Len(s) ELSE 0

\* The frames in the order of their addresses.
InOrder == CHOOSE s \in [1..Cardinality(Frame) -> Frame] : IsInjective(s)

\* Cold boot: the fill ring is seeded with every frame.
UmemInit ==
  /\ flavour \in {"xsk", "adopted"}
  /\ fill = InOrder /\ rx = << >> /\ tx = << >> /\ comp = << >>
  /\ loop = "top"
  /\ batch = << >> /\ tx_batch = << >> /\ recycle_batch = << >> /\ pending_fill = << >>
  /\ shutdown = FALSE

-----------------------------------------------------------------------------
(* The worker                                                               *)

\* Retry what the fill ring did not take before.
RefillPending ==
  /\ loop = "top" /\ ~shutdown
  /\ LET n == Accepted(fill, RING_SIZE, pending_fill) IN
     /\ fill' = fill \o Prefix(pending_fill, n)
     /\ pending_fill' = Rest(pending_fill, n)
  /\ loop' = "complete"
  /\ UNCHANGED <<flavour, rx, tx, comp, batch, tx_batch, recycle_batch, shutdown>>

\* Mutant: completions are reaped in full batches only.
CompleteFullBatches ==
  /\ loop = "complete"
  /\ LET k == IF Len(comp) < BATCH_SIZE THEN 0 ELSE BATCH_SIZE
         done == Prefix(comp, k)
         n == Accepted(fill, RING_SIZE, done) IN
     /\ comp' = Rest(comp, k)
     /\ fill' = fill \o Prefix(done, n)
     /\ pending_fill' = pending_fill \o Rest(done, n)
  /\ loop' = "poll"
  /\ UNCHANGED <<flavour, rx, tx, batch, tx_batch, recycle_batch, shutdown>>

\* complete: TX completions go back to the fill ring.
Complete ==
  /\ loop = "complete"
  /\ LET k == Min2(Len(comp), BATCH_SIZE)
         done == Prefix(comp, k)
         n == Accepted(fill, RING_SIZE, done) IN
     /\ comp' = Rest(comp, k)
     /\ fill' = fill \o Prefix(done, n)
     /\ pending_fill' = pending_fill \o Rest(done, n)
  /\ loop' = "poll"
  /\ UNCHANGED <<flavour, rx, tx, batch, tx_batch, recycle_batch, shutdown>>

\* poll_recv returned nothing: a timeout, or a failed poll.
PollNothing ==
  /\ loop = "poll"
  /\ loop' = "top"
  /\ UNCHANGED <<flavour, rings, batch, tx_batch, recycle_batch, pending_fill, shutdown>>

PollRecv ==
  /\ loop = "poll" /\ rx # << >>
  /\ LET n == Min2(Len(rx), BATCH_SIZE) IN batch' = Prefix(rx, n) /\ rx' = Rest(rx, n)
  /\ loop' = "sort"
  /\ UNCHANGED <<flavour, fill, tx, comp, tx_batch, recycle_batch, pending_fill, shutdown>>

\* The verdict on the next packet: forward or reply, or drop.
Sort ==
  /\ loop = "sort" /\ batch # << >>
  /\ batch' = Tail(batch)
  /\ \/ tx_batch' = Append(tx_batch, Head(batch)) /\ recycle_batch' = recycle_batch
     \/ recycle_batch' = Append(recycle_batch, Head(batch)) /\ tx_batch' = tx_batch
  /\ UNCHANGED <<flavour, rings, loop, pending_fill, shutdown>>

\* Mutant: frames the tx ring refuses are not kept.
TransmitForgets ==
  /\ loop = "sort" /\ batch = << >>
  /\ LET n == Accepted(tx, TxSize, tx_batch) IN tx' = tx \o Prefix(tx_batch, n)
  /\ tx_batch' = << >> /\ loop' = "recycle"
  /\ UNCHANGED <<flavour, fill, rx, comp, batch, recycle_batch, pending_fill, shutdown>>

\* transmit: what the tx ring does not take is dropped and refilled later.
Transmit ==
  /\ loop = "sort" /\ batch = << >>
  /\ LET n == Accepted(tx, TxSize, tx_batch) IN
     /\ tx' = tx \o Prefix(tx_batch, n)
     /\ pending_fill' = pending_fill \o Rest(tx_batch, n)
  /\ tx_batch' = << >> /\ loop' = "recycle"
  /\ UNCHANGED <<flavour, fill, rx, comp, batch, recycle_batch, shutdown>>

Recycle ==
  /\ loop = "recycle"
  /\ LET n == Accepted(fill, RING_SIZE, recycle_batch) IN
     /\ fill' = fill \o Prefix(recycle_batch, n)
     /\ pending_fill' = pending_fill \o Rest(recycle_batch, n)
  /\ recycle_batch' = << >> /\ loop' = "top"
  /\ UNCHANGED <<flavour, rx, tx, comp, batch, tx_batch, shutdown>>

\* The loop ends; pending_fill is dropped with the worker's stack.
LoopEnds ==
  /\ loop = "top" /\ shutdown
  /\ pending_fill' = << >>
  /\ loop' = "exited"
  /\ UNCHANGED <<flavour, rings, batch, tx_batch, recycle_batch, shutdown>>

\* detach and adopt: the next process maps the same rings and starts its loop.
Adopt ==
  /\ loop = "exited" /\ flavour = "adopted"
  /\ loop' = "top" /\ shutdown' = FALSE
  /\ UNCHANGED <<flavour, rings, batch, tx_batch, recycle_batch, pending_fill>>

-----------------------------------------------------------------------------
(* The kernel and the main loop                                             *)

Receive ==
  /\ fill # << >> /\ Len(rx) < RING_SIZE
  /\ rx' = Append(rx, Head(fill)) /\ fill' = Tail(fill)
  /\ UNCHANGED <<flavour, tx, comp, loop, batch, tx_batch, recycle_batch, pending_fill, shutdown>>

Send ==
  /\ tx # << >> /\ Len(comp) < RING_SIZE
  /\ comp' = Append(comp, Head(tx)) /\ tx' = Tail(tx)
  /\ UNCHANGED <<flavour, fill, rx, loop, batch, tx_batch, recycle_batch, pending_fill, shutdown>>

Shutdown ==
  /\ ~shutdown
  /\ shutdown' = TRUE
  /\ UNCHANGED <<flavour, rings, loop, batch, tx_batch, recycle_batch, pending_fill>>

WorkerLoop == RefillPending \/ Complete \/ PollNothing \/ PollRecv \/ Sort \/ Transmit \/ Recycle

UmemNext == WorkerLoop \/ LoopEnds \/ Adopt \/ Receive \/ Send \/ Shutdown

UmemSpec == UmemInit /\ [][UmemNext]_umemVars

\* The worker spins, a poll on a ring with frames returns them again and again,
\* and the kernel sends what it was given.  Nothing says packets arrive.
UmemFairSpec == UmemSpec /\ WF_umemVars(WorkerLoop) /\ SF_umemVars(PollRecv) /\ WF_umemVars(Send)

-----------------------------------------------------------------------------
(* Properties                                                               *)

AllFrames == fill \o rx \o tx \o comp \o batch \o tx_batch \o recycle_batch \o pending_fill

\* Every frame is in exactly one place: none is handed to the kernel twice, and none
\* leaks, on every path of the loop and across a handoff.  (The frames of an XskSocket
\* end with its worker.)
FramesConserved ==
  \/ flavour = "xsk" /\ loop = "exited"
  \/ IsInjective(AllFrames) /\ Range(AllFrames) = Frame

\* A frame the worker was given comes back to the kernel's fill ring: none is
\* stranded in a ring, a batch or pending_fill while the loop runs.
FramesReturn ==
  \A f \in Frame : (f \notin Range(fill)) ~> (f \in Range(fill) \/ shutdown)
=============================================================================
