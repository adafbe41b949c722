-------------------------------- MODULE Fifo --------------------------------
(***************************************************************************)
(* What one AF_XDP ring promises its two sides: a bounded queue.  A call   *)
(* of the producer appends some prefix of its entries at once, a call of   *)
(* the consumer takes some prefix of the queue at once.                    *)
(***************************************************************************)
EXTENDS Integers, Sequences

CONSTANTS Entry, SIZE, MAX_BATCH

VARIABLES
  queue,   \* the entries produced and not yet consumed
  returned    \* what the latest consume returned

Entries == UNION {[1..n -> Entry] : n \in 0..MAX_BATCH}

Init == queue = << >> /\ returned = << >>

Enqueue(s) ==
  /\ Len(queue) + Len(s) <= SIZE
  /\ queue' = queue \o s
  /\ returned' = returned

Dequeue(n) ==
  /\ n <= Len(queue)
  /\ returned' = SubSeq(queue, 1, n)
  /\ queue' = SubSeq(queue, n + 1, Len(queue))

Next == (\E s \in Entries : Enqueue(s)) \/ (\E n \in 0..MAX_BATCH : Dequeue(n))

Spec == Init /\ [][Next]_<<queue, returned>>
=============================================================================
