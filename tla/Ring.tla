-------------------------------- MODULE Ring --------------------------------
(***************************************************************************)
(* One AF_XDP ring (Ring<T>::produce and Ring<T>::consume of xdp_adopt.rs) *)
(* between its producer and its consumer, one of which is the kernel: free *)
(* running 32-bit indices, here WRAP values, over an array of SIZE entries.*)
(* Every load and store of an index and every access to an entry is a step *)
(* of its own.                                                             *)
(***************************************************************************)
EXTENDS Integers, Sequences

CONSTANTS
  Entry,       \* ring entries
  SIZE,        \* entries of the array, a power of two
  WRAP,        \* number of index values, 2^32 in the code
  MAX_BATCH    \* bound: entries of one call

ASSUME RingAssumption ==
  /\ SIZE \in Nat \ {0} /\ MAX_BATCH \in Nat
  /\ WRAP \in Nat /\ WRAP > SIZE /\ WRAP % SIZE = 0

VARIABLES
  producer, consumer, descs,     \* the shared mapping
  p_pc, entries, prod, n_prod, i_prod,   \* produce: locals
  c_pc, cons, n_cons, out,               \* consume: locals
  returned                          \* what the latest consume returned

produceVars == <<p_pc, entries, prod, n_prod, i_prod>>
consumeVars == <<c_pc, cons, n_cons, out, returned>>
ringVars == <<producer, consumer, descs, produceVars, consumeVars>>

Lesser(a, b) == IF a <= b THEN a ELSE b
wrapping_add(a, b) == (a + b) % WRAP
wrapping_sub(a, b) == (a - b + WRAP) % WRAP

\* Mutant: the mask of an array twice as large.
MaskTooWide(k) == Lesser(k % (2 * SIZE), SIZE - 1)

Mask(k) == k % SIZE

Entries == UNION {[1..n -> Entry] : n \in 0..MAX_BATCH}

RingInit ==
  /\ producer \in 0..WRAP - 1 /\ consumer = producer
  /\ descs \in {[k \in 0..SIZE - 1 |-> f] : f \in Entry}
  /\ p_pc = "idle" /\ entries = << >> /\ prod = 0 /\ n_prod = 0 /\ i_prod = 0
  /\ c_pc = "idle" /\ cons = 0 /\ n_cons = 0 /\ out = << >> /\ returned = << >>

-----------------------------------------------------------------------------
(* produce                                                                  *)

LoadProducer(s) ==
  /\ p_pc = "idle"
  /\ s # << >>
  /\ entries' = s
  /\ prod' = producer
  /\ p_pc' = "acquire"
  /\ UNCHANGED <<producer, consumer, descs, n_prod, i_prod, consumeVars>>

Free(c) == wrapping_sub(SIZE, wrapping_sub(prod, c))

AcquireConsumer ==
  /\ p_pc = "acquire"
  /\ n_prod' = Lesser(Free(consumer), Len(entries))
  /\ i_prod' = 0
  /\ p_pc' = "write"
  /\ UNCHANGED <<producer, consumer, descs, entries, prod, consumeVars>>

WriteEntry ==
  /\ p_pc = "write" /\ i_prod < n_prod
  /\ descs' = [descs EXCEPT ![Mask(wrapping_add(prod, i_prod))] = entries[i_prod + 1]]
  /\ i_prod' = i_prod + 1
  /\ UNCHANGED <<producer, consumer, p_pc, entries, prod, n_prod, consumeVars>>

ReleaseProducer ==
  /\ p_pc = "write" /\ i_prod = n_prod
  /\ producer' = wrapping_add(prod, n_prod)
  /\ p_pc' = "idle"
  /\ UNCHANGED <<consumer, descs, entries, prod, n_prod, i_prod, consumeVars>>

-----------------------------------------------------------------------------
(* consume, with room for m entries                                         *)

LoadIndices(m) ==
  /\ c_pc = "idle"
  /\ m > 0
  /\ cons' = consumer
  /\ n_cons' = Lesser(wrapping_sub(producer, consumer), m)
  /\ out' = << >>
  /\ c_pc' = "read"
  /\ UNCHANGED <<producer, consumer, descs, produceVars, returned>>

ReadEntry ==
  /\ c_pc = "read" /\ Len(out) < n_cons
  /\ out' = Append(out, descs[Mask(wrapping_add(cons, Len(out)))])
  /\ UNCHANGED <<producer, consumer, descs, produceVars, c_pc, cons, n_cons, returned>>

ReleaseConsumer ==
  /\ c_pc = "read" /\ Len(out) = n_cons
  /\ consumer' = wrapping_add(cons, n_cons)
  /\ returned' = out
  /\ c_pc' = "idle"
  /\ UNCHANGED <<producer, descs, produceVars, cons, n_cons, out>>

RingNext ==
  \/ \E s \in Entries : LoadProducer(s)
  \/ AcquireConsumer \/ WriteEntry \/ ReleaseProducer
  \/ \E m \in 0..MAX_BATCH : LoadIndices(m)
  \/ ReadEntry \/ ReleaseConsumer

RingSpec == RingInit /\ [][RingNext]_ringVars

-----------------------------------------------------------------------------
(* Properties                                                               *)

\* The queue the ring holds, oldest entry first.
Contents ==
  [k \in 1..wrapping_sub(producer, consumer) |-> descs[Mask(wrapping_add(consumer, k - 1))]]

Abstract == INSTANCE Fifo WITH queue <- Contents

\* The ring is a bounded FIFO, also across the wrap of its indices and with both
\* sides working from stale loads: an entry is delivered once, whole, in order.
RingIsFifo == Abstract!Spec
=============================================================================
