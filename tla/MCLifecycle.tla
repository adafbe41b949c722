---------------------------- MODULE MCLifecycle ----------------------------
(* Small instances of Lifecycle for TLC. *)
EXTENDS Lifecycle

AnyStore == SUBSET (Queue \X {"sock", "umem"})
=============================================================================
