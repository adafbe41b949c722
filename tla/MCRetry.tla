------------------------------- MODULE MCRetry -------------------------------
(* Retry for TLC: two workers, two addresses, and reloads that change the   *)
(* key and the mode.                                                        *)
EXTENDS Retry

Section(mode, key, ports) ==
  [enabled |-> TRUE, mode |-> mode, token_key |-> key, token_lifetime |-> 1, ports |-> ports]

Sections ==
  {Section("always", "k1", {}), Section("load", "k2", {PORT})}
=============================================================================
