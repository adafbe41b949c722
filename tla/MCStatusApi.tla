---------------------------- MODULE MCStatusApi ----------------------------
(* StatusApi for TLC: two workers, two counters that the readers sum, two   *)
(* connections for one handler, one of which asks for the counters.         *)
EXTENDS StatusApi

CONSTANTS c1, c2

Connections == {c1, c2}
Readers == {c1, MainLoop}
Counters == <<"rx_packets", "forwarded">>
Verdicts == {{"forwarded"}}
=============================================================================
