--------------------------- MODULE MCControlPlane ---------------------------
(***************************************************************************)
(* The control plane for TLC: the main loop of one daemon, and the daemons *)
(* of a host with their pid files and pesigitg-ctl.  The two share no      *)
(* state; a behaviour is one of the part it starts with, and the other     *)
(* keeps still.                                                            *)
(***************************************************************************)
EXTENDS MCControlLoop, Instances

VARIABLE part

\* Interface 1 has daemons started by hand, with and without the interface on the
\* command line, interface 2 one by systemd, which makes no pid file.
ByHand(named) == [iface |-> 1, named |-> named, systemd |-> FALSE]
SomeStarts ==
  {ByHand(TRUE), ByHand(FALSE), [iface |-> 2, named |-> FALSE, systemd |-> TRUE]}

planeVars == <<part, vars, hostVars>>

\* The part that keeps still starts in one of its initial states.
Still == up = {} /\ table = LoadedTable(TwoBackends, CHOOSE neigh \in NeighAnswers : TRUE)

PlaneInit ==
  /\ part \in {"loop", "host"}
  /\ Init /\ (part = "host" => Still)
  /\ HostInit

PlaneNext ==
  /\ part' = part
  /\ \/ part = "loop" /\ Next /\ UNCHANGED hostVars
     \/ part = "host" /\ HostNext /\ UNCHANGED vars

PlaneSpec == PlaneInit /\ [][PlaneNext]_planeVars
=============================================================================
