----------------------------- MODULE MCDatapath -----------------------------
(* Datapath for TLC: two backends under two configurations, a client whose  *)
(* 4-tuple is rebound, and the connection IDs that tell the paths apart.    *)
EXTENDS Datapath, TLC

CONSTANTS a, b, w1, f1, f2, none

Slot(c, addr, draining, healthy) ==
  [config |-> c, address |-> addr, mac |-> TRUE, draining |-> draining,
   healthy |-> healthy, transitions |-> 0]

BothUp == <<Slot(0, a, FALSE, TRUE), Slot(1, b, FALSE, TRUE)>>
ADown == <<Slot(0, a, FALSE, FALSE), Slot(1, b, FALSE, TRUE)>>
OnlyADraining == <<Slot(0, a, TRUE, TRUE)>>
SomeTables == {BothUp, ADown, OnlyADraining}
FewTables == {BothUp, ADown}

Quic(f, long, id, c, server, octets) ==
  [flow |-> f, long |-> long, id |-> id, config |-> c, server |-> server, octets |-> octets]

\* A client's Initial with unconfigured config bits, and its retransmission from
\* another 4-tuple.
Initials == {Quic(f, TRUE, "initial", 3, none, 2) : f \in {f1, f2}}
\* The same with the bits of config 0 and a CID too short for it.
ShortInitial == Quic(f1, TRUE, "short", 0, none, 2)
\* A client's Initial with the bits of config 0 and a CID as long as its own.
LongInitial == Quic(f2, TRUE, "long", 0, none, 4)
\* A CID of backend a: in a short header with a payload behind it, and in a long
\* header from another 4-tuple.
ToA == {Quic(f1, FALSE, "to_a", 0, a, 9), Quic(f2, TRUE, "to_a", 0, a, 3)}

SomePackets == Initials \cup {ShortInitial} \cup ToA
AllPackets == SomePackets \cup {LongInitial}

Payloads == [c \in {0, 1} |-> 2 + c]
OneQueue == [f \in Flow |-> w1]
Hashes == [f \in Flow |-> IF f = f1 THEN 4 ELSE 7]
=============================================================================
