--------------------------- MODULE MCControlLoop ---------------------------
(* Small instances of ControlLoop for TLC. *)
EXTENDS ControlLoop

CONSTANTS b1, b2

Raw(c, a, m, d) == [config |-> c, address |-> a, mac |-> m, draining |-> d]

\* b1 has a static MAC, b2's has to be resolved.
TwoBackends == <<Raw(0, b1, TRUE, FALSE), Raw(0, b2, FALSE, FALSE)>>
\* A key rotation: slot 0 drains, slot 1 takes the new flows.
Rotation == <<Raw(0, b1, TRUE, TRUE), Raw(1, b1, FALSE, FALSE), Raw(1, b2, TRUE, FALSE)>>
OnlyB2 == <<Raw(1, b2, TRUE, FALSE)>>
OnlyB1 == <<Raw(0, b1, FALSE, FALSE)>>
DrainB1 == <<Raw(0, b1, TRUE, TRUE)>>

Boot == {TwoBackends, Rotation}
Reloads == {Rotation, OnlyB2}
BootB1 == {OnlyB1}
DrainReloads == {OnlyB1, DrainB1}
ReplaceReloads == {DrainB1, OnlyB2}
Backoff == <<2, 3>>
ShortBackoff == <<2>>
=============================================================================
