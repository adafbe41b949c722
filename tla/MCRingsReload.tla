--------------------------- MODULE MCRingsReload ---------------------------
(***************************************************************************)
(* Parts that share no state, for TLC: one AF_XDP ring and the frames of a *)
(* UMEM, which a worker moves, and the rollover of a route file and the    *)
(* ages of its keys, which outlast reloads.  A behaviour is one of the     *)
(* part it starts with; the others keep still.                             *)
(***************************************************************************)
EXTENDS MCReload, Umem, Ring

AnyEntry == CHOOSE f \in Entry : TRUE

partsVars == <<part, vars, ageVars, ringVars, umemVars>>

PartsInit ==
  /\ part \in {"ring", "umem", "rollover", "ages"}
  /\ Init /\ (part # "rollover" => file = <<Old>>)
  /\ AgeInit /\ (part # "ages" => ages = LoadKeys(AnyFile))
  /\ RingInit /\ (part # "ring" => producer = 0 /\ descs[0] = AnyEntry)
  /\ UmemInit /\ (part # "umem" => flavour = "xsk")

PartsNext ==
  /\ part' = part
  /\ \/ part = "ring" /\ RingNext /\ UNCHANGED <<vars, ageVars, umemVars>>
     \/ part = "umem" /\ UmemNext /\ UNCHANGED <<vars, ageVars, ringVars>>
     \/ part = "rollover" /\ Next /\ UNCHANGED <<ageVars, ringVars, umemVars>>
     \/ part = "ages" /\ AgeNext /\ UNCHANGED <<vars, ringVars, umemVars>>

\* The fairness of the UMEM's and of the key ages' specifications, in their behaviours.
PartsSpec ==
  /\ PartsInit /\ [][PartsNext]_partsVars
  /\ WF_partsVars(part = "umem" /\ WorkerLoop /\ PartsNext)
  /\ SF_partsVars(part = "umem" /\ PollRecv /\ PartsNext)
  /\ WF_partsVars(part = "umem" /\ Send /\ PartsNext)
  /\ WF_partsVars(part = "ages" /\ Check /\ PartsNext)
=============================================================================
