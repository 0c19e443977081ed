------------------------------ MODULE MCLocks ------------------------------
(***************************************************************************)
(* What serialises the Manager: the map of volume locks (VolumeLocks) and  *)
(* the order in which calls take their locks (ManagerLocks).  One of them  *)
(* takes the steps of each behaviour, the other stays as it began.         *)
(***************************************************************************)
EXTENDS VolumeLocks, ManagerLocks

VARIABLE part   \* the component that takes the steps of this behaviour

AllInit == part \in {"locks", "manager"} /\ Init /\ CallsInit

AllNext ==
    /\ UNCHANGED part
    /\ \/ part = "locks" /\ Next /\ UNCHANGED callVars
       \/ part = "manager" /\ CallsNext /\ UNCHANGED vars

AllSpec == AllInit /\ [][AllNext]_<<part, vars, callVars>> /\ CallsFairness
=============================================================================
