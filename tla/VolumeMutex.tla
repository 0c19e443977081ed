---------------------------- MODULE VolumeMutex ----------------------------
(***************************************************************************)
(* What volumeLocks promises its callers: one mutex per volume.  A use is  *)
(* one run of lock(volume) and of the function that it returns.            *)
(***************************************************************************)
CONSTANTS Uses, Volumes, None

VARIABLES
    wants,   \* the volume a use waits for or holds, None before and after
    owner    \* the use that holds each volume, None when it is free

Init ==
    /\ wants = [u \in Uses |-> None]
    /\ owner = [v \in Volumes |-> None]

Ask(u, v) ==
    /\ wants[u] = None
    /\ wants' = [wants EXCEPT ![u] = v]
    /\ UNCHANGED owner

Take(u) ==
    /\ wants[u] # None /\ owner[wants[u]] = None
    /\ owner' = [owner EXCEPT ![wants[u]] = u]
    /\ UNCHANGED wants

Give(u) ==
    /\ wants[u] # None /\ owner[wants[u]] = u
    /\ owner' = [owner EXCEPT ![wants[u]] = None]
    /\ wants' = [wants EXCEPT ![u] = None]

Next == \E u \in Uses : (\E v \in Volumes : Ask(u, v)) \/ Take(u) \/ Give(u)

Spec == Init /\ [][Next]_<<wants, owner>>
=============================================================================
