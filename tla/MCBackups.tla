----------------------------- MODULE MCBackups -----------------------------
(***************************************************************************)
(* Copies of VM disks that others use: the backups that exports and        *)
(* sessions read while copies are due (BackupHolds), and the disk at the   *)
(* far site with the undo files from which a failover rewinds it           *)
(* (FarDisk). One of them takes the steps of each behaviour.               *)
(***************************************************************************)
EXTENDS FarDisk, BackupHolds

VARIABLE part   \* the component that takes the steps of this behaviour

\* One policy that backs up one VM disk.
Picked == [b1 |-> {"v1"}]
SameName == [b1 |-> "b1"]
OneVolume == <<"v1">>

\* The component that takes no steps stays in one of its initial states.
AllInit ==
  /\ part \in {"far", "holds"}
  /\ Init /\ BInit
  /\ part # "far" => mode = "direct"

AllNext ==
  /\ UNCHANGED part
  /\ \/ part = "far" /\ Next /\ UNCHANGED allVars
     \/ part = "holds" /\ BNext /\ UNCHANGED vars

AllSpec == AllInit /\ [][AllNext]_<<part, vars, allVars>>

\* Copies that go the direct way are followed to the second one; for more of
\* them, see the proofs.  What follows a failover planned while a copy call works
\* is not followed (Guarded; the proofs assume the same).  A reader and a copy
\* that missed each other are not followed when a disturbance had happened before.
Bounded ==
  /\ mode = "direct" => Len(image) <= 2
  /\ Guarded
  /\ slip = {} \/ trouble = 0

-----------------------------------------------------------------------------
\* An export or a session reads a copy that replication writes only if the two
\* sides missed each other: the hold came after the replication pass had listed
\* the volumes, the copy Job was not yet in the policy's status, or the hold was
\* let go while a Job of the export read on (its stop failed, or nothing records
\* the Job).
ReadersSeen == BTypeOK /\ OverlapOnlyUnseen
=============================================================================
