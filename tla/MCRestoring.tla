---------------------------- MODULE MCRestoring ----------------------------
(***************************************************************************)
(* How data is copied and comes back: whole volumes and files are restored *)
(* into claims (Restores), the Job of a file restore copies the chosen     *)
(* files (FileCopy), and share Jobs copy snapshots, restores and clones    *)
(* (DataCopies), also of a group of volumes (GroupSnapshots). One of them  *)
(* takes the steps of each behaviour.                                      *)
(***************************************************************************)
EXTENDS FileCopy, TLC

VARIABLE part   \* the component that takes the steps of this behaviour
VARIABLES kind, target, restoreReq, queue, policy, claim, label, data, restoreJob, disk,
          pub, blind, pass, dataKind, rec, folder, dataJob, ask, deleting, worker, used,
          groupPolicy, group, member, snap, groupData, copying, removing, call, asked

\* Two requests for one claim.
Two(k1, k2) == [kind |-> [r1 |-> k1, r2 |-> k2], target |-> [r1 |-> "c1", r2 |-> "c1"]]
RequestPairs ==
  {Two("backup", "cos"), Two("backup", "file"), Two("backup", "guest"), Two("into", "into")}

\* A backup with a folder in a folder, a link, a device, and a folder and a
\* file that may not be read; chosen paths that overlap, that share a folder
\* above them, that are missing, special or too large.
Backup ==
  <<>> :> [type |-> "dir", size |-> 0] @@ <<"a">> :> [type |-> "dir", size |-> 0]
  @@ <<"a", "x">> :> [type |-> "file", size |-> 1] @@ <<"a", "d">> :> [type |-> "dir", size |-> 0]
  @@ <<"a", "d", "y">> :> [type |-> "link", size |-> 0]
  @@ <<"a", "u">> :> [type |-> "hidden", size |-> 1] @@ <<"a", "k">> :> [type |-> "locked", size |-> 0]
  @@ <<"a", "k", "z">> :> [type |-> "file", size |-> 1]
  @@ <<"b">> :> [type |-> "file", size |-> 3] @@ <<"s">> :> [type |-> "device", size |-> 0]
Selections ==
  {{<<"a">>, <<"a", "d", "y">>}, {<<"a", "d", "y">>, <<"a", "x">>}, {<<>>}, {<<"s">>},
   {<<"a", "x">>, <<"m">>}, {<<"b">>, <<"a", "d">>}}
FileRestores ==
  [chosen : Selections, mode : {"new", "folder"}, guest : BOOLEAN, room : {4}]
  \cup [chosen : {{<<>>}}, mode : {"new", "folder"}, guest : BOOLEAN, room : {3}]

Restore == INSTANCE Restores WITH
  Requests <- {"r1", "r2"}, Claims <- {"c1"}, Scenarios <- RequestPairs, MaxRunning <- 2,
  Lives <- 2, Troubles <- 1,
  req <- restoreReq, job <- restoreJob

Data == INSTANCE DataCopies WITH
  Kinds <- {"restore", "clone"}, Troubles <- 2,
  kind <- dataKind, job <- dataJob

Group == INSTANCE GroupSnapshots WITH
  Sources <- <<"a", "b">>, CopyOrder <- <<"b", "other">>, Policies <- {"Abort", "Continue"}, Troubles <- 2,
  policy <- groupPolicy, data <- groupData

butFiles == <<kind, target, restoreReq, queue, policy, claim, label, data, restoreJob,
    disk, pub, blind, pass, dataKind, rec, folder, dataJob, ask, deleting, worker, used,
    groupPolicy, group, member, snap, groupData, copying, removing, call, asked>>
butRestore == <<req, reader, writer, root, read, folders, tries, message, outcome, phase,
    rough, persons, dataKind, rec, folder, dataJob, ask, deleting, worker, used,
    groupPolicy, group, member, snap, groupData, copying, removing, call, asked>>
butData == <<req, reader, writer, root, read, folders, tries, message, outcome, phase,
    rough, persons, kind, target, restoreReq, queue, policy, claim, label, data,
    restoreJob, disk, pub, blind, pass, groupPolicy, group, member, snap, groupData,
    copying, removing, call, asked>>
butGroup == <<req, reader, writer, root, read, folders, tries, message, outcome, phase,
    rough, persons, kind, target, restoreReq, queue, policy, claim, label, data,
    restoreJob, disk, pub, blind, pass, dataKind, rec, folder, dataJob, ask, deleting,
    worker, used>>
everything == <<part, vars, butFiles>>

\* The components that take no steps stay in one of their initial states.
AllInit ==
  /\ part \in {"files", "restore", "data", "group"}
  /\ Init /\ Restore!Init /\ Data!Init /\ Group!Init
  /\ part # "files" => req.chosen = {<<"s">>} /\ req.mode = "new" /\ req.guest
  /\ part # "restore" => kind = [r1 |-> "backup", r2 |-> "cos"]
  /\ part # "data" => dataKind = "clone"
  /\ part # "group" => groupPolicy = "Abort"

AllNext ==
  /\ UNCHANGED part
  /\ \/ part = "files" /\ Next /\ UNCHANGED butFiles
     \/ part = "restore" /\ Restore!Next /\ UNCHANGED butRestore
     \/ part = "data" /\ Data!Next /\ UNCHANGED butData
     \/ part = "group" /\ Group!Next /\ UNCHANGED butGroup

AllSpec == AllInit /\ [][AllNext]_everything

RestoreVars == Restore!vars
DataVars == Data!vars
GroupVars == Group!vars

\* The fairness of each component; see its module.
AllFairSpec ==
  /\ AllSpec
  /\ WF_vars(part = "files" /\ Work)
  /\ WF_RestoreVars(part = "restore" /\ Restore!saveRestoreProgress)
  /\ WF_RestoreVars(part = "restore" /\ Restore!openVolume)
  /\ WF_RestoreVars(part = "restore" /\ Restore!openFinishedRestores("c1"))
  /\ WF_DataVars(part = "data" /\ Data!SomePods)
  /\ WF_DataVars(part = "data" /\ Data!Calls)
  /\ WF_DataVars(part = "data" /\ Data!CloneWorker)
  /\ WF_GroupVars(part = "group" /\ Group!Calls /\ Group!Calm)
  /\ WF_GroupVars(part = "group" /\ \E m \in Group!Members : Group!CopyEnds(m) \/ Group!RemoveEnds(m))

-----------------------------------------------------------------------------
\* The walk makes a folder before what is in it, each entry once, and finishes
\* a folder after what is in it: no call of it fails for another reason than
\* the share, however the chosen paths overlap. A restore that is Done wrote
\* exactly the chosen entries and the folders above them, and finished every
\* one. A failed restore into an existing claim leaves nothing in it, unless
\* its container was killed or its result was lost. Again = FALSE and
\* Heard = TRUE leave out a Job that is started again after its result was
\* lost, and a writer that does not hear of its reader's end.
FilesWhole == part = "files" => TypeOK /\ CallsFit /\ DoneIsWhole /\ FailedLeavesNothing


\* What a pod wrote into the new volume of a BackupRestore is never emptied by
\* the restore's Job: Done is saved before the volume is opened, so a result
\* that is lost is lost while the volume is still held back.  A restore or a
\* claim that is made again under its name is left out (FirstLife): that
\* restore does empty the volume the first one filled.
PodDataKept == [][Restore!PodDataStays]_everything

\* A snapshot that is ready and a volume that is Bound hold all the data of
\* their source, and a pod finds all of it, whatever pods were cut and
\* whatever answers were lost on the way (copySnapshotData, copyRestoreData,
\* processClone, the gate of NodePublishVolume).  The clone of a source that
\* is deleted before the copy has ended is the one exception. Two Jobs never
\* write one folder: a removal starts only after Stop has seen the last pod of
\* the copy go.  The clone worker does not look at what Deallocate does, so a
\* clone that is being deleted is left out. "The SubVolume CR and its capacity
\* stay until the folder is gone": what was deleted has no folder left, and no
\* late pod brings it back.
CopiesWhole == part = "data" => Data!TypeOK /\ Data!FinishedIsWhole /\ Data!OneWriter /\ Data!GoneIsGone

\* A group that is Complete has a ready snapshot with data of every member,
\* whatever calls were cut and repeated before (finalPhase,
\* refreshGroupSnapshot), also when an Abort took members back and its last
\* write was lost, until its deletion is asked for.
CompleteIsWhole == part = "group" => Group!TypeOK /\ Group!CompleteIsWhole

Settled ==
  \/ part = "files" /\ Over
  \/ part = "restore" /\ Restore!VolumesOpened
  \/ part = "data" /\ Data!RequestsEnded
  \/ part = "group" /\ Group!GroupOver

\* A volume whose restore is Done is opened to its pods, every file restore's
\* Job ends, and a group leaves InProgress. A snapshot, a restore of it and a
\* removal that is asked for is answered, and a clone is Complete or Failed,
\* except a clone whose status was never written, which no worker picks up,
\* and a clone under deletion, whose Job the worker starts again.
RestoringSettles == []<>Settled
=============================================================================
