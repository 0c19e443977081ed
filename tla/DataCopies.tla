----------------------------- MODULE DataCopies -----------------------------
(***************************************************************************)
(* Volume data on a share, and the Jobs that copy and remove it.           *)
(*                                                                         *)
(* The controller cannot mount a share.  A file snapshot, a restore of a   *)
(* snapshot, a clone and every removal of a folder is therefore a Job that *)
(* ShareJobRunner (pkg/pool/share_job.go) starts under a key and asks      *)
(* about again on the next call; kubelet restarts its pod when it is cut.  *)
(* The CSI calls of the pool Manager hold the lock of the volume they      *)
(* change, so each of their calls is one step here.  The clone worker      *)
(* holds no lock: what it reads and what it then does are two steps, and   *)
(* so are the parts of the DeleteVolume call it races with.                *)
(*                                                                         *)
(* One volume (src) has data; a snapshot (snap) is taken of it and a       *)
(* second volume (new) is made from the snapshot or as a clone of src.     *)
(***************************************************************************)
EXTENDS Naturals, TLC

CONSTANTS Kinds,      \* how volume new is made: "restore", "clone" or both
          Troubles    \* bound: crashes, cut pods and failing API calls

VARIABLES kind,       \* the member of Kinds of this behaviour
          rec,        \* custom resources: SubVolume src and new, Snapshot snap
          folder,     \* what the folder of each of them holds
          job,        \* the Job of each key
          ask,        \* CSI requests: made, and repeated until they succeed
          deleting,   \* where DeleteVolume of new stands
          worker,     \* the clone status that the clone worker has read
          used,       \* what a pod found in volume new when it was mounted
          trouble     \* troubles so far

vars == <<kind, rec, folder, job, ask, deleting, worker, used, trouble>>

Folders == {"src", "snap", "new"}
Keys    == {"snap", "copy", "rmsrc", "rmsnap", "rmnew"}
Asks    == {"CreateSnapshot", "DeleteSnapshot", "CreateNew", "DeleteNew", "DeleteSource"}

Recs == [src  : {"none", "Bound"},
         snap : {"none", "Creating", "Ready"},
         new  : {"none", "bare", "Creating", "Pending", "InProgress", "Bound", "Failed"}]

Contents == {"none", "part", "torn", "whole"}

\* st: "live" runs; "ending" was deleted and its pods still run; "ok" and
\* "bad" have ended.  A Job's pod is before its first write (step 0), has
\* begun to write (1) or has ended (2).
JobStates == [st : {"none", "live", "ending", "ok", "bad"}, step : 0..2]
NoJob     == [st |-> "none", step |-> 0]

Disturb == trouble < Troubles /\ trouble' = trouble + 1
Calm    == UNCHANGED trouble

\* The folder a Job writes, and the folder a copy reads.
Target(k) == CASE k \in {"snap", "rmsnap"} -> "snap" [] k = "rmsrc" -> "src" [] OTHER -> "new"
Source(k) == IF k = "snap" \/ kind = "clone" THEN "src" ELSE "snap"
Copies    == {"snap", "copy"}

----------------------------------------------------------------------------
(* ShareJobRunner.                                                         *)

start(k) == [job EXCEPT ![k] = [st |-> "live", step |-> 0]]

cleanup(k) == [job EXCEPT ![k] = NoJob]

\* What a call for key k does: it starts the Job, waits for it, or reads how
\* it ended and removes it, so that an ending is read once.  A Job that Stop
\* has deleted and whose pod ended well still answers ok until it is gone.
runMessagesMutant(k) ==
  CASE job[k].st = "none"          -> [jobs |-> start(k),   says |-> "started"]
    [] job[k].st \in {"ok", "bad"} -> [jobs |-> cleanup(k), says |-> "ok"]
    [] OTHER                       -> [jobs |-> job,        says |-> "running"]
runMessages(k) ==
  CASE job[k].st = "none"          -> [jobs |-> start(k),   says |-> "started"]
    [] job[k].st \in {"ok", "bad"} -> [jobs |-> cleanup(k), says |-> job[k].st]
    [] job[k].st = "ending" /\ job[k].step = 2 -> [jobs |-> job, says |-> "ok"]
    [] OTHER                       -> [jobs |-> job,        says |-> "running"]

CopyDir(k)   == runMessages(k)
RemoveDir(k) == runMessages(k)

\* Stop deletes a Job in the foreground; it is done once the Job and its pods
\* are gone.
Stop(k) ==
  CASE job[k].st = "none"   -> [jobs |-> job, done |-> TRUE]
    [] job[k].st = "ending" -> [jobs |-> job, done |-> FALSE]
    [] OTHER -> [jobs |-> [job EXCEPT ![k].st = "ending"], done |-> FALSE]

(* The pods.  The script of a copy empties its target, fills it and ends;  *)
(* a cut pod runs it again from the start.                                 *)

Running(k) == job[k].st \in {"live", "ending"}

podEnded(k) == [job EXCEPT ![k].step = 2, ![k].st = IF @ = "live" THEN "ok" ELSE @]
PodWrites(k) ==
  /\ Running(k) /\ job[k].step = 0
  /\ folder' = [folder EXCEPT ![Target(k)] = IF k \in Copies \/ @ # "none" THEN "part" ELSE @]
  /\ job' = [job EXCEPT ![k].step = 1]
  /\ Calm
  /\ UNCHANGED <<kind, rec, ask, deleting, worker, used>>

\* cp of a folder that is being removed may end well with what was left.
PodEnds(k) ==
  /\ Running(k) /\ job[k].step = 1
  /\ k \in Copies => folder[Source(k)] # "none"
  /\ folder' = [folder EXCEPT ![Target(k)] =
                  CASE k \notin Copies               -> "none"
                    [] folder[Source(k)] = "whole" -> "whole"
                    [] OTHER                         -> "torn"]
  /\ job' = podEnded(k)
  /\ Calm
  /\ UNCHANGED <<kind, rec, ask, deleting, worker, used>>

\* The trap of the script removes what was copied, unless the pod was killed.
PodCut(k) ==
  /\ Running(k) /\ job[k].step = 1
  /\ folder' \in {folder, IF k \in Copies THEN [folder EXCEPT ![Target(k)] = "none"] ELSE folder}
  /\ job' = [job EXCEPT ![k].step = 0]
  /\ Disturb
  /\ UNCHANGED <<kind, rec, ask, deleting, worker, used>>

\* The pod has failed more often than the Job allows: a copy whose source is
\* gone does, any other only in trouble.
JobFails(k) ==
  /\ job[k].st = "live" /\ job[k].step = 1
  /\ IF k \in Copies /\ folder[Source(k)] = "none" THEN Calm ELSE Disturb
  /\ folder' = [folder EXCEPT ![Target(k)] = IF k \in Copies THEN "none" ELSE @]
  /\ job' = [job EXCEPT ![k] = [st |-> "bad", step |-> 2]]
  /\ UNCHANGED <<kind, rec, ask, deleting, worker, used>>

\* The garbage collector has ended the pods of a deleted Job.
PodsGone(k) ==
  /\ job[k].st = "ending"
  /\ job' = cleanup(k)
  /\ Calm
  /\ UNCHANGED <<kind, rec, folder, ask, deleting, worker, used>>

----------------------------------------------------------------------------
(* The calls of the pool Manager.  A call that has not succeeded is made   *)
(* again by the CSI sidecar.                                               *)

Saved(f, v)   == rec' = [rec EXCEPT ![f] = v]
Answered(op)  == ask' = [ask EXCEPT ![op] = "done"]
Called(op)    == ask[op] = "yes"
Others        == UNCHANGED <<kind, folder, worker, used>>

copySnapshotData ==
  LET r == CopyDir("snap") IN
  /\ job' = r.jobs
  /\ CASE r.says = "ok"  -> \/ Saved("snap", "Ready") /\ Answered("CreateSnapshot") /\ Calm
                            \/ Disturb /\ UNCHANGED <<rec, ask>>
       [] r.says = "bad" -> \/ Saved("snap", "none") /\ Calm /\ UNCHANGED ask
                            \/ Disturb /\ UNCHANGED <<rec, ask>>
       [] OTHER -> Calm /\ UNCHANGED <<rec, ask>>

\* The Snapshot exists before its copy starts; a crash may come between.
CreateSnapshot ==
  /\ \/ /\ rec.snap = "none" /\ rec.src = "Bound"
        /\ Saved("snap", "Creating")
        /\ \/ job' = CopyDir("snap").jobs /\ Calm
           \/ Disturb /\ UNCHANGED job
        /\ UNCHANGED ask
     \/ rec.snap = "Creating" /\ copySnapshotData
  /\ Others /\ UNCHANGED deleting

DeleteSnapshot ==
  /\ IF rec.snap = "none"
       THEN Answered("DeleteSnapshot") /\ Calm /\ UNCHANGED <<rec, job>>
       ELSE LET s == Stop("snap")
                r == RemoveDir("rmsnap") IN
            IF ~s.done THEN job' = s.jobs /\ Calm /\ UNCHANGED <<rec, ask>>
            ELSE /\ job' = [s.jobs EXCEPT !["rmsnap"] = r.jobs["rmsnap"]]
                 /\ IF r.says = "ok"
                      THEN \/ Saved("snap", "none") /\ Answered("DeleteSnapshot") /\ Calm
                           \/ Disturb /\ UNCHANGED <<rec, ask>>
                      ELSE Calm /\ UNCHANGED <<rec, ask>>
  /\ Others /\ UNCHANGED deleting

\* A failed copy keeps the SubVolume, so the next call starts a new copy.
copyRestoreData ==
  LET r == CopyDir("copy") IN
  /\ rec.snap # "none"
  /\ job' = r.jobs
  /\ IF r.says = "ok"
       THEN \/ Saved("new", "Bound") /\ Answered("CreateNew") /\ Calm
            \/ Disturb /\ UNCHANGED <<rec, ask>>
       ELSE Calm /\ UNCHANGED <<rec, ask>>

reserveRestore ==
  /\ rec.new = "none" /\ rec.snap = "Ready"
  /\ Saved("new", "Creating")
  /\ \/ job' = CopyDir("copy").jobs /\ Calm
     \/ Disturb /\ UNCHANGED job
  /\ UNCHANGED ask

RestoreSnapshot ==
  /\ \/ reserveRestore
     \/ rec.new = "Creating" /\ copyRestoreData
  /\ Others /\ UNCHANGED deleting

\* CloneVolume only records the clone.  A failure to save its status is
\* logged, and the SubVolume stays without one.  A call that is repeated,
\* because its answer was lost, succeeds unless the clone has failed by then.
CloneVolume ==
  /\ \/ /\ rec.new = "none" /\ rec.src = "Bound"
        /\ \/ Saved("new", "Pending") /\ Answered("CreateNew") /\ Calm
           \/ Saved("new", "Pending") /\ Disturb /\ UNCHANGED ask
           \/ Saved("new", "bare") /\ Answered("CreateNew") /\ Disturb
     \/ rec.new \notin {"none", "Failed"} /\ Answered("CreateNew") /\ Calm /\ UNCHANGED rec
  /\ Others /\ UNCHANGED <<job, deleting>>

\* Deallocate of src, a volume that no Job copies into.
DeallocateSource ==
  /\ LET r == RemoveDir("rmsrc") IN
     /\ job' = r.jobs
     /\ IF r.says = "ok"
          THEN \/ Saved("src", "none") /\ Answered("DeleteSource") /\ Calm
               \/ Disturb /\ UNCHANGED <<rec, ask>>
          ELSE Calm /\ UNCHANGED <<rec, ask>>
  /\ Others /\ UNCHANGED deleting

\* Deallocate of new: stop the copy into it, remove the folder, delete the
\* SubVolume.  The clone worker may run between any two of these.
stopCopy ==
  /\ deleting = "idle" /\ rec.new # "none"
  /\ LET s == Stop("copy") IN
     /\ job' = s.jobs
     /\ deleting' = IF s.done THEN "stopped" ELSE "idle"
  /\ Calm /\ Others /\ UNCHANGED <<rec, ask>>

removeFolder ==
  /\ deleting = "stopped"
  /\ LET r == RemoveDir("rmnew") IN
     /\ job' = r.jobs
     /\ deleting' = IF r.says = "ok" THEN "removed" ELSE "idle"
  /\ Calm /\ Others /\ UNCHANGED <<rec, ask>>

DeleteSubVolume ==
  /\ deleting = "removed"
  /\ deleting' = "idle"
  /\ \/ Saved("new", "none") /\ Answered("DeleteNew") /\ Calm
     \/ Disturb /\ UNCHANGED <<rec, ask>>
  /\ Others /\ UNCHANGED job

Deallocate == stopCopy \/ removeFolder \/ DeleteSubVolume

----------------------------------------------------------------------------
(* The CSI calls: each checks its request and passes it to the Manager.    *)

CSICreateSnapshot        == Called("CreateSnapshot") /\ ask["DeleteSnapshot"] = "no" /\ CreateSnapshot
CSIDeleteSnapshot        == Called("DeleteSnapshot") /\ DeleteSnapshot
createVolumeFromSnapshot == Called("CreateNew") /\ kind = "restore" /\ RestoreSnapshot
createVolumeFromClone    == Called("CreateNew") /\ kind = "clone" /\ CloneVolume
DeleteVolume             == \/ Called("DeleteNew") /\ Deallocate
                            \/ Called("DeleteSource") /\ DeallocateSource

----------------------------------------------------------------------------
(* The clone worker, the node plugin and the rest of the world.            *)

Unfinished == {"Pending", "InProgress"}

processOnce == Unfinished

\* processClone reads the SubVolume ...
readClone ==
  /\ kind = "clone" /\ worker = "idle" /\ rec.new \in processOnce
  /\ worker' = rec.new
  /\ Calm /\ UNCHANGED <<kind, rec, folder, job, ask, deleting, used>>

\* A status update fails when the SubVolume is gone.
CloneStatus(v) == rec' = [rec EXCEPT !.new = IF @ \in Unfinished THEN v ELSE @]

\* ... and goes on with what it read.  A source that is gone, or that cannot
\* be read this time, fails the clone; a Job that runs is left alone.
processClone ==
  /\ worker # "idle"
  /\ worker' = "idle"
  /\ \/ worker = "Pending" /\ (rec.new # "Pending" \/ trouble < Troubles)
        /\ (IF rec.new # "Pending" THEN Calm ELSE Disturb) /\ UNCHANGED <<rec, job>>
     \/ /\ worker = "Pending" => rec.new = "Pending"
        /\ LET r == CopyDir("copy") IN
           \/ /\ CloneStatus("Failed") /\ UNCHANGED job
              /\ IF rec.src = "none" THEN Calm ELSE Disturb
           \/ /\ rec.src # "none" /\ job' = r.jobs
                /\ CASE r.says = "ok"  -> \/ CloneStatus("Bound") /\ Calm
                                          \/ CloneStatus("InProgress") /\ Disturb
                     [] r.says = "bad" -> \/ CloneStatus("Failed") /\ Calm
                                          \/ CloneStatus("InProgress") /\ Disturb
                     [] OTHER -> CloneStatus("InProgress") /\ Calm
  /\ UNCHANGED <<kind, folder, ask, deleting, used>>

\* A pod mounts new: a clone only when its copy is Complete, unless the node
\* plugin cannot read the SubVolume.  A folder that is missing is made.
MayPublish == kind = "clone" => rec.new = "Bound"
NodePublishVolume ==
  /\ ask["CreateNew"] = "done" /\ ask["DeleteNew"] = "no" /\ used = "no"
  /\ \/ MayPublish /\ used' = folder.new /\ Calm
     \/ Disturb /\ used' = "unread"
  /\ folder' = [folder EXCEPT !.new = IF @ = "none" THEN "part" ELSE @]
  /\ UNCHANGED <<kind, rec, job, ask, deleting, worker>>

Restart ==
  /\ deleting # "idle" \/ worker # "idle"
  /\ Disturb
  /\ deleting' = "idle" /\ worker' = "idle"
  /\ UNCHANGED <<kind, rec, folder, job, ask, used>>

\* Kubernetes lets no source go before the request that reads it has ended.
Ask(op) ==
  /\ ask[op] = "no"
  /\ CASE op = "CreateNew"      -> rec.snap = "Ready" /\ ask["DeleteSnapshot"] = "no"
       [] op = "DeleteSnapshot" -> kind = "restore" /\ ask["CreateNew"] # "yes"
       [] op = "DeleteNew"      -> ask["CreateNew"] = "done"
       [] op = "DeleteSource"   -> ask["CreateSnapshot"] # "yes" /\ (kind = "clone" => ask["CreateNew"] = "done")
       [] OTHER                 -> FALSE
  /\ ask' = [ask EXCEPT ![op] = "yes"]
  /\ Calm /\ UNCHANGED <<kind, rec, folder, job, deleting, worker, used>>

Init ==
  /\ kind \in Kinds
  /\ rec = [src |-> "Bound", snap |-> "none", new |-> "none"]
  /\ folder = [src |-> "whole", snap |-> "none", new |-> "none"]
  /\ job = [k \in Keys |-> NoJob]
  /\ ask = [op \in Asks |-> IF op = (IF kind = "clone" THEN "CreateNew" ELSE "CreateSnapshot") THEN "yes" ELSE "no"]
  /\ deleting = "idle" /\ worker = "idle" /\ used = "no"
  /\ trouble = 0

Pods(k) == PodWrites(k) \/ PodEnds(k) \/ PodsGone(k) \/ JobFails(k)

Next ==
  \/ \E k \in Keys : PodWrites(k) \/ PodEnds(k) \/ PodCut(k) \/ JobFails(k) \/ PodsGone(k)
  \/ CSICreateSnapshot \/ CSIDeleteSnapshot \/ createVolumeFromSnapshot \/ createVolumeFromClone \/ DeleteVolume
  \/ readClone \/ processClone \/ NodePublishVolume \/ Restart
  \/ \E op \in Asks : Ask(op)

Spec == Init /\ [][Next]_vars

\* The sidecars repeat their calls, the worker ticks, and pods and the
\* garbage collector go on.
SomePods == \E k \in Keys : Pods(k)
Calls ==
  CSICreateSnapshot \/ CSIDeleteSnapshot \/ createVolumeFromSnapshot \/ createVolumeFromClone \/ DeleteVolume
CloneWorker == readClone \/ processClone
Fairness == WF_vars(SomePods) /\ WF_vars(Calls) /\ WF_vars(CloneWorker)

FairSpec == Spec /\ Fairness

----------------------------------------------------------------------------

TypeOK ==
  /\ kind \in Kinds
  /\ rec \in Recs
  /\ folder \in [Folders -> Contents]
  /\ job \in [Keys -> JobStates]
  /\ ask \in [Asks -> {"no", "yes", "done"}]
  /\ deleting \in {"idle", "stopped", "removed"}
  /\ worker \in Unfinished \cup {"idle"}
  /\ used \in Contents \cup {"no", "unread"}
  /\ trouble \in 0..Troubles

\* A snapshot that is ready and a volume that is Bound hold all the data of
\* their source, and a pod finds all of it, whatever pods were cut and
\* whatever answers were lost on the way (copySnapshotData, copyRestoreData,
\* processClone, the gate of NodePublishVolume).  The clone of a source that
\* is deleted before the copy has ended is the one exception.
FinishedIsWhole ==
  LET intact == kind = "clone" => ask["DeleteSource"] = "no" IN
  /\ rec.snap = "Ready" /\ ask["DeleteSnapshot"] = "no" => folder.snap = "whole"
  /\ rec.new = "Bound" /\ ask["DeleteNew"] = "no" /\ intact => folder.new = "whole"
  /\ intact => used \in {"no", "unread", "whole"}

\* Two Jobs never write one folder: a removal starts only after Stop has seen
\* the last pod of the copy go.  The clone worker does not look at what
\* Deallocate does, so a clone that is being deleted is left out.
OneWriter ==
  \A k, l \in Keys :
    k # l /\ Running(k) /\ Running(l) /\ Target(k) = Target(l)
      => kind = "clone" /\ {k, l} = {"copy", "rmnew"}

\* "The SubVolume CR and its capacity stay until the folder is gone": what
\* was deleted has no folder left, and no late pod brings it back.
GoneIsGone ==
  /\ ask["DeleteSnapshot"] = "done" => folder.snap = "none"
  /\ ask["DeleteSource"] = "done" => folder.src = "none"
  /\ ask["DeleteNew"] = "done" /\ kind = "restore" => folder.new = "none"

\* The same of every volume, clones included.
FolderGone == ask["DeleteNew"] = "done" => folder.new = "none"

\* No request is open: a snapshot, a restore and a removal is answered, and a
\* clone is Complete or Failed.  Not waited for: a snapshot whose deletion was
\* asked for, the repeats of a failed clone, which only get its error, a clone
\* under deletion, whose Job the worker starts again, and a clone without a
\* status, which no worker picks up.
RequestsEnded ==
  \/ kind = "clone" /\ ask["DeleteNew"] # "no"
  \/ /\ \A op \in Asks : Called(op) => \/ op = "CreateSnapshot" /\ ask["DeleteSnapshot"] # "no"
                                       \/ kind = "clone" /\ op = "CreateNew" /\ rec.new = "Failed"
     /\ rec.new \notin Unfinished

\* Every request ends: a snapshot is ready, a restore Bound, a clone Complete
\* or Failed, and a removal done, once the troubles have ended.
CopiesEnd == []<>RequestsEnded

\* A volume whose deletion was asked for is deleted in the end.
DeleteEnds == Called("DeleteNew") ~> ask["DeleteNew"] = "done"

=============================================================================
