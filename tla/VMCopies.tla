------------------------------ MODULE VMCopies ------------------------------
(***************************************************************************)
(* Copies of the disks of a running VM, made by QEMU (pkg/vmcopy) for two  *)
(* users that run side by side: the snapshot loop of the pool manager      *)
(* (pkg/pool/snapshot_vm.go, under vmMu, every 10 s) and the replication   *)
(* controller (pkg/pool/replication_vmcopy.go).                            *)
(*                                                                         *)
(* A copy goes through three places.  QEMU in the VM's pod has its jobs    *)
(* and its change lists (dirty bitmaps), and loses both with the pod.  The *)
(* share has its staging files, which outlive the pod.  The Kubernetes     *)
(* status of a Snapshot or of the policy is all the controller remembers.  *)
(* A copy number is also the moment it shows: numbers grow with time.      *)
(***************************************************************************)
EXTENDS Integers, FiniteSets

CONSTANTS
  Disks,        \* the pool disks of the VM
  Snaps,        \* the Snapshots taken of them
  DiskOf,       \* the disk each Snapshot is of
  Loads,        \* what is asked: the Snapshots taken, those of them that may be
                \* deleted, how many copies replication starts, and how it
                \* reaches the far site ("direct" or "receiver")
  Ids,          \* the copy numbers, 1..n
  Attempts,     \* maxVMSnapshotAttempts
  Troubles      \* how many things may go wrong

VARIABLES
  load,      \* the one of Loads that this behaviour serves
  pod,       \* the UID of the VM's pod, 0 while the VM is stopped
  moving,    \* a live migration is requested or running
  jobs,      \* QEMU's jobs of each copy; a concluded job stays until dismissed
  lists,     \* QEMU's change lists on each disk
  staging,   \* the staging file of each copy on each disk's folder
  made,      \* who started each copy, and the change list it read
  snap,      \* the Snapshots
  sJob,      \* the apply Job of each Snapshot
  folder,    \* the moment the disk image in each snapshot folder shows
  pass,      \* what the running pass of the snapshot loop knows
  rep,       \* the policy's status of each disk
  repAt,     \* where the replication controller is in startVMCopy
  rJob,      \* the apply or send Job of each disk
  far,       \* the far-site disks: the moment they name, and the one they hold
  trouble    \* how many things went wrong, and whether a Snapshot's status was not saved

qemu == <<jobs, lists>>
vars == <<load, pod, moving, jobs, lists, staging, made, snap, sJob, folder,
          pass, rep, repAt, rJob, far, trouble>>

Bad == -1
Nobody == "nobody"
NoSnapshot == [exists |-> FALSE, method |-> "vm", deleting |-> FALSE, status |-> "Creating",
               copy |-> 0, phase |-> "none", leader |-> Nobody, pod |-> 0,
               set |-> 0, setPod |-> 0, open |-> FALSE, copyID |-> 0, tries |-> 0]
NoPass == [on |-> FALSE, todo |-> {}, seen |-> [s \in Snaps |-> NoSnapshot],
           claimed |-> {}, at |-> Nobody]
NoJob == [state |-> "none", copy |-> 0, from |-> 0, full |-> FALSE, wrongBase |-> FALSE]
NoCopy == [by |-> "none", base |-> 0]

Disturb == trouble.count < Troubles /\ trouble' = [trouble EXCEPT !.count = @ + 1]
LoseSave == trouble.count < Troubles /\ trouble' = [count |-> trouble.count + 1, lost |-> TRUE]
Calm == UNCHANGED trouble

Init ==
  /\ load \in Loads
  /\ pod = 1
  /\ moving = FALSE
  /\ jobs = [i \in Ids |-> "none"]
  /\ lists = [d \in Disks |-> {}]
  /\ staging = [i \in Ids |-> [d \in Disks |-> "none"]]
  /\ made = [i \in Ids |-> NoCopy]
  /\ snap = [s \in Snaps |-> NoSnapshot]
  /\ sJob = [s \in Snaps |-> NoJob]
  /\ folder = [s \in Snaps |-> 0]
  /\ pass = NoPass
  /\ rep = [d \in Disks |-> [copy |-> 0, phase |-> "none", pod |-> 0, list |-> 0, moment |-> 0]]
  /\ repAt = "idle"
  /\ rJob = [d \in Disks |-> NoJob]
  /\ far = [d \in Disks |-> [names |-> 0, holds |-> 0]]
  /\ trouble = [count |-> 0, lost |-> FALSE]

-----------------------------------------------------------------------------
(***************************************************************************)
(* pkg/vmcopy: what the Copier does in QEMU and to the staging files.  The *)
(* jobs of a copy's disks start in one transaction and are kept as one.    *)
(***************************************************************************)

\* Any job in QEMU whose name says it is a copy, concluded ones included.
Busy == \E i \in Ids : jobs[i] # "none"

NewId == CHOOSE i \in Ids : made[i].by = "none" /\ \A j \in Ids : made[j].by = "none" => i <= j
Unused == \E i \in Ids : made[i].by = "none"

RemoveStaleMutant(by, keep) ==
  /\ lists' = [d \in Disks |-> {i \in lists[d] : made[i].by # by \/ i = keep}]
  /\ staging' = [i \in Ids |-> [d \in Disks |-> "none"]]
  /\ UNCHANGED jobs

\* removeStale after CheckIdle: change lists and staging files of one kind of
\* copy go, all but the list to keep.  The block nodes go with the jobs.
RemoveStale(by, keep) ==
  /\ lists' = [d \in Disks |-> {i \in lists[d] : made[i].by # by \/ i = keep}]
  /\ staging' = [i \in Ids |-> IF made[i].by = by THEN [d \in Disks |-> "none"] ELSE staging[i]]
  /\ UNCHANGED jobs

\* Start: one transaction makes a new change list on every disk and starts the
\* copies into new staging files.  A base that a disk lacks (ErrBaseLost) makes
\* the caller start again with a full copy.
Base(b) == IF b # 0 /\ \A d \in Disks : b \in lists[d] THEN b ELSE 0

Start(by, b) ==
  /\ jobs' = [jobs EXCEPT ![NewId] = "running"]
  /\ lists' = [d \in Disks |-> lists[d] \union {NewId}]
  /\ staging' = [staging EXCEPT ![NewId] = [d \in Disks |-> "part"]]
  /\ made' = [made EXCEPT ![NewId] = [by |-> by, base |-> Base(b)]]

\* cleanup of the given copies on the given disks, a set of pairs: dismiss
\* concluded jobs; with removeStaging also drop change lists and staging files.
Finish(which, removeStaging) ==
  LET gone(i, d) == removeStaging /\ <<i, d>> \in which IN
  /\ jobs' = [i \in Ids |-> IF jobs[i] # "running" /\ \E d \in Disks : <<i, d>> \in which
                           THEN "none" ELSE jobs[i]]
  /\ lists' = [d \in Disks |-> {i \in lists[d] : ~gone(i, d)}]
  /\ staging' = [i \in Ids |-> [d \in Disks |-> IF gone(i, d) THEN "none" ELSE staging[i][d]]]

\* Cancel stops the jobs, waits for them to conclude, and cleans up.
Cancel(i) ==
  /\ jobs' = [jobs EXCEPT ![i] = "none"]
  /\ lists' = [d \in Disks |-> lists[d] \ {i}]
  /\ staging' = [staging EXCEPT ![i] = [d \in Disks |-> "none"]]

\* Commit drops the base list; the copy's own list is the base of the next.
Commit(i) ==
  /\ lists' = [d \in Disks |-> IF made[i].base = 0 THEN lists[d] ELSE lists[d] \ {made[i].base}]
  /\ UNCHANGED <<jobs, staging>>

NoQemu == UNCHANGED <<jobs, lists, staging>>

ProgressMutant(i) == IF jobs[i] = "none" THEN "Lost" ELSE IF jobs[i] = "failed" THEN "failed" ELSE "done"

Progress(i) == IF jobs[i] = "none" THEN "Lost" ELSE jobs[i]

\* samePod: the pod that made the copy still runs.
SamePod(p) == pod # 0 /\ pod = p
-----------------------------------------------------------------------------
(***************************************************************************)
(* The snapshot loop: AdvanceVMSnapshots lists once, then takes one step   *)
(* for every snapshot that needs one, and last releases expired copy sets. *)
(* pass.seen is the listing, kept up to date with the pass's own steps.    *)
(***************************************************************************)
repl == <<rep, repAt, rJob, far>>

\* snapshotNeedsVMStep
NeedsStep(x) == x.exists /\ x.method = "vm" /\ ~x.deleting /\ x.status = "Creating"

CreateSnapshot(s) ==
  /\ s \in load.snaps /\ ~snap[s].exists /\ ~snap[s].deleting
  /\ snap' = [snap EXCEPT ![s].exists = TRUE]
  /\ Calm /\ NoQemu /\ UNCHANGED <<load, pod, moving, made, sJob, folder, pass, repl>>

AdvanceVMSnapshots ==
  /\ ~pass.on
  /\ \E s \in Snaps : NeedsStep(snap[s]) \/ (snap[s].exists /\ snap[s].set # 0)
  /\ pass' = [on |-> TRUE, todo |-> {s \in Snaps : NeedsStep(snap[s])}, seen |-> snap,
              claimed |-> {<<snap[s].copyID, DiskOf[s]>> : s \in {t \in Snaps : snap[t].copyID # 0}},
              at |-> Nobody]
  /\ Calm /\ NoQemu /\ UNCHANGED <<load, pod, moving, made, snap, sJob, folder, repl>>

\* The end of advanceVMSnapshot: x is the Snapshot as the step left it.
Stepped(s, x) == [pass EXCEPT !.todo = @ \ {s}, !.seen[s] = x, !.at = Nobody]

\* A step that ends by saving x; saveSnapshotStatus only logs a failed save.
SaveStatus(s, x) ==
  /\ pass' = Stepped(s, x)
  /\ \/ snap' = [snap EXCEPT ![s] = x] /\ Calm
     \/ UNCHANGED snap /\ LoseSave

\* waitVMSnapshot changes the message only.
Wait(s) == pass' = Stepped(s, snap[s]) /\ UNCHANGED snap

vmSnapshotTryFailed(x) ==
  [x EXCEPT !.copy = 0, !.phase = "none", !.leader = Nobody, !.copyID = 0,
            !.tries = @ + 1, !.status = IF x.tries + 1 >= Attempts THEN "Failed" ELSE @]

\* joinableCopySet, on what this pass has seen.
Joinable(s, l) ==
  LET x == pass.seen[l] IN
    /\ l # s /\ x.exists /\ ~x.deleting
    /\ x.set # 0 /\ x.setPod = pod /\ x.open
    /\ <<x.set, DiskOf[s]>> \notin pass.claimed
    /\ \/ x.copy = x.set
       \/ x.copy = 0 /\ x.status = "Ready" /\ x.copyID = x.set


joinVMCopySet(s, l) ==
  LET x == pass.seen[l]
      y == [snap[s] EXCEPT !.copy = x.set, !.leader = l, !.pod = x.setPod, !.copyID = x.set,
                           !.phase = IF x.copy # 0 /\ x.phase = "Copying" THEN "Copying" ELSE "Sending"]
  IN /\ \/ snap' = [snap EXCEPT ![s] = y] /\ Calm
           /\ pass' = [Stepped(s, y) EXCEPT !.claimed = @ \union {<<x.set, DiskOf[s]>>}]
        \/ UNCHANGED snap /\ LoseSave /\ pass' = Stepped(s, y)

\* startVMSnapshotCopy up to and including CleanStaleCopies.
StartSnapshot(s) ==
  /\ pass.on /\ pass.at = Nobody /\ s \in pass.todo
  /\ NeedsStep(snap[s]) /\ snap[s].copy = 0
  /\ \/ /\ pod = 0
        /\ snap' = [snap EXCEPT ![s].method = "file"]
        /\ pass' = Stepped(s, snap'[s])
        /\ Calm /\ NoQemu
     \/ pod # 0 /\ moving /\ Wait(s) /\ Calm /\ NoQemu
     \/ /\ pod # 0 /\ ~moving
        /\ \E l \in Snaps : Joinable(s, l) /\ joinVMCopySet(s, l)
        /\ NoQemu
     \/ /\ pod # 0 /\ ~moving
        /\ ~\E l \in Snaps : Joinable(s, l)
        /\ \/ \E o \in Snaps \ {s} : pass.seen[o].copy # 0
           \/ Busy
        /\ Wait(s) /\ Calm /\ NoQemu
     \/ /\ pod # 0 /\ ~moving /\ ~Busy
        /\ ~\E l \in Snaps : Joinable(s, l)
        /\ ~\E o \in Snaps \ {s} : pass.seen[o].copy # 0
        /\ RemoveStale("snap", 0)
        /\ pass' = [pass EXCEPT !.at = s]
        /\ Calm /\ UNCHANGED snap
  /\ UNCHANGED <<load, pod, moving, made, sJob, folder, repl>>

\* The Snapshot with the copy that Start began.
WithCopy(x) ==
  [x EXCEPT !.copy = NewId, !.phase = "Copying", !.leader = Nobody, !.pod = pod,
            !.copyID = NewId, !.set = IF Cardinality(Disks) > 1 THEN NewId ELSE 0,
            !.setPod = pod, !.open = TRUE]

\* The rest of startVMSnapshotCopy: Start, then record the copy.  A copy that
\* cannot be recorded is cancelled, but the rest of the pass still sees it.
BeginSnapshot(s) ==
  /\ pass.at = s
  /\ \/ /\ pod # 0
        /\ Start("snap", 0)
        /\ snap' = [snap EXCEPT ![s] = WithCopy(@)]
        /\ pass' = [Stepped(s, snap'[s]) EXCEPT !.claimed = @ \union {<<NewId, DiskOf[s]>>}]
        /\ Calm
     \/ /\ pod # 0 /\ LoseSave
        /\ made' = [made EXCEPT ![NewId] = [by |-> "snap", base |-> 0]]
        /\ NoQemu /\ UNCHANGED snap /\ pass' = Stepped(s, WithCopy(snap[s]))
     \/ /\ pod = 0
        /\ SaveStatus(s, vmSnapshotTryFailed(snap[s]))
        /\ NoQemu /\ UNCHANGED made
  /\ UNCHANGED <<load, pod, moving, sJob, folder, repl>>

\* ApplyVMDisk starts the Job of the Snapshot, unless a Job of that name is there.
ApplyVMDisk(j, i) == IF j.state = "none" THEN [NoJob EXCEPT !.state = "running", !.copy = i] ELSE j

\* watchVMSnapshotCopy, for the Snapshot that owns the copy.
WatchCopy(s) ==
  LET x == snap[s] IN
  /\ pass.on /\ pass.at = Nobody /\ s \in pass.todo
  /\ NeedsStep(x) /\ x.copy # 0 /\ x.phase = "Copying" /\ x.leader = Nobody
  /\ \/ /\ ~SamePod(x.pod)
        /\ SaveStatus(s, [vmSnapshotTryFailed(x) EXCEPT !.set = 0]) /\ NoQemu
     \/ /\ SamePod(x.pod) /\ moving
        /\ Cancel(x.copy)
        /\ SaveStatus(s, [vmSnapshotTryFailed(x) EXCEPT !.set = 0])
     \/ /\ SamePod(x.pod) /\ ~moving /\ Progress(x.copy) = "running"
        /\ Wait(s) /\ Calm /\ NoQemu
     \/ /\ SamePod(x.pod) /\ ~moving /\ Progress(x.copy) \in {"Lost", "failed"}
        /\ Finish({x.copy} \X Disks, TRUE)
        /\ SaveStatus(s, [vmSnapshotTryFailed(x) EXCEPT !.set = 0])
     \/ /\ SamePod(x.pod) /\ ~moving /\ Progress(x.copy) = "done"
        /\ Finish({x.copy} \X Disks, FALSE)
        /\ SaveStatus(s, [x EXCEPT !.phase = "Sending"])
  /\ sJob' = [sJob EXCEPT ![s] =
       IF SamePod(x.pod) /\ ~moving /\ Progress(x.copy) = "done" THEN ApplyVMDisk(@, x.copy) ELSE @]
  /\ UNCHANGED <<load, pod, moving, made, folder, repl>>

\* watchJoinedVMSnapshot follows the owner of the copy.
watchJoined(x, l) ==
  CASE ~l.exists -> vmSnapshotTryFailed(x)
    [] l.exists /\ l.copy = x.copy /\ l.phase = "Copying" -> x
    [] l.exists /\ (\/ l.copy = x.copy /\ l.phase # "Copying"
                    \/ l.copy = 0 /\ l.status = "Ready" /\ l.copyID = x.copy)
         -> [x EXCEPT !.phase = "Sending"]
    [] OTHER -> vmSnapshotTryFailed(x)

WatchJoined(s) ==
  LET x == snap[s] IN
  /\ pass.on /\ pass.at = Nobody /\ s \in pass.todo
  /\ NeedsStep(x) /\ x.copy # 0 /\ x.phase = "Copying" /\ x.leader # Nobody
  /\ LET y == IF ~snap[x.leader].exists /\ pass.seen[x.leader].exists THEN x
             ELSE watchJoined(x, snap[x.leader])
     IN /\ IF y = x THEN Wait(s) /\ Calm ELSE SaveStatus(s, y)
        /\ sJob' = [sJob EXCEPT ![s] = IF y.phase = "Sending" THEN ApplyVMDisk(@, x.copy) ELSE @]
  /\ NoQemu /\ UNCHANGED <<load, pod, moving, made, folder, repl>>

\* watchVMSnapshotApply: start the Job again, or read how it ended.  Reading
\* the end removes the Job (runMessages).
WatchApply(s) ==
  LET x == snap[s]
      j == sJob[s]
      release == IF SamePod(x.pod) THEN Finish({<<x.copy, DiskOf[s]>>}, TRUE) ELSE NoQemu
  IN
  /\ pass.on /\ pass.at = Nobody /\ s \in pass.todo
  /\ NeedsStep(x) /\ x.copy # 0 /\ x.phase = "Sending"
  /\ \/ /\ j.state \in {"none", "running"}
        /\ sJob' = [sJob EXCEPT ![s] = ApplyVMDisk(j, x.copy)]
        /\ Wait(s) /\ Calm /\ NoQemu
     \/ /\ j.state = "failed"
        /\ sJob' = [sJob EXCEPT ![s] = NoJob]
        /\ release
        /\ SaveStatus(s, vmSnapshotTryFailed(x))
     \/ /\ j.state = "ok"
        /\ sJob' = [sJob EXCEPT ![s] = NoJob]
        /\ release
        /\ SaveStatus(s, [x EXCEPT !.status = "Ready", !.copy = 0, !.phase = "none", !.leader = Nobody])
  /\ UNCHANGED <<load, pod, moving, made, folder, repl>>

\* A Snapshot that the fresh read shows needs no step any more.
SkipSnapshot(s) ==
  /\ pass.on /\ pass.at = Nobody /\ s \in pass.todo /\ ~NeedsStep(snap[s])
  /\ pass' = [pass EXCEPT !.todo = @ \ {s}]
  /\ Calm /\ NoQemu /\ UNCHANGED <<load, pod, moving, made, snap, sJob, folder, repl>>

\* The disks of copy i that no Snapshot but the one given has claimed.
Unclaimed(i, except) ==
  {i} \X {d \in Disks : ~\E s \in Snaps \ except : snap[s].exists /\ snap[s].copyID = i /\ DiskOf[s] = d}


\* releaseExpiredCopySets ends the pass.
ReleaseExpired ==
  /\ pass.on /\ pass.at = Nobody /\ pass.todo = {}
  /\ pass' = NoPass
  /\ LET due == {s \in Snaps : /\ pass.seen[s].set # 0
                               /\ snap[s].exists /\ ~snap[s].deleting
                               /\ snap[s].set # 0 /\ ~snap[s].open /\ snap[s].phase # "Copying"}
     IN \/ due = {} /\ NoQemu /\ UNCHANGED snap
        \/ \E s \in due :
             /\ IF SamePod(snap[s].setPod) THEN Finish(Unclaimed(snap[s].set, {}), TRUE) ELSE NoQemu
             /\ snap' = [snap EXCEPT ![s].set = 0]
  /\ Calm /\ UNCHANGED <<load, pod, moving, made, sJob, folder, repl>>

\* The time to join the set has passed (vmCopyJoinWindow).
JoinWindowEnds(s) ==
  /\ snap[s].set # 0 /\ snap[s].open
  /\ snap' = [snap EXCEPT ![s].open = FALSE]
  /\ Calm /\ NoQemu /\ UNCHANGED <<load, pod, moving, made, sJob, folder, pass, repl>>

\* cancelVMSnapshotForDelete, which needs vmMu: no step of the loop is running.
cancelVMSnapshotForDelete(s) ==
  LET x == snap[s] IN
  /\ x.exists /\ s \in load.doomed /\ pass.at = Nobody
  /\ ~x.deleting \/ x.copy # 0 \/ x.set # 0
  /\ LET own == IF x.copy # 0 /\ SamePod(x.pod) /\ x.phase = "Sending" THEN {<<x.copy, DiskOf[s]>>} ELSE {}
         rest == IF x.set # 0 /\ x.phase # "Copying" /\ SamePod(x.setPod) THEN Unclaimed(x.set, {s}) ELSE {}
     IN IF x.copy # 0 /\ SamePod(x.pod) /\ x.phase = "Copying" /\ x.leader = Nobody
        THEN Cancel(x.copy)
        ELSE Finish(own \union rest, TRUE)
  /\ snap' = [snap EXCEPT ![s].deleting = TRUE, ![s].copy = 0, ![s].phase = "none",
                          ![s].leader = Nobody, ![s].set = 0]
  /\ Calm /\ UNCHANGED <<load, pod, moving, made, sJob, folder, pass, repl>>

\* The rest of DeleteSnapshot: stop the Job, remove the folder, then the record.
DeleteSnapshot(s) ==
  /\ snap[s].exists /\ snap[s].deleting /\ snap[s].copy = 0 /\ snap[s].set = 0
  /\ sJob' = [sJob EXCEPT ![s] = NoJob]
  /\ folder' = [folder EXCEPT ![s] = 0]
  /\ snap' = [snap EXCEPT ![s] = [NoSnapshot EXCEPT !.deleting = TRUE]]
  /\ Calm /\ NoQemu /\ UNCHANGED <<load, pod, moving, made, pass, repl>>

\* The apply Job: the init container empties the folder when there is a staging
\* file; the main one leaves a finished disk alone when there is none.  A Job
\* fails when every one of its pods failed before the disk got its name.
RunApply(s) ==
  LET j == sJob[s]
      f == staging[j.copy][DiskOf[s]]
  IN
  /\ j.state = "running"
  /\ \/ /\ f # "none"
        /\ folder' = [folder EXCEPT ![s] = IF f = "whole" THEN j.copy ELSE Bad]
        /\ staging' = [staging EXCEPT ![j.copy][DiskOf[s]] = "none"]
        /\ sJob' = [sJob EXCEPT ![s].state = "ok"] /\ Calm
     \/ /\ f = "none"
        /\ sJob' = [sJob EXCEPT ![s].state = IF folder[s] # 0 THEN "ok" ELSE "failed"]
        /\ Calm /\ UNCHANGED <<folder, staging>>
     \/ /\ f # "none" /\ Disturb
        /\ folder' = [folder EXCEPT ![s] = 0]
        /\ sJob' = [sJob EXCEPT ![s].state = "failed"]
        /\ UNCHANGED staging
  /\ UNCHANGED <<load, pod, moving, qemu, made, snap, pass, repl>>
-----------------------------------------------------------------------------
(***************************************************************************)
(* Replication: processVMVolumes starts a copy of the VM's disks or moves  *)
(* the copy in progress forward.  The policy's status is saved at the end  *)
(* of the cycle; a save that fails, or a controller that stops before it,  *)
(* leaves the status as it was.                                            *)
(***************************************************************************)
snapSide == <<snap, sJob, folder, pass>>

\* One member stands for the group: the disks of one VM share a copy.
Copy == CHOOSE i \in {rep[d].copy : d \in Disks} : TRUE

SaveRep(r) ==
  \/ rep' = r /\ Calm
  \/ UNCHANGED rep /\ Disturb

\* The change list of the last good copy, if all disks share it.
CommonList == IF \A c, d \in Disks : rep[c].list = rep[d].list
              THEN CHOOSE i \in {rep[d].list : d \in Disks} : TRUE ELSE 0

\* startVMCopy up to and including RemoveStale.
startVMCopy ==
  /\ repAt = "idle" /\ Copy = 0 /\ pod # 0 /\ ~moving /\ ~Busy
  /\ Cardinality({i \in Ids : made[i].by = "repl"}) < load.copies
  /\ RemoveStale("repl", CommonList)
  /\ repAt' = "clean"
  /\ Calm /\ UNCHANGED <<load, pod, moving, made, rep, rJob, far, snapSide>>

\* The rest of startVMCopy.
BeginCopy ==
  /\ repAt = "clean"
  /\ repAt' = "idle"
  /\ \/ /\ pod # 0
        /\ Start("repl", CommonList)
        /\ SaveRep([d \in Disks |-> [rep[d] EXCEPT !.copy = NewId, !.phase = "Copying", !.pod = pod]])
     \/ pod = 0 /\ NoQemu /\ Calm /\ UNCHANGED <<made, rep>>
  /\ UNCHANGED <<load, pod, moving, rJob, far, snapSide>>

\* vmStatus: the copy is over, the last good one stays on record.
vmStatus(d) == [rep[d] EXCEPT !.copy = 0, !.phase = "none"]

\* vmCopyJobFlags: where the copy starts from and whether it is the whole disk.
vmCopyJobFlags(d, i) ==
  [NoJob EXCEPT !.copy = i, !.from = rep[d].moment,
                !.full = made[i].base = 0 \/ rep[d].moment = 0]

\* createVMApplyResources: nothing if the Job is there.
createVMApplyResources(d, i) ==
  IF rJob[d].state # "none" THEN rJob[d] ELSE [vmCopyJobFlags(d, i) EXCEPT !.state = "running"]

\* advanceVMCopy while QEMU copies.
AdvanceCopying ==
  LET i == Copy
      p == rep[CHOOSE d \in Disks : TRUE]
      over == [d \in Disks |-> vmStatus(d)]
  IN
  /\ repAt = "idle" /\ i # 0 /\ p.phase = "Copying"
  /\ \/ ~SamePod(p.pod) /\ SaveRep(over) /\ NoQemu /\ UNCHANGED rJob
     \/ SamePod(p.pod) /\ moving /\ Cancel(i) /\ SaveRep(over) /\ UNCHANGED rJob
     \/ /\ SamePod(p.pod) /\ ~moving /\ Progress(i) \in {"failed", "Lost"}
        /\ Finish({i} \X Disks, TRUE) /\ SaveRep(over) /\ UNCHANGED rJob
     \/ /\ SamePod(p.pod) /\ ~moving /\ Progress(i) = "done"
        /\ Finish({i} \X Disks, FALSE)
        /\ rJob' = [d \in Disks |-> createVMApplyResources(d, i)]
        /\ SaveRep([d \in Disks |-> [rep[d] EXCEPT !.phase = "Sending"]])
  /\ UNCHANGED <<load, pod, moving, made, repAt, far, snapSide>>

AllHoldMutant(failed) == failed # Disks

\* Every disk of the VM holds the copy.
AllHold(failed) == failed = {}

\* The change list to go on from once every Job has ended.
NextList(i, p, failed, wrongBase) ==
  IF wrongBase # {} \/ ~SamePod(p.pod) THEN 0
  ELSE IF AllHold(failed) THEN i ELSE p.list

\* advanceVMCopy once the Jobs send.  A Job that is gone before its result was
\* read is made again.
AdvanceSending ==
  LET i == Copy
      p == rep[CHOOSE d \in Disks : TRUE]
      wrongBase == {d \in Disks : rJob[d].state = "ok" /\ rJob[d].wrongBase}
      failed == {d \in Disks : rJob[d].state = "failed"} \union wrongBase
  IN
  /\ repAt = "idle" /\ i # 0 /\ p.phase = "Sending"
  /\ \/ /\ \E d \in Disks : rJob[d].state = "none"
        /\ rJob' = [d \in Disks |-> createVMApplyResources(d, i)]
        /\ NoQemu /\ Calm /\ UNCHANGED rep
     \/ /\ \A d \in Disks : rJob[d].state \in {"ok", "failed"}
        /\ IF ~SamePod(p.pod) THEN NoQemu
           ELSE IF AllHold(failed) THEN Commit(i) ELSE Finish({i} \X Disks, TRUE)
        /\ rJob' = [d \in Disks |-> NoJob]
        /\ SaveRep([d \in Disks |->
             [vmStatus(d) EXCEPT !.list = NextList(i, p, failed, wrongBase),
                                 !.moment = IF d \in failed THEN @ ELSE i]])
  /\ UNCHANGED <<load, pod, moving, made, repAt, far, snapSide>>

\* A change copy on a disk at moment m is right when its list began no later.
Lands(j, d) ==
  [names |-> j.copy,
   holds |-> IF \/ staging[j.copy][d] # "whole"
                \/ made[j.copy].base # 0 /\ ~(far[d].holds >= made[j.copy].base)
             THEN Bad ELSE j.copy]

\* The Job of one disk ends; the commit itself is atomic at the far site.
RepJobEnds(d, withoutStaging) ==
  LET j == rJob[d] IN
  /\ j.state = "running"
  /\ \/ /\ staging[j.copy][d] = "none"
        /\ rJob' = [rJob EXCEPT ![d].state = IF withoutStaging THEN "ok" ELSE "failed"]
        /\ Calm /\ UNCHANGED <<far, staging>>
     \/ /\ staging[j.copy][d] # "none" /\ ~j.full /\ far[d].names \notin {j.from, j.copy}
        /\ rJob' = [rJob EXCEPT ![d].state = "ok", ![d].wrongBase = TRUE]
        /\ Calm /\ UNCHANGED <<far, staging>>
     \/ /\ staging[j.copy][d] # "none" /\ (j.full \/ far[d].names \in {j.from, j.copy})
        /\ far' = [far EXCEPT ![d] = IF @.names = j.copy THEN @ ELSE Lands(j, d)]
        /\ staging' = [staging EXCEPT ![j.copy][d] = "none"]
        /\ \/ rJob' = [rJob EXCEPT ![d].state = "ok"] /\ Calm
           \/ rJob' = [rJob EXCEPT ![d].state = "failed"] /\ Disturb
     \/ /\ rJob' = [rJob EXCEPT ![d].state = "failed"]
        /\ Disturb /\ UNCHANGED <<far, staging>>
  /\ UNCHANGED <<load, pod, moving, qemu, made, rep, repAt, snapSide>>

\* The Job that ensureVMApplyJob makes sees that the disk already shows the copy;
\* the one that ensureVMSendJob makes cannot start without a staging file.
ensureVMApplyJob(d) == load.mode = "direct" /\ RepJobEnds(d, far[d].names = rJob[d].copy)
ensureVMSendJob(d) == load.mode = "receiver" /\ RepJobEnds(d, FALSE)

\* A finished Job expires (TTLSecondsAfterFinished) or is deleted unread.
RepJobExpires(d) ==
  /\ rJob[d].state \in {"ok", "failed"} /\ Disturb
  /\ rJob' = [rJob EXCEPT ![d] = NoJob]
  /\ NoQemu /\ UNCHANGED <<load, pod, moving, made, rep, repAt, far, snapSide>>
-----------------------------------------------------------------------------
(***************************************************************************)
(* The VM and the controller.                                              *)
(***************************************************************************)
CopyEnds(i) ==
  /\ jobs[i] = "running"
  /\ \/ /\ jobs' = [jobs EXCEPT ![i] = "done"] /\ Calm
        /\ staging' = [staging EXCEPT ![i] = [d \in Disks |-> "whole"]]
     \/ /\ jobs' = [jobs EXCEPT ![i] = "failed"] /\ Disturb /\ UNCHANGED staging
  /\ UNCHANGED <<load, pod, moving, lists, made, snapSide, repl>>

\* A new pod, after a restart or a finished move, or no pod: QEMU's state is gone.
PodChanges(p) ==
  /\ pod' = p
  /\ jobs' = [i \in Ids |-> "none"]
  /\ lists' = [d \in Disks |-> {}]
  /\ moving' = FALSE
  /\ UNCHANGED <<load, staging, made, snapSide, repl>>

VMRestarts == pod # 0 /\ Disturb /\ PodChanges(pod + 1)
VMStops == pod # 0 /\ Disturb /\ PodChanges(0)
MoveBegins == /\ pod # 0 /\ ~moving /\ Disturb /\ moving' = TRUE
              /\ NoQemu /\ UNCHANGED <<load, pod, made, snapSide, repl>>
MoveEnds == moving /\ Calm /\ (PodChanges(pod + 1) \/ /\ moving' = FALSE /\ NoQemu
                                                      /\ UNCHANGED <<load, pod, made, snapSide, repl>>)

\* The controller stops.  What it had started and not recorded stays in QEMU.
ControllerRestarts ==
  /\ pass.on \/ repAt # "idle"
  /\ Disturb
  /\ pass' = NoPass /\ repAt' = "idle"
  /\ \/ NoQemu /\ UNCHANGED made
     \/ pass.at # Nobody /\ pod # 0 /\ Start("snap", 0)
     \/ repAt = "clean" /\ pod # 0 /\ Start("repl", CommonList)
  /\ UNCHANGED <<load, pod, moving, snap, sJob, folder, rep, rJob, far>>

Loop == \/ AdvanceVMSnapshots \/ ReleaseExpired
        \/ \E s \in Snaps : \/ StartSnapshot(s) \/ BeginSnapshot(s) \/ WatchCopy(s)
                            \/ WatchJoined(s) \/ WatchApply(s) \/ SkipSnapshot(s)
Replicate == startVMCopy \/ BeginCopy \/ AdvanceCopying \/ AdvanceSending
Machines == \/ \E s \in Snaps : RunApply(s)
            \/ \E d \in Disks : ensureVMApplyJob(d) \/ ensureVMSendJob(d)
            \/ \E i \in Ids : CopyEnds(i)
            \/ MoveEnds

Next ==
  \/ Loop
  \/ Replicate
  \/ Machines
  \/ \E s \in Snaps : \/ CreateSnapshot(s) \/ JoinWindowEnds(s)
                      \/ cancelVMSnapshotForDelete(s) \/ DeleteSnapshot(s)
  \/ \E d \in Disks : RepJobExpires(d)
  \/ VMRestarts \/ VMStops \/ MoveBegins \/ ControllerRestarts

Spec == Init /\ [][Next]_vars

\* The loop's timer fires again and again, the replication cycle too; a Job or
\* a QEMU copy that runs comes to an end, and so does a move; a delete that was
\* begun is asked for until it is done.
FairSpec ==
  /\ Spec
  /\ WF_vars(Loop) /\ WF_vars(Replicate) /\ WF_vars(MoveEnds)
  /\ \A s \in Snaps : WF_vars(RunApply(s)) /\ WF_vars(DeleteSnapshot(s))
  /\ \A d \in Disks : WF_vars(ensureVMApplyJob(d) \/ ensureVMSendJob(d))
  /\ \A i \in Ids : WF_vars(CopyEnds(i))
-----------------------------------------------------------------------------
SnapshotSet ==
  [exists : BOOLEAN, method : {"vm", "file"}, deleting : BOOLEAN,
   status : {"Creating", "Ready", "Failed"}, copy : Ids \union {0},
   phase : {"none", "Copying", "Sending"}, leader : Snaps \union {Nobody}, pod : Nat,
   set : Ids \union {0}, setPod : Nat, open : BOOLEAN, copyID : Ids \union {0}, tries : 0..Attempts]
JobSet == [state : {"none", "running", "ok", "failed"}, copy : Ids \union {0},
           from : Ids \union {0}, full : BOOLEAN, wrongBase : BOOLEAN]

\* Types of the state, with the shape of a Snapshot's record of a copy: a phase
\* exactly while there is a copy, and never a copy on a Snapshot that is Ready.
TypeOK ==
  /\ load \in Loads /\ pod \in Nat /\ moving \in BOOLEAN
  /\ jobs \in [Ids -> {"none", "running", "done", "failed"}]
  /\ lists \in [Disks -> SUBSET Ids]
  /\ staging \in [Ids -> [Disks -> {"none", "part", "whole"}]]
  /\ made \in [Ids -> [by : {"none", "snap", "repl"}, base : Ids \union {0}]]
  /\ snap \in [Snaps -> SnapshotSet]
  /\ \A s \in Snaps : /\ snap[s].phase = "none" <=> snap[s].copy = 0
                      /\ snap[s].status # "Creating" => snap[s].copy = 0
  /\ sJob \in [Snaps -> JobSet]
  /\ folder \in [Snaps -> Ids \union {0, Bad}]
  /\ pass.at \in Snaps \union {Nobody} /\ pass.todo \subseteq Snaps
  /\ rep \in [Disks -> [copy : Ids \union {0}, phase : {"none", "Copying", "Sending"}, pod : Nat,
                        list : Ids \union {0}, moment : Ids \union {0}]]
  /\ repAt \in {"idle", "clean"}
  /\ rJob \in [Disks -> JobSet]
  /\ far \in [Disks -> [names : Ids \union {0}, holds : Ids \union {0, Bad}]]
  /\ trouble \in [count : 0..Troubles, lost : BOOLEAN]

\* A Snapshot that is Ready has in its folder the whole disk at the moment its
\* status names (SetCopyRestorePoint in watchVMSnapshotApply), whichever try
\* made it and whoever owned the QEMU copy: failed tries, joined copies, deleted
\* owners and Jobs of an earlier try never leave another moment there, unless a
\* save of a Snapshot's status failed.
ReadyIsWhole ==
  \A s \in Snaps : snap[s].exists /\ snap[s].status = "Ready" /\ ~trouble.lost => folder[s] = snap[s].copyID

\* A Ready Snapshot's folder shows the restore point in its status.
ReadyShowsPoint ==
  \A s \in Snaps : snap[s].exists /\ snap[s].status = "Ready" => folder[s] = snap[s].copyID

\* The far-site disk holds what its moment file names: a change copy is applied
\* only to a disk that shows a moment at or after the one its change list began
\* at, through failed Jobs, lost results, lost status saves and VM restarts.
FarExact == \A d \in Disks : far[d].holds = far[d].names

\* The snapshot side and the replication side clean up after themselves only
\* (CleanStaleCopies, RemoveStale): a Job that is to read a staging file finds
\* it, until the Job itself has taken it.  (A Snapshot that joined a copy may
\* find none: the owner is being deleted, or an earlier try of its own released
\* the file and it joined the same copy again.  That try fails.)
StagingKept ==
  /\ \A s \in Snaps :
       LET x == snap[s] IN
         x.phase = "Sending" /\ x.leader = Nobody /\ sJob[s].state = "running"
           => staging[x.copy][DiskOf[s]] = "whole" \/ folder[s] = x.copy
  /\ \A d \in Disks :
       rep[d].phase = "Sending" /\ rJob[d].state = "running"
         => staging[rep[d].copy][d] = "whole" \/ far[d].names = rep[d].copy

Recorded(i) == \/ \E s \in Snaps : snap[s].copy = i
               \/ \E d \in Disks : rep[d].copy = i
Leftover == \E i \in Ids : jobs[i] # "none" /\ ~Recorded(i)

SnapshotsOver ==
  \A s \in Snaps : snap[s].exists => \/ snap[s].status \in {"Ready", "Failed"}
                                     \/ snap[s].method = "file" \/ Leftover

\* Every Snapshot of a VM's disk ends: it is Ready, has failed after its tries,
\* has gone to the file copy or is deleted.  It waits for other Snapshots and for
\* replication, joins and leaves copies, and still is never left waiting, but
\* for a VM in which a stopped controller left a copy that nothing records.
SnapshotsEnd == []<>SnapshotsOver

\* A copy that nothing records is cleared from QEMU.
LeftoversCleared ==
  \A i \in Ids : (jobs[i] # "none" /\ ~Recorded(i)) ~> (jobs[i] = "none" \/ Recorded(i))
=============================================================================
