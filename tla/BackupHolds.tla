----------------------------- MODULE BackupHolds -----------------------------
(***************************************************************************)
(* The backup controller (pkg/pool/backup_controller.go, backup_export.go, *)
(* browse_hold.go) on top of the replication controller.  A BackupPolicy   *)
(* makes a ReplicationPolicy of the same name; an export to COS and a      *)
(* browse session or file restore on a VM disk read the copy the           *)
(* replication writes.  Nothing but annotations on the SubVolume and the   *)
(* status of the ReplicationPolicy keeps the two apart.                    *)
(***************************************************************************)
EXTENDS ReplicationCycle

CONSTANTS Picks,      \* the volumes each BackupPolicy's selector picks
          Deletable   \* the BackupPolicies a person may delete

VARIABLES bpols,     \* the BackupPolicies
          exHold,    \* the export hold annotation of each volume
          brHold,    \* the browse hold annotation of each volume
          guest,     \* a session or file restore on each volume's backup
          exJob,     \* the export Job of each policy and volume
          listJob,   \* the Job that builds the file list before it
          exDue,     \* what has a backup newer than its last export
          exActive, exFailed, exListed,  \* exportState, in memory
          bpass,     \* the pass in progress
          slip       \* ghost: volumes where reader and copy missed each other

holdVars == <<exHold, brHold, guest>>
exVars == <<exJob, listJob, exDue>>
stateVars == <<exActive, exFailed, exListed>>
bvars == <<bpols, holdVars, exVars, stateVars, bpass, slip>>
allVars == <<rvars, bvars>>
\* The variables of the replication controller's side that no action of the
\* backup controller's export or session code writes.
quietVars == <<exists, paused, phase, fails, status, sel, chain, memVars, jobVars,
               vm, broken, pass>>
rcVars == <<quietVars, trouble>>

NoHold == [by |-> "none", old |-> FALSE]
NoOne == "none"
NoPass == [at |-> "idle"]
NoExports == [b \in Policies |-> {}]

BInit ==
  /\ RInit
  /\ bpols = Policies
  /\ exHold = [v \in Volumes |-> NoHold] /\ brHold = [v \in Volumes |-> NoOne]
  /\ guest = [v \in Volumes |-> [st |-> NoOne]]
  /\ exJob = [b \in Policies |-> [v \in Volumes |-> "none"]] /\ listJob = exJob
  /\ exDue = NoExports
  /\ exActive = [b \in Policies |-> NoOne]
  /\ exFailed = NoExports /\ exListed = NoExports
  /\ bpass = NoPass /\ slip = {}

\* The annotations as holdReason reads them: an export hold has no limit
\* there, a browse hold has.
Holds(ex, br) == {v \in Volumes : ex[v] # NoHold \/ br[v] = "fresh"}

SetHolds(ex, br) == exHold' = ex /\ brHold' = br /\ held' = Holds(ex, br)

-----------------------------------------------------------------------------
(* BackupPolicies and the ReplicationPolicies they make.                   *)

Owner(v) == {b \in Policies : v \in sel[b]}
resolveTargets(b) == {v \in Picks[b] : Owner(v) \subseteq {b}}

\* The ReplicationPolicy is made or brought in line, its pause annotation
\* included (stop: the policy is suspended, or its share is full); a policy
\* with no target has none.
setPaused(b, yes) == paused' = IF yes THEN paused \union {b} ELSE paused \ {b}
ensureReplicationPolicy(b, stop) ==
  IF resolveTargets(b) = {}
    THEN /\ exists' = exists \ {b} /\ paused' = paused \ {b}
         /\ UNCHANGED <<phase, fails, status>>
    ELSE /\ exists' = exists \union {b} /\ setPaused(b, stop)
         /\ IF b \in exists THEN UNCHANGED <<phase, fails, status>>
            ELSE /\ phase' = [phase EXCEPT ![b] = "Active"]
                 /\ fails' = [fails EXCEPT ![b] = 0]
                 /\ status' = [status EXCEPT ![b] = [v \in Volumes |-> NeverSynced]]

\* The copies the replication controller has reported.
InStatus(b) == {v \in Volumes : status[b][v].err = "sync in progress"}
\* Mutant: only a volume that was never backed up counts as being copied.
volumesBeingCopiedMutant(b) ==
  {v \in Volumes : b \in exists /\ status[b][v] = [synced |-> FALSE, err |-> "sync in progress"]}

volumesBeingCopied(b) ==
  IF b \in exists THEN InStatus(b) ELSE {}
exportDue(b) == exDue[b]

\* reconcile up to the export: label the targets, ensure the ReplicationPolicy,
\* then read which volumes are being copied.
reconcile(b) ==
  /\ bpass = NoPass /\ b \in bpols
  /\ sel' = [sel EXCEPT ![b] = resolveTargets(b)]
  /\ \E stop \in BOOLEAN : ensureReplicationPolicy(b, stop)
  /\ exActive' = [exActive EXCEPT ![b] = IF @ \in exportDue(b) THEN @ ELSE NoOne]
  /\ bpass' = [at |-> "hold", b |-> b, copying |-> volumesBeingCopied(b),
               shown |-> InStatus(b),
               todo |-> SelectSeq(ListOrder, LAMBDA v : v \in exportDue(b))]
  /\ UNCHANGED <<held, chain, memVars, jobVars, vm, broken, pass, trouble, bpols,
                 holdVars, exVars, exFailed, exListed, slip>>

\* reconcile with a snapshot pool that cannot be used: pause what exists.
pauseOwned(b) ==
  /\ bpass = NoPass /\ b \in (bpols \cap exists) \ paused
  /\ setPaused(b, TRUE)
  /\ UNCHANGED <<exists, phase, fails, status, sel, held, chain, memVars, jobVars,
                 vm, broken, pass, trouble, bvars>>

\* A deleted BackupPolicy loses its labels, its ReplicationPolicy and the
\* memory of its exports.
tidyDeleted(b) ==
  /\ bpass = NoPass /\ b \notin bpols
  /\ b \in exists \/ sel[b] # {} \/ exActive[b] # NoOne \/ exListed[b] # {}
  /\ sel' = [sel EXCEPT ![b] = {}]
  /\ exists' = exists \ {b} /\ paused' = paused \ {b}
  /\ exActive' = [exActive EXCEPT ![b] = NoOne]
  /\ exFailed' = [exFailed EXCEPT ![b] = {}]
  /\ exListed' = [exListed EXCEPT ![b] = {}]
  /\ UNCHANGED <<phase, fails, status, held, chain, memVars, jobVars, vm, broken,
                 pass, trouble, bpols, holdVars, exVars, bpass, slip>>

-----------------------------------------------------------------------------
(* reconcileExport: the loop over the due volumes.                         *)

CopyRuns(b, v) == LET j == jobs[replJobName(b, v)] IN j.st = "run" /\ j.of = b
\* The replication pass in progress has listed the volume without a hold.
Unseen(b, v) == pass.at = "volumes" /\ pass.p = b /\ v \in Range(pass.todo)

ExportAt(v, at) == bpass.at = at /\ bpass.todo # <<>> /\ v = Head(bpass.todo)
NextVolume == bpass' = [bpass EXCEPT !.at = "hold", !.todo = Tail(@)]
StopLoop == bpass' = [bpass EXCEPT !.at = "hold", !.todo = <<>>]
Active(b, v) == exActive' = [exActive EXCEPT ![b] = v]
releaseExportHold(b, v) ==
  IF exHold[v].by = b THEN SetHolds([exHold EXCEPT ![v] = NoHold], brHold)
                      ELSE UNCHANGED <<exHold, brHold, held>>

\* Someone reads v after this step or waits to: a session, an export Job until its
\* last pod is gone, a file list Job.
Reads(job) == job \in {"run", "stopping"}
ReadOn(v) == \/ guest[v].st # NoOne
             \/ \E b \in Policies : Reads(exJob'[b][v]) \/ Reads(listJob'[b][v])
\* The hold goes, though a Job of the export may read on.
LetGo(v) == slip' = IF ReadOn(v) THEN slip \union {v} ELSE slip \ {v}

\* Another export runs, this one failed a short time ago, or the volume is not
\* ready: its share is not, or what is being copied is not known; or the hold is
\* another policy's, or a copy of the volume runs (holdWait).
takeExportHoldWaits(v) ==
  \/ exHold[v] # NoHold /\ exHold[v].by # bpass.b
  \/ exHold[v] = NoHold /\ exActive[bpass.b] # v /\ v \in bpass.copying
SkipExport(v) ==
  /\ ExportAt(v, "hold")
  /\ \E ready \in BOOLEAN :
       \/ ~ready \/ takeExportHoldWaits(v)
       \/ exActive[bpass.b] \notin {NoOne, v} \/ v \in exFailed[bpass.b]
  /\ NextVolume
  /\ UNCHANGED <<rcVars, held, bpols, holdVars, exVars, stateVars, slip>>

\* holdTaken: by this export already, or by the patch made now.
takeExportHold(v) ==
  LET b == bpass.b
      fresh == exHold[v] = NoHold
  IN /\ ExportAt(v, "hold")
     /\ exActive[b] \in {NoOne, v} /\ v \notin exFailed[b]
     /\ ~takeExportHoldWaits(v) /\ ~exHold[v].old
     /\ bpass' = [bpass EXCEPT !.at = "run"]
     /\ SetHolds(IF fresh THEN [exHold EXCEPT ![v] = [by |-> b, old |-> FALSE]] ELSE exHold,
                 brHold)
     /\ slip' = IF fresh /\ (Unseen(b, v) \/ (CopyRuns(b, v) /\ v \notin bpass.shown))
                  THEN slip \union {v} ELSE slip
     /\ UNCHANGED <<rcVars, bpols, guest, exVars, stateVars>>

\* An export ends without success: it is tried again later, list included.
ExportFails(b, v) ==
  /\ exFailed' = [exFailed EXCEPT ![b] = @ \union {v}]
  /\ exListed' = [exListed EXCEPT ![b] = @ \ {v}]
  /\ releaseExportHold(b, v) /\ Active(b, NoOne) /\ NextVolume

\* holdExpired: the export Job is asked to stop and the hold released at once,
\* with the Job's pods and a file list Job still there; a Stop that fails is only
\* logged.
ExportExpired(v) ==
  LET b == bpass.b IN
  /\ ExportAt(v, "hold") /\ exActive[b] \in {NoOne, v} /\ v \notin exFailed[b]
  /\ exHold[v].by = b /\ exHold[v].old
  /\ \/ /\ exJob' = [exJob EXCEPT ![b][v] = IF Reads(@) THEN "stopping" ELSE "none"]
        /\ UNCHANGED trouble
     \/ Disturb /\ UNCHANGED exJob
  /\ UNCHANGED listJob /\ ExportFails(b, v) /\ LetGo(v)
  /\ UNCHANGED <<quietVars, bpols, guest, exDue>>

\* The file list of a VM disk comes before its export.  The export goes on when
\* the list Job has ended, well or not, and also when it could not be started
\* or looked at, and may run on.  exListed never has a volume without an active
\* export, so a list is never of an older backup.
fileListDue(b, v) == v \in Machines \ exListed[b]
buildFileList(v) ==
  LET b == bpass.b
      goOn == /\ exListed' = [exListed EXCEPT ![b] = @ \union {v}]
              /\ UNCHANGED <<exActive, bpass>>
  IN
  /\ ExportAt(v, "run") /\ fileListDue(b, v)
  /\ \/ /\ listJob[b][v] # "done"
        /\ listJob' = [listJob EXCEPT ![b][v] = "run"]
        /\ Active(b, v) /\ StopLoop /\ UNCHANGED <<exListed, trouble>>
     \/ listJob[b][v] = "done" /\ listJob' = [listJob EXCEPT ![b][v] = "none"]
          /\ goOn /\ UNCHANGED trouble
     \/ Disturb /\ goOn /\ UNCHANGED listJob
  /\ UNCHANGED <<quietVars, held, bpols, holdVars, exJob, exDue, exFailed, slip>>

\* The Job is started or still there, has ended, or could not be started or
\* looked at: then the hold goes too, and the Job may run on.
ExportToCOS(v) ==
  LET b == bpass.b IN
  /\ ExportAt(v, "run") /\ ~fileListDue(b, v)
  /\ UNCHANGED <<quietVars, bpols, listJob>>
  /\ \/ /\ exJob[b][v] \in {"none", "run", "stopping"}
        /\ exJob' = [exJob EXCEPT ![b][v] = IF @ = "none" THEN "run" ELSE @]
        /\ Active(b, v) /\ StopLoop
        /\ UNCHANGED <<held, holdVars, exDue, exFailed, exListed, slip, trouble>>
     \/ /\ exJob[b][v] = "ok" /\ exJob' = [exJob EXCEPT ![b][v] = "none"]
        /\ exDue' = [exDue EXCEPT ![b] = @ \ {v}]
        /\ exListed' = [exListed EXCEPT ![b] = @ \ {v}]
        /\ releaseExportHold(b, v) /\ Active(b, NoOne) /\ NextVolume
        /\ LetGo(v) /\ UNCHANGED <<exFailed, guest, trouble>>
     \/ /\ \/ exJob[b][v] = "bad" /\ exJob' = [exJob EXCEPT ![b][v] = "none"] /\ UNCHANGED trouble
           \/ Disturb /\ UNCHANGED exJob
        /\ ExportFails(b, v) /\ LetGo(v) /\ UNCHANGED <<exDue, guest>>

\* The end of reconcileExport: no hold of the policy stays but the active one.
\* After a restart the controller has forgotten which one that is; a Job it did
\* not look at in this pass loses its hold.
releaseStaleExportHolds ==
  LET b == bpass.b IN
  /\ bpass.at = "hold" /\ bpass.todo = <<>>
  /\ SetHolds([v \in Volumes |-> IF exHold[v].by = b /\ v # exActive[b]
                                   THEN NoHold ELSE exHold[v]], brHold)
  /\ bpass' = NoPass
  /\ slip' = slip \union {v \in Volumes : exHold[v].by = b /\ v # exActive[b]
                            /\ (Reads(exJob[b][v]) \/ Reads(listJob[b][v]))}
  /\ UNCHANGED <<rcVars, bpols, guest, exVars, stateVars>>

-----------------------------------------------------------------------------
(* A browse session or a file restore on a VM disk: hold first, then look  *)
(* whether a copy runs (holdForGuest), and sweep the hold when it is over. *)

addBrowseHold(v, b) ==
  /\ guest[v].st = NoOne /\ b \in bpols /\ status[b][v].synced
  /\ guest' = [guest EXCEPT ![v] = [st |-> "waiting", of |-> b]]
  /\ SetHolds(exHold, [brHold EXCEPT ![v] = "fresh"])
  /\ slip' = IF Unseen(b, v) THEN slip \union {v} ELSE slip
  /\ UNCHANGED <<rcVars, bpols, exVars, stateVars, bpass>>
holdForGuest(v) ==
  LET b == guest[v].of IN
  /\ guest[v].st = "waiting" /\ b \in bpols /\ v \notin volumesBeingCopied(b)
  /\ guest' = [guest EXCEPT ![v].st = "reading"]
  /\ slip' = IF CopyRuns(b, v) /\ v \notin InStatus(b) THEN slip \union {v} ELSE slip
  /\ UNCHANGED <<rcVars, held, bpols, exHold, brHold, exVars, stateVars, bpass>>
GuestEnds(v) ==
  /\ guest[v].st # NoOne /\ guest' = [guest EXCEPT ![v] = [st |-> NoOne]]
  /\ UNCHANGED <<rcVars, held, bpols, exHold, brHold, exVars, stateVars, bpass, slip>>
sweepBrowseHolds(v) ==
  /\ brHold[v] # NoOne /\ guest[v].st = NoOne
  /\ SetHolds(exHold, [brHold EXCEPT ![v] = NoOne])
  /\ UNCHANGED <<rcVars, bpols, guest, exVars, stateVars, bpass, slip>>

-----------------------------------------------------------------------------
(* Around the backup controller.                                           *)

\* A newer backup of the volume is there to export, or the schedule came round.
ExportFallsDue(b, v) ==
  /\ b \in bpols /\ status[b][v].synced /\ v \notin exDue[b]
  /\ exDue' = [exDue EXCEPT ![b] = @ \union {v}]
  /\ UNCHANGED <<rcVars, held, bpols, holdVars, exJob, listJob, stateVars, bpass, slip>>
ExportJobEnds(b, v) ==
  /\ \/ /\ \/ exJob[b][v] = "stopping" /\ exJob' = [exJob EXCEPT ![b][v] = "none"]
           \/ exJob[b][v] = "run" /\ \E r \in {"ok", "bad"} : exJob' = [exJob EXCEPT ![b][v] = r]
        /\ UNCHANGED listJob
     \/ /\ listJob[b][v] = "run" /\ listJob' = [listJob EXCEPT ![b][v] = "done"]
        /\ UNCHANGED exJob
  /\ UNCHANGED <<rcVars, held, bpols, holdVars, exDue, stateVars, bpass, slip>>
ExportHoldAges(v) ==
  /\ exHold[v] # NoHold /\ ~exHold[v].old
  /\ exHold' = [exHold EXCEPT ![v].old = TRUE]
  /\ UNCHANGED <<rcVars, held, bpols, brHold, guest, exVars, stateVars, bpass, slip>>
\* A session lives 2 hours and a file restore 2:45 at most, so a hold reaches
\* its limit of 3 hours only when nothing reads under it any more.
BrowseHoldAges(v) ==
  /\ brHold[v] = "fresh" /\ guest[v].st = NoOne
  /\ SetHolds(exHold, [brHold EXCEPT ![v] = "old"])
  /\ UNCHANGED <<rcVars, bpols, guest, exVars, stateVars, bpass, slip>>
RetryDelayPasses(b, v) ==
  /\ v \in exFailed[b] /\ exFailed' = [exFailed EXCEPT ![b] = @ \ {v}]
  /\ UNCHANGED <<rcVars, held, bpols, holdVars, exVars, exActive, exListed, bpass, slip>>
DeleteBackupPolicy(b) ==
  /\ Disturb /\ b \in bpols \cap Deletable /\ bpols' = bpols \ {b}
  /\ UNCHANGED <<quietVars, held, holdVars, exVars, stateVars, bpass, slip>>
\* Both controllers are in one process.
BRestart ==
  /\ Restart /\ bpass' = NoPass
  /\ exActive' = [b \in Policies |-> NoOne]
  /\ exFailed' = NoExports /\ exListed' = NoExports
  /\ UNCHANGED <<bpols, holdVars, exVars, slip>>

-----------------------------------------------------------------------------
ExportLoop == \/ \E v \in Volumes : \/ SkipExport(v) \/ takeExportHold(v) \/ ExportExpired(v)
                                    \/ buildFileList(v) \/ ExportToCOS(v)
              \/ releaseStaleExportHolds
Backup == (\E b \in Policies : reconcile(b) \/ pauseOwned(b) \/ tidyDeleted(b)) \/ ExportLoop
Guest == \E v \in Volumes : \/ \E b \in Policies : addBrowseHold(v, b)
                            \/ holdForGuest(v) \/ GuestEnds(v) \/ sweepBrowseHolds(v)
AroundBackup ==
  \/ \E v \in Volumes : ExportHoldAges(v) \/ BrowseHoldAges(v)
  \/ \E b \in Policies : DeleteBackupPolicy(b)
  \/ \E b \in Policies, v \in Volumes :
       ExportFallsDue(b, v) \/ ExportJobEnds(b, v) \/ RetryDelayPasses(b, v)
  \/ BRestart
\* The volumes are not used by a running VM here, and policies are made,
\* changed and deleted only through their BackupPolicy.
Replication ==
  \/ Controller
  \/ \E p \in Policies : ScheduleDue(p)
  \/ \E n \in Names : JobEnds(n)
BNext == Backup \/ Guest \/ AroundBackup \/ (Replication /\ UNCHANGED bvars)
BSpec == BInit /\ [][BNext]_allVars

-----------------------------------------------------------------------------
BTypeOK ==
  /\ bpols \subseteq Policies
  /\ held = Holds(exHold, brHold)
  /\ \A v \in Volumes : exHold[v] = NoHold \/ exHold[v].by \in Policies
  /\ exActive \in [Policies -> Volumes \union {NoOne}]

\* The copy of volume v at b's destination is written and read at once.
Overlap(b, v) == /\ CopyRuns(b, v)
                 /\ \/ Reads(exJob[b][v]) \/ Reads(listJob[b][v])
                    \/ guest[v].st = "reading" /\ guest[v].of = b

\* An export or a session reads a copy that replication writes only if the two
\* sides missed each other: the hold came after the replication pass had listed
\* the volumes, the copy Job was not yet in the policy's status, or the hold
\* was let go while a Job of the export read on.
OverlapOnlyUnseen == \A b \in Policies, v \in Volumes : Overlap(b, v) => v \in slip

\* docs/BACKUP-RECOVERY.md: "While the export of a volume runs, the next local
\* backup of that volume waits [...], so the export never reads a disk that
\* changes under it".
ReadsStill == \A b \in Policies, v \in Volumes : ~Overlap(b, v)
=============================================================================
