------------------------------- MODULE Restores -------------------------------
(***************************************************************************)
(* Restores from a backup (pkg/pool/backup_restore.go,                     *)
(* backup_restore_cos.go, backup_filerestore.go, backup_filerestore_cos.go)*)
(* together with what keeps pods away from a half filled volume: the CSI   *)
(* controller's CreateVolume, the restore-pending label of the SubVolume   *)
(* and the node plugin's NodePublishVolume.                                *)
(*                                                                         *)
(* A request is a BackupRestore ("backup", or "cos" when it reads COS) or a*)
(* BackupFileRestore that makes a claim ("file", or "guest" when it reads a*)
(* VM disk in COS through a disk server) or writes a new folder into a     *)
(* claim that exists ("into").  "file" and "into" may read the local copy  *)
(* of a VM disk, which is held for them for a limited time.                *)
(***************************************************************************)
EXTENDS Naturals, FiniteSets, SequencesExt

CONSTANTS Requests, Claims,
          Scenarios,     \* what the requests are: records [kind, target]
          MaxRunning,    \* FileRestoreConfig.MaxRunning
          Lives,         \* bound: how often one name is made
          Troubles       \* bound: restarts, failing calls and acts of people

VARIABLES
  kind, target,  \* the spec of each request; fixed
  req,       \* the requests: phase, life (UID), what the status remembers
  queue,     \* the requests in the order they were made
  policy,    \* does the BackupPolicy exist?
  claim,     \* the claims and who made them
  label,     \* claims whose SubVolume has the restore-pending label
  data,      \* what the volume's folder holds
  job,       \* the Jobs, by key
  disk,      \* the disk server of a restore from a VM disk in COS
  pub,       \* a pod's mount of each claim
  blind,     \* ghost: claims whose hold-back a failed or stale read missed
  pass,      \* what the controller has read and not yet saved
  trouble    \* how many disturbances there were

vars == <<kind, target, req, queue, policy, claim, label, data, job, disk, pub,
          blind, pass, trouble>>
specVars == <<kind, target>>
podVars == <<pub, blind>>

Idle == [at |-> "idle"]
Ended == {"Done", "Failed"}
NoClaim == [st |-> "none", by |-> "nobody", life |-> 0, gen |-> 0]
NoRequest == [st |-> "none", life |-> 0, has |-> {}, pin |-> 0]
Disturb == trouble < Troubles /\ trouble' = trouble + 1

Files == {"file", "guest", "into"}    \* BackupFileRestores
New == {"backup", "cos", "file", "guest"}  \* those that make a claim
\* The Jobs of a BackupRestore are named by its name, those of a
\* BackupFileRestore by its UID, which also owns them.
fileRestoreKey(r) == IF kind[r] \in Files THEN req[r].life ELSE 0
Key(r, step) == <<r, step, fileRestoreKey(r)>>
Keys == Requests \X {"measure", "fetch", "copy", "clean"} \X (0..Lives)
\* A claim is made: by whom, the UID its annotation names, and its own UID.
Made(c, who, uid) == [st |-> "made", by |-> who, life |-> uid, gen |-> claim[c].gen + 1]
NoJob == [st |-> "none", on |-> 0]

Init ==
  /\ \E s \in Scenarios : kind = s.kind /\ target = s.target
  /\ req = [r \in Requests |-> NoRequest] /\ queue = <<>> /\ policy = TRUE
  /\ claim = [c \in Claims |-> NoClaim] /\ label = {}
  /\ data = [c \in Claims |-> "none"]
  /\ job = [k \in Keys |-> NoJob] /\ disk = [r \in Requests |-> "none"]
  /\ pub = [c \in Claims |-> "none"] /\ blind = {}
  /\ pass = Idle /\ trouble = 0

Live(r) == req[r].st \notin {"none"} \union Ended
\* The claim of the request is there and carries its annotation: the name, and
\* for a file restore the UID too.
Mine(r) == LET c == claim[target[r]] IN
           c.by = r /\ (kind[r] \in Files => c.life = req[r].life)

-----------------------------------------------------------------------------
(* The phases.                                                             *)

setRestoreStatus(r, st) == req' = [req EXCEPT ![r].st = st]
fileRestoreActive(r) ==
  kind[r] \in Files /\ req[r].st \in {"Measuring", "Provisioning", "Restoring"}
stopRestoreDisk(r) == disk' = [disk EXCEPT ![r] = "none"]
\* failRestore and failFileRestore: a Job that runs is left alone.
failFileRestore(r) ==
  /\ setRestoreStatus(r, "Failed") /\ stopRestoreDisk(r)

\* reconcileFileRestores: a claim that exists takes one restore at a time, the
\* first that has not ended; and a restore starts only when a place is free.
firstHolds(r) ==
  \A i, j \in DOMAIN queue :
    (queue[j] = r /\ i < j /\ Live(queue[i]) /\ kind[queue[i]] = "into"
       /\ kind[r] = "into") => target[queue[i]] # target[r]

Turn(r) ==
  /\ pass = Idle /\ Live(r) /\ firstHolds(r)
  /\ kind[r] \in Files /\ ~fileRestoreActive(r)
       => Cardinality({s \in Requests : fileRestoreActive(s)}) < MaxRunning
NeedsPolicy(r) == kind[r] \in {"backup", "file", "into"}
Ready(r) == /\ Turn(r) /\ (NeedsPolicy(r) => policy)
            /\ (kind[r] = "guest" => disk[r] = "ready")

PolicyGone(r) ==
  /\ Turn(r) /\ NeedsPolicy(r) /\ ~policy /\ failFileRestore(r)
  /\ UNCHANGED <<specVars, queue, policy, claim, label, data, job, podVars, pass, trouble>>
\* The copy of a VM disk was held for the most that is allowed before the
\* restore ended.
HoldSpent(r) ==
  /\ Turn(r) /\ kind[r] \in {"file", "into"} /\ policy /\ Disturb /\ failFileRestore(r)
  /\ UNCHANGED <<specVars, queue, policy, claim, label, data, job, podVars, pass>>
\* A read fails: the restore is Pending until the next pass.
ReadFails(r) ==
  /\ Turn(r) /\ Disturb /\ setRestoreStatus(r, "Pending")
  /\ UNCHANGED <<specVars, queue, policy, claim, label, data, job, disk, podVars, pass>>

-----------------------------------------------------------------------------
(* Share Jobs: run once, and gone when their result is read.               *)

start(k, c) == job' = [job EXCEPT ![k] = [st |-> "run", on |-> claim[c].gen]]
cleanup(k) == job' = [job EXCEPT ![k] = NoJob]
Found(k, st) == job[k].st = st

\* guestCOSDisk: the disk server is started, and the restore waits for it.
guestCOSDisk(r) ==
  /\ Turn(r) /\ kind[r] = "guest" /\ disk[r] # "ready"
  /\ \/ disk[r] = "ended" /\ failFileRestore(r)
     \/ /\ disk[r] \in {"none", "starting"}
        /\ disk' = [disk EXCEPT ![r] = "starting"] /\ setRestoreStatus(r, "Pending")
  /\ UNCHANGED <<specVars, queue, policy, claim, label, data, job, podVars, pass, trouble>>

\* runFileRestoreJob in ModeMeasure: the size of the new claim.
measure(r) ==
  LET k == Key(r, "measure") IN
  /\ Ready(r) /\ kind[r] \in {"file", "guest"} /\ "sized" \notin req[r].has
  /\ \/ Found(k, "none") /\ start(k, target[r]) /\ setRestoreStatus(r, "Measuring")
        /\ UNCHANGED <<disk, pass>>
     \/ Found(k, "bad") /\ cleanup(k) /\ failFileRestore(r) /\ UNCHANGED pass
     \/ Found(k, "ok") /\ cleanup(k) /\ pass' = [at |-> "save", r |-> r, step |-> "measure"]
        /\ UNCHANGED <<req, disk>>
  /\ UNCHANGED <<specVars, queue, policy, claim, label, data, podVars, trouble>>

Sized(r) == kind[r] \in {"file", "guest"} => "sized" \in req[r].has
\* A claim that another restore or a person made is never used.
ensureRestoreTarget(r) ==
  LET c == target[r] IN
  /\ Ready(r) /\ kind[r] \in New /\ Sized(r) /\ ~Mine(r)
  /\ \/ /\ claim[c].st = "none"
        /\ claim' = [claim EXCEPT ![c] = Made(c, r, fileRestoreKey(r))]
        /\ setRestoreStatus(r, "Provisioning") /\ UNCHANGED disk
     \/ claim[c].st # "none" /\ failFileRestore(r) /\ UNCHANGED claim
  /\ UNCHANGED <<specVars, queue, policy, label, data, job, podVars, pass, trouble>>

\* fileRestoreIntoClaim up to its Job: the claim must be there, be the one first
\* seen, and not be held back.
intoClaim(r) ==
  LET c == claim[target[r]] IN
  /\ Ready(r) /\ kind[r] = "into"
  /\ \/ (c.st = "none" \/ req[r].pin \notin {0, c.gen}) /\ failFileRestore(r)
     \/ /\ c.st # "none" /\ req[r].pin = 0
        /\ req' = [req EXCEPT ![r].pin = c.gen] /\ UNCHANGED disk
  /\ UNCHANGED <<specVars, queue, policy, claim, label, data, job, podVars, pass, trouble>>

\* The Job a restore is at: a restore from COS fetches, copies and tidies.
Step(r) == IF kind[r] # "cos" THEN "copy"
           ELSE IF "fetched" \notin req[r].has THEN "fetch"
           ELSE IF "copied" \notin req[r].has THEN "copy" ELSE "clean"
MayRun(r) ==
  LET c == target[r] IN
  /\ Ready(r) /\ Sized(r) /\ claim[c].st = "bound"
  /\ IF kind[r] \in New THEN Mine(r) ELSE req[r].pin = claim[c].gen /\ c \notin label
\* Hold back pods until the copy has ended; a patch that fails is only logged.
setSubVolumeRestoreLabel(r) ==
  IF kind[r] = "into" \/ target[r] \in label THEN UNCHANGED <<label, blind, trouble>>
  ELSE \/ label' = label \union {target[r]} /\ UNCHANGED <<blind, trouble>>
       \/ Disturb /\ blind' = blind \union {target[r]} /\ UNCHANGED label
\* RestoreBackup, and NewVolumeDest of a file restore, empty the folder first.
RestoreBackup(r) ==
  LET k == Key(r, Step(r)) IN
  /\ MayRun(r) /\ setSubVolumeRestoreLabel(r)
  /\ \/ /\ Found(k, "none") /\ start(k, target[r]) /\ setRestoreStatus(r, "Restoring")
        /\ data' = IF Step(r) = "copy" /\ kind[r] \in New
                     THEN [data EXCEPT ![target[r]] = "part"] ELSE data
        /\ UNCHANGED <<disk, pass>>
     \/ /\ Found(k, "bad") /\ cleanup(k) /\ UNCHANGED data
        /\ IF Step(r) = "clean"
             THEN pass' = [at |-> "save", r |-> r, step |-> "clean"] /\ UNCHANGED <<req, disk>>
             ELSE failFileRestore(r) /\ UNCHANGED pass
     \/ /\ Found(k, "ok") /\ cleanup(k) /\ pass' = [at |-> "save", r |-> r, step |-> Step(r)]
        /\ UNCHANGED <<req, disk, data>>
  /\ UNCHANGED <<specVars, queue, policy, claim, pub>>

-----------------------------------------------------------------------------
(* Saving what was read, and opening the volume.                           *)

Saved(r, step) ==
  CASE step = "measure" -> [req[r] EXCEPT !.has = @ \union {"sized"}, !.st = "Provisioning"]
    [] step = "fetch" -> [req[r] EXCEPT !.has = @ \union {"fetched"}]
    [] step = "copy" /\ kind[r] = "cos" -> [req[r] EXCEPT !.has = @ \union {"copied"}]
    [] OTHER -> [req[r] EXCEPT !.st = "Done"]
Opens(r) == [at |-> "open", r |-> r, step |-> "open"]
\* Mutant: the volume is opened first, and Done saved after that.
finishFileRestoreMutant(r) ==
  /\ pass' = Idle
  /\ label' = IF Saved(r, pass.step).st = "Done" THEN label \ {target[r]} ELSE label
  /\ \/ req' = [req EXCEPT ![r] = Saved(r, pass.step)] /\ disk' = disk /\ UNCHANGED trouble
     \/ Disturb /\ UNCHANGED <<req, disk>>
  /\ UNCHANGED <<specVars, queue, policy, claim, data, job, podVars>>

\* saveRestoreStatus, saveRestoreProgress, finishFileRestore: the result is
\* lost when the save fails, and its Job runs again.
finishFileRestore(r) ==
  /\ \/ /\ req' = [req EXCEPT ![r] = Saved(r, pass.step)]
        /\ IF Saved(r, pass.step).st # "Done" THEN pass' = Idle /\ UNCHANGED disk
           ELSE /\ stopRestoreDisk(r)
                /\ pass' = IF kind[r] \in New THEN Opens(r) ELSE Idle
        /\ UNCHANGED trouble
     \/ Disturb /\ pass' = Idle /\ UNCHANGED <<req, disk>>
  /\ UNCHANGED <<specVars, queue, policy, claim, label, data, job, podVars>>
saveRestoreProgress ==
  pass.at = "save" /\ IF req[pass.r].st = "none"
    THEN pass' = Idle /\ UNCHANGED <<specVars, req, queue, policy, claim, label, data,
                                     job, disk, podVars, trouble>>
    ELSE finishFileRestore(pass.r)

openVolume ==
  /\ pass.at = "open" /\ pass' = Idle
  /\ \/ label' = label \ {target[pass.r]} /\ UNCHANGED trouble
     \/ Disturb /\ UNCHANGED label
  /\ UNCHANGED <<specVars, req, queue, policy, claim, data, job, disk, podVars>>

\* Mutant: file restores are forgotten.
openFinishedRestoresMutant(c) ==
  /\ pass = Idle /\ c \in label
  /\ \E r \in Requests : kind[r] \in {"backup", "cos"} /\ target[r] = c /\ Mine(r) /\ req[r].st = "Done"
  /\ label' = label \ {c}
  /\ UNCHANGED <<specVars, req, queue, policy, claim, data, job, disk, podVars, pass, trouble>>

\* The label of a volume whose restore is Done, if the controller stopped
\* before it took it away.  A BackupRestore is found by its name alone.
openFinishedRestores(c) ==
  /\ pass = Idle /\ c \in label
  /\ \E r \in Requests : kind[r] \in New /\ target[r] = c /\ Mine(r) /\ req[r].st = "Done"
  /\ label' = label \ {c}
  /\ UNCHANGED <<specVars, req, queue, policy, claim, data, job, disk, podVars, pass, trouble>>

-----------------------------------------------------------------------------
(* The CSI driver.                                                         *)

\* Only BackupRestores are asked for, not BackupFileRestores.
HasOpenRestore(c) == \E r \in Requests : kind[r] \in {"backup", "cos"} /\ target[r] = c /\ Live(r)
\* A failed read makes no volume: the call is repeated.
CreateVolume(c) ==
  /\ claim[c].st = "made" /\ claim' = [claim EXCEPT ![c].st = "bound"]
  /\ label' = IF HasOpenRestore(c) THEN label \union {c} ELSE label
  /\ UNCHANGED <<specVars, req, queue, policy, data, job, disk, podVars, pass, trouble>>

\* NodePublishVolume reads the label and then mounts; when the SubVolume cannot
\* be read it mounts all the same.
NodePublishVolume(c) ==
  /\ claim[c].st = "bound" /\ pub[c] = "none"
  /\ \/ c \notin label /\ UNCHANGED <<blind, trouble>>
     \/ c \in label /\ Disturb /\ blind' = blind \union {c}
  /\ pub' = [pub EXCEPT ![c] = "checked"]
  /\ UNCHANGED <<specVars, req, queue, policy, claim, label, data, job, disk, pass>>
bindMount(c) ==
  /\ pub[c] = "checked" /\ pub' = [pub EXCEPT ![c] = "mounted"]
  /\ data' = IF data[c] = "none" THEN [data EXCEPT ![c] = "empty"] ELSE data
  /\ UNCHANGED <<specVars, req, queue, policy, claim, label, job, disk, blind, pass, trouble>>
NodeUnpublishVolume(c) ==
  /\ pub[c] = "mounted" /\ pub' = [pub EXCEPT ![c] = "none"]
  /\ UNCHANGED <<specVars, req, queue, policy, claim, label, data, job, disk, blind, pass, trouble>>
PodWrites(c) ==
  /\ pub[c] = "mounted" /\ data[c] # "used" /\ data' = [data EXCEPT ![c] = "used"]
  /\ UNCHANGED <<specVars, req, queue, policy, claim, label, job, disk, podVars, pass, trouble>>

-----------------------------------------------------------------------------
(* Jobs, people and restarts.                                              *)

\* The Jobs of a file restore that is gone go after it, a running one when its
\* pod has ended.
Orphan(k) == kind[k[1]] \in Files /\ (req[k[1]].st = "none" \/ req[k[1]].life # k[3])
JobEnds(k) ==
  LET c == target[k[1]] IN
  /\ job[k].st = "run" /\ \E st \in {"ok", "bad"} :
       /\ job' = [job EXCEPT ![k] = IF Orphan(k) THEN NoJob ELSE [@ EXCEPT !.st = st]]
       /\ data' = IF st = "ok" /\ k[2] = "copy" /\ kind[k[1]] \in New
                       /\ claim[c].st = "bound" /\ job[k].on = claim[c].gen
                    THEN [data EXCEPT ![c] = IF @ = "part" THEN "whole" ELSE @] ELSE data
  /\ UNCHANGED <<specVars, req, queue, policy, claim, label, disk, podVars, pass, trouble>>
DiskChanges(r) ==
  /\ \/ disk[r] = "starting" /\ disk' = [disk EXCEPT ![r] = "ready"] /\ UNCHANGED trouble
     \/ disk[r] = "ready" /\ Disturb /\ disk' = [disk EXCEPT ![r] = "ended"]
  /\ UNCHANGED <<specVars, req, queue, policy, claim, label, data, job, podVars, pass>>

Ask(r) ==
  /\ req[r].st = "none" /\ req[r].life < Lives
  /\ req' = [req EXCEPT ![r] = [NoRequest EXCEPT !.st = "Pending", !.life = req[r].life + 1]]
  /\ queue' = Append(queue, r)
  /\ UNCHANGED <<specVars, policy, claim, label, data, job, disk, podVars, pass, trouble>>
\* A person deletes a request, or the controller one that ended 24 hours ago.
tidyEndedFileRestore(r) ==
  /\ req[r].st # "none" /\ (IF Live(r) THEN Disturb ELSE UNCHANGED trouble)
  /\ req' = [req EXCEPT ![r].st = "none"]
  /\ queue' = SelectSeq(queue, LAMBDA s : s # r)
  /\ job' = [k \in Keys |-> IF kind[r] \in Files /\ k[1] = r /\ job[k].st # "run" THEN NoJob ELSE job[k]]
  /\ stopRestoreDisk(r)
  /\ UNCHANGED <<specVars, policy, claim, label, data, podVars, pass>>
UserMakesClaim(c) ==
  /\ claim[c].st = "none" /\ claim' = [claim EXCEPT ![c] = Made(c, "user", 0)]
  /\ UNCHANGED <<specVars, req, queue, policy, label, data, job, disk, podVars, pass, trouble>>
DeleteClaim(c) ==
  /\ claim[c].st = "bound" /\ pub[c] = "none" /\ Disturb
  /\ claim' = [claim EXCEPT ![c] = [NoClaim EXCEPT !.gen = claim[c].gen]] /\ label' = label \ {c}
  /\ data' = [data EXCEPT ![c] = "none"]
  /\ UNCHANGED <<specVars, req, queue, policy, job, disk, podVars, pass>>
DeletePolicy ==
  /\ policy /\ Disturb /\ policy' = FALSE
  /\ UNCHANGED <<specVars, req, queue, claim, label, data, job, disk, podVars, pass>>
Restart ==
  /\ pass # Idle /\ Disturb /\ pass' = Idle
  /\ UNCHANGED <<specVars, req, queue, policy, claim, label, data, job, disk, podVars>>

-----------------------------------------------------------------------------
Reconcile(r) == \/ PolicyGone(r) \/ HoldSpent(r) \/ ReadFails(r) \/ guestCOSDisk(r) \/ measure(r)
                \/ ensureRestoreTarget(r) \/ intoClaim(r) \/ RestoreBackup(r)
Controller == \/ \E r \in Requests : Reconcile(r)
              \/ \E c \in Claims : openFinishedRestores(c)
              \/ saveRestoreProgress \/ openVolume
Around ==
  \/ \E r \in Requests : Ask(r) \/ tidyEndedFileRestore(r) \/ DiskChanges(r)
  \/ \E c \in Claims : \/ CreateVolume(c) \/ NodePublishVolume(c) \/ bindMount(c)
                       \/ NodeUnpublishVolume(c) \/ PodWrites(c)
                       \/ UserMakesClaim(c) \/ DeleteClaim(c)
  \/ \E k \in Keys : JobEnds(k)
  \/ DeletePolicy \/ Restart
Next == Controller \/ Around
Spec == Init /\ [][Next]_vars

\* The backup controller's pass comes round every 30 seconds.
FairSpec ==
  /\ Spec /\ WF_vars(saveRestoreProgress) /\ WF_vars(openVolume)
  /\ \A c \in Claims : WF_vars(openFinishedRestores(c))

-----------------------------------------------------------------------------
TypeOK ==
  /\ \A r \in Requests : /\ req[r].st \in {"none", "Pending", "Measuring", "Provisioning",
                                           "Restoring"} \union Ended
                         /\ req[r].life \in 0..Lives
  /\ label \subseteq {c \in Claims : claim[c].st = "bound"}
  /\ \A c \in Claims : pub[c] # "none" => claim[c].st = "bound"

\* The request and its claim are the first of their names, and are there.  A
\* BackupRestore that is made again under its name finds the claim of the first
\* by its annotation, which carries the name and no UID, and fills it again.
FirstLife(r) == req[r].life = 1 /\ req[r].st # "none" /\ claim[target[r]].gen = 1

\* A pod never mounts the new volume of a BackupRestore before it is filled,
\* unless a patch of the label or the node plugin's read of it failed
\* (HasOpenRestore holds the volume back from the start, and NodePublishVolume
\* refuses it).  A restore that failed before its volume was made leaves an
\* ordinary, empty volume; one that failed in its copy leaves a volume no pod
\* mounts.  FirstLife leaves out a restore or a claim made again under its name.
PodSeesWhole ==
  \A c \in Claims : LET r == claim[c].by IN
    (pub[c] = "mounted" /\ r \in Requests /\ kind[r] \in {"backup", "cos"} /\ FirstLife(r)
       /\ c \notin blind) => \/ data[c] \in {"whole", "used"}
                             \/ req[r].st = "Failed" /\ data[c] # "part"

PodDataStays ==
  \A c \in Claims : LET r == claim[c].by IN
    (r \in Requests /\ kind[r] \in {"backup", "cos"} /\ FirstLife(r) /\ c \notin blind
       /\ data[c] = "used") => data'[c] # "part"

\* What a pod wrote into the new volume of a BackupRestore is never emptied by
\* the restore's Job: Done is saved before the volume is opened, so a result
\* that is lost is lost while the volume is still held back.  As in
\* PodSeesWhole, a restore or a claim made again under its name is left out.
PodDataKept == [][PodDataStays]_vars

\* Two Jobs write into one existing claim at one time only if the restore of
\* one was failed or deleted while its Job ran: else the later one waits.
OneWriter ==
  LET writing == {k \in Keys : k[2] = "copy" /\ kind[k[1]] = "into" /\ job[k].st = "run"} IN
  \A k, l \in writing : k # l /\ target[k[1]] = target[l[1]] =>
    \E m \in {k, l} : Orphan(m) \/ req[m[1]].st = "Failed"

VolumesOpened ==
  \A r \in Requests : kind[r] \in New /\ req[r].st = "Done" /\ Mine(r) => target[r] \notin label

\* A restore that ended with Done has its volume opened, even if the controller
\* stops or an update fails in between, as long as its object and claim stay.
DoneOpens == []<>VolumesOpened

\* A file restore into a new claim holds pods back from the claim until the copy
\* has ended, so what its Job empties is never a pod's data.
NewClaimHeld ==
  [][\A c \in Claims : LET r == claim[c].by IN
       (r \in Requests /\ kind[r] \in {"file", "guest"} /\ c \notin blind
          /\ data[c] = "used") => data'[c] # "part"]_vars
=============================================================================
