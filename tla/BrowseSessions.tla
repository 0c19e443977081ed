---------------------------- MODULE BrowseSessions ----------------------------
(***************************************************************************)
(* Browse sessions: the BackupBrowse objects, the backup controller's slow *)
(* and quick passes over them (pkg/pool/backup_browse.go,                  *)
(* backup_browse_cos.go, backup_browse_guestcos.go), the helper and disk   *)
(* server Jobs (share_job_browse.go, share_job_browse_cos.go) and the      *)
(* gateway that makes, closes and uses sessions (pkg/gateway).             *)
(*                                                                         *)
(* Sessions are numbered in the order they are made.  A pass works on the  *)
(* list it read: a status update of an object that changed since then is   *)
(* refused.                                                                *)
(***************************************************************************)
EXTENDS Naturals, FiniteSets, FiniteSetsExt

CONSTANTS Made,          \* bound: how many sessions are made
          Users,
          Scenarios,     \* what each session is: records [kind, user]
          MaxSessions, MaxPerNamespace,
          Troubles       \* bound: restarts, failing calls and acts of people

Sessions == 1..Made

VARIABLES
  kind, user,  \* the spec of each session; fixed
  sess,      \* the objects: phase and Close
  timer,     \* the sessions that are older than MaxLife
  helper,    \* the helper (reader) Job of each session
  disk,      \* the disk server Job of a session on a VM disk in COS
  secrets,   \* which Secrets of the session exist
  source,    \* do the policy and its snapshot pool exist?
  slipped,   \* ghost: sessions whose status save failed while a helper ran
  pass,      \* the controller's pass
  trouble

vars == <<kind, user, sess, timer, helper, disk, secrets, source, slipped, pass, trouble>>
fixed == <<kind, user>>
jobs == <<helper, disk>>

Idle == [at |-> "idle"]
Ended == {"Closed", "Failed"}
Unmade == [st |-> "none", close |-> FALSE]
Disturb == trouble < Troubles /\ trouble' = trouble + 1

Init ==
  /\ \E c \in Scenarios : kind = c.kind /\ user = c.user
  /\ sess = [s \in Sessions |-> Unmade] /\ timer = {}
  /\ helper = [s \in Sessions |-> "none"] /\ disk = [s \in Sessions |-> "none"]
  /\ secrets = [s \in Sessions |-> {}]
  /\ source = TRUE /\ slipped = {}
  /\ pass = Idle /\ trouble = 0

Exists(s) == sess[s].st \notin {"none", "gone"}
\* Mutant: a session counts once it is ready.
browseOpenMutant(st) == st = "Ready"
browseOpen(st) == st \in {"Starting", "Ready"}
browseStarting(st) == st \in {"Pending", "Starting"}
isGuestCOS(s) == kind[s] = "guestcos"
browseIsCOS(s) == kind[s] \in {"cos", "guestcos"}

-----------------------------------------------------------------------------
(* Jobs of a session.                                                      *)

Up(st) == st \in {"run", "ready"}
\* Stop deletes the Job; it is done at a later call, when the pods are gone.
Stopped(st) == IF st = "none" THEN "none" ELSE "stopping"
StopBrowseDone(s) == helper[s] = "none" /\ disk[s] = "none"
StopBrowse(S) ==
  /\ helper' = [s \in Sessions |-> IF s \in S THEN Stopped(helper[s]) ELSE helper[s]]
  /\ disk' = [s \in Sessions |-> IF s \in S THEN Stopped(disk[s]) ELSE disk[s]]
StartBrowse(s) == helper' = [helper EXCEPT ![s] = IF @ = "none" THEN "run" ELSE @]
StartBrowseDisk(s) == disk' = [disk EXCEPT ![s] = IF @ = "none" THEN "run" ELSE @]

-----------------------------------------------------------------------------
(* The pass over the list.                                                 *)

seen(s) == pass.seen[s]
Current(s) == pass.at = "list" /\ pass.todo # {} /\ s = Min(pass.todo)
Onward(s, counted) ==
  pass' = IF pass.todo = {s} THEN Idle
          ELSE [pass EXCEPT !.todo = @ \ {s}, !.counted = counted, !.seen[s] = Unmade]
Same(s) == Onward(s, pass.counted)
\* A status update of the listed object.  It is refused when the object changed
\* since the list, and may fail.
Save(s, new, ok) ==
  IF ok THEN /\ sess[s] = seen(s) /\ sess' = [sess EXCEPT ![s] = new] /\ UNCHANGED trouble
  ELSE /\ UNCHANGED sess
       /\ IF sess[s] = seen(s) THEN Disturb ELSE UNCHANGED trouble
Rest == UNCHANGED <<fixed, timer, source>>

\* Mutant: the Secrets of vanished sessions are left.
sweepBrowseOrphansMutant(known) == StopBrowse(Sessions \ known) /\ UNCHANGED secrets
sweepBrowseOrphans(known) ==
  /\ StopBrowse(Sessions \ known)
  /\ secrets' = [s \in Sessions |-> IF s \in known THEN secrets[s] ELSE {}]
reconcileBrowseList(quick) ==
  LET known == {s \in Sessions : Exists(s)}
      todo == IF quick THEN {s \in known : browseStarting(sess[s].st)} ELSE known IN
  /\ pass = Idle /\ (quick => todo # {})
  /\ pass' = IF todo = {} THEN Idle
             ELSE [at |-> "list", todo |-> todo,
                   seen |-> [s \in Sessions |-> IF s \in todo THEN sess[s] ELSE Unmade],
                   counted |-> {s \in known : browseOpen(sess[s].st)}]
  /\ IF quick THEN UNCHANGED <<jobs, secrets>> ELSE sweepBrowseOrphans(known)
  /\ UNCHANGED <<sess, slipped, trouble>> /\ Rest
\* tidyEndedBrowse: the helper and the Secrets go; a Secret that cannot be
\* deleted is only logged.  The record goes at a pass after ClosedKeep.
removeSecrets(s) == secrets' = [secrets EXCEPT ![s] = {}]
tidyEndedBrowse(s) ==
  /\ Current(s) /\ seen(s).st \in Ended /\ Same(s)
  /\ IF ~StopBrowseDone(s) THEN StopBrowse({s}) /\ UNCHANGED <<sess, secrets, trouble>>
     ELSE /\ \/ removeSecrets(s) /\ UNCHANGED trouble
             \/ secrets[s] # {} /\ Disturb /\ UNCHANGED secrets
          /\ \/ sess' = [sess EXCEPT ![s] = [Unmade EXCEPT !.st = "gone"]]
             \/ UNCHANGED sess
          /\ UNCHANGED jobs
  /\ UNCHANGED slipped /\ Rest

\* endBrowse: the place is given back before the status is saved.
endBrowse(s, st) ==
  /\ Onward(s, pass.counted \ {s})
  /\ \E ok \in BOOLEAN :
       /\ Save(s, [seen(s) EXCEPT !.st = st], ok)
       /\ IF ~ok THEN UNCHANGED <<jobs, secrets>>
          ELSE IF StopBrowseDone(s) THEN removeSecrets(s) /\ UNCHANGED jobs
          ELSE StopBrowse({s}) /\ UNCHANGED secrets
       /\ slipped' = IF ~ok /\ (Up(helper[s]) \/ Up(disk[s])) THEN slipped \union {s} ELSE slipped

\* reconcileBrowse: a session that is closed, too old, or has lost its policy or
\* pool ends once its pods are gone.
browseSourceGone(s) == ~source /\ ~browseIsCOS(s)
MustEnd(s) == \/ seen(s).close \/ s \in timer
              \/ browseOpen(seen(s).st) /\ browseSourceGone(s)
reconcileBrowse(s) ==
  /\ Current(s) /\ seen(s).st \notin Ended /\ MustEnd(s) /\ Rest
  /\ IF StopBrowseDone(s) THEN endBrowse(s, "Closed")
     ELSE StopBrowse({s}) /\ Same(s) /\ UNCHANGED <<sess, secrets, slipped, trouble>>
Goes(s) == Current(s) /\ seen(s).st \notin Ended /\ ~MustEnd(s)

-----------------------------------------------------------------------------
(* Starting.                                                               *)

SecretsOf(s) == {"session"} \union (IF kind[s] = "cos" THEN {"copy"} ELSE {})
                            \union (IF isGuestCOS(s) THEN {"disk"} ELSE {})
\* One namespace of claims in the model, so both limits count the same sessions.
NoPlace == Cardinality(pass.counted) >= MaxSessions \/ Cardinality(pass.counted) >= MaxPerNamespace
browseWaits(s) ==
  /\ Goes(s) /\ seen(s).st = "Pending" /\ NoPlace /\ Same(s)
  /\ UNCHANGED <<sess, jobs, secrets, slipped, trouble>> /\ Rest
\* browseRequest: a session whose backup is gone, or whose export ends too soon,
\* fails at once.
browseRequestFails(s) ==
  /\ Goes(s) /\ seen(s).st = "Pending" /\ ~NoPlace /\ browseSourceGone(s) /\ Rest
  /\ endBrowse(s, "Failed")
startBrowse(s) ==
  /\ Goes(s) /\ seen(s).st = "Pending" /\ ~NoPlace /\ ~browseSourceGone(s) /\ Rest
  /\ secrets' = [secrets EXCEPT ![s] = @ \union SecretsOf(s)]
  /\ IF isGuestCOS(s) THEN StartBrowseDisk(s) /\ UNCHANGED helper
                      ELSE StartBrowse(s) /\ UNCHANGED disk
  /\ Onward(s, pass.counted \union {s})
  /\ \E ok \in BOOLEAN : /\ Save(s, [seen(s) EXCEPT !.st = "Starting"], ok)
                         /\ slipped' = IF ok THEN slipped ELSE slipped \union {s}
startBrowseFails(s) ==
  /\ Goes(s) /\ seen(s).st = "Pending" /\ ~NoPlace /\ ~browseSourceGone(s) /\ Disturb /\ Same(s)
  /\ secrets' = [secrets EXCEPT ![s] = @ \union {"session"}]
  /\ UNCHANGED <<sess, jobs, slipped>> /\ Rest

-----------------------------------------------------------------------------
(* Watching.                                                               *)

Watched(s) == Goes(s) /\ browseOpen(seen(s).st) /\ Rest
\* watchGuestCOS deals with the pass unless the disk server and the reader exist.
DiskFirst(s) == isGuestCOS(s) /\ (disk[s] \notin {"run", "ready", "stopping"} \/ helper[s] = "none")
\* The disk server had its time to start (or not yet: the time is not modelled).
watchGuestCOS(s) ==
  /\ Watched(s) /\ DiskFirst(s)
  /\ \/ disk[s] = "bad" /\ endBrowse(s, "Failed")
     \/ disk[s] = "ok" /\ endBrowse(s, "Closed")
     \/ disk[s] = "none" /\ seen(s).st = "Ready" /\ endBrowse(s, "Failed")
     \/ /\ disk[s] = "none" /\ seen(s).st = "Starting" /\ StartBrowseDisk(s) /\ Same(s)
        /\ secrets' = [secrets EXCEPT ![s] = @ \union {"disk"}]
        /\ UNCHANGED <<sess, helper, slipped, trouble>>
     \/ disk[s] \in {"run", "stopping"} /\ seen(s).st = "Starting" /\ endBrowse(s, "Failed")
     \/ /\ disk[s] = "ready" /\ StartBrowse(s) /\ Same(s)
        /\ \E ok \in BOOLEAN : Save(s, [seen(s) EXCEPT !.st = "Starting"], ok)
        /\ UNCHANGED <<disk, secrets, slipped>>
     \/ /\ disk[s] \in {"run", "stopping"} /\ Same(s)
        /\ \E ok \in BOOLEAN : Save(s, [seen(s) EXCEPT !.st = "Starting"], ok)
        /\ UNCHANGED <<jobs, secrets, slipped>>
watchBrowse(s) ==
  /\ Watched(s) /\ ~DiskFirst(s)
  /\ \/ helper[s] = "none" /\ seen(s).st = "Ready" /\ endBrowse(s, "Failed")
     \/ /\ helper[s] = "none" /\ seen(s).st = "Starting" /\ StartBrowse(s) /\ Same(s)
        /\ UNCHANGED <<sess, disk, secrets, slipped, trouble>>
     \/ helper[s] = "ok" /\ endBrowse(s, "Closed")
     \/ helper[s] = "bad" /\ endBrowse(s, "Failed")
     \/ /\ helper[s] = "ready" /\ Same(s)
        /\ IF seen(s).st = "Ready" THEN UNCHANGED <<sess, trouble>>
           ELSE \E ok \in BOOLEAN : Save(s, [seen(s) EXCEPT !.st = "Ready"], ok)
        /\ UNCHANGED <<jobs, secrets, slipped>>
     \/ /\ helper[s] \in {"run", "stopping"} /\ Same(s)
        /\ UNCHANGED <<sess, jobs, secrets, slipped, trouble>>
\* The reader of a guest disk, or a helper on COS, was not ready in time.
startTimeout(s) ==
  /\ Watched(s) /\ ~DiskFirst(s) /\ helper[s] \in {"run", "stopping"} /\ browseIsCOS(s)
  /\ seen(s).st = "Starting" /\ endBrowse(s, "Failed")

-----------------------------------------------------------------------------
(* The gateway.                                                            *)

Quiet == UNCHANGED <<fixed, timer, jobs, secrets, source, slipped, pass, trouble>>
OpenFor(s) == Exists(s) /\ ~sess[s].close /\ sess[s].st \notin Ended
Next1 == {s \in Sessions : sess[s].st = "none"}
\* makeRoom: the user's oldest sessions that must close so that a new one has a
\* place; when other users hold the places the request is refused.
open == {s \in Sessions : OpenFor(s)}
own(u) == {s \in open : user[s] = u}
makeRoom(u) ==
  LET free == Cardinality(open) + 1 - MaxPerNamespace IN
  {s \in own(u) : free > 0 /\ Cardinality({t \in own(u) : t < s}) < free}
full(u) == Cardinality(own(u)) + MaxPerNamespace < Cardinality(open) + 1
\* findOrCreate: the user has no open session on this backup.
findOrCreate(u) ==
  /\ Next1 # {} /\ user[Min(Next1)] = u /\ ~full(u)
  /\ ~\E s \in own(u) : kind[s] = kind[Min(Next1)]
  /\ sess' = [s \in Sessions |-> CASE s \in makeRoom(u) -> [sess[s] EXCEPT !.close = TRUE]
                                 [] s = Min(Next1) -> [sess[s] EXCEPT !.st = "Pending"]
                                 [] OTHER -> sess[s]]
  /\ Quiet
handleClose(s) ==
  /\ OpenFor(s) /\ sess' = [sess EXCEPT ![s].close = TRUE]
  /\ Quiet

-----------------------------------------------------------------------------
(* Pods, time, people and restarts.                                        *)

Around(s) == UNCHANGED <<fixed, sess, secrets, source, slipped, pass>> /\ s \in Sessions
HelperReady(s) ==
  /\ helper[s] = "run" /\ helper' = [helper EXCEPT ![s] = "ready"]
  /\ UNCHANGED <<disk, timer, trouble>> /\ Around(s)
\* A helper ends when it was idle, or fails; a disk server too.
HelperEnds(s) ==
  /\ \/ /\ Up(helper[s]) /\ \E st \in {"ok", "bad"} : helper' = [helper EXCEPT ![s] = st]
        /\ UNCHANGED disk
     \/ /\ disk[s] = "run" /\ disk' = [disk EXCEPT ![s] = "ready"] /\ UNCHANGED helper
     \/ /\ Up(disk[s]) /\ \E st \in {"ok", "bad"} : disk' = [disk EXCEPT ![s] = st]
        /\ UNCHANGED helper
  /\ UNCHANGED <<timer, trouble>> /\ Around(s)
\* A node is lost: the pod goes, and the Job with it.
JobLost(s) ==
  /\ Up(helper[s]) /\ Disturb /\ helper' = [helper EXCEPT ![s] = "none"]
  /\ UNCHANGED <<disk, timer>> /\ Around(s)
PodsGone(s) ==
  /\ helper[s] = "stopping" \/ disk[s] = "stopping"
  /\ helper' = [helper EXCEPT ![s] = IF @ = "stopping" THEN "none" ELSE @]
  /\ disk' = [disk EXCEPT ![s] = IF @ = "stopping" THEN "none" ELSE @]
  /\ UNCHANGED <<timer, trouble>> /\ Around(s)
TimePasses(s) ==
  /\ Exists(s) /\ sess[s].st \notin Ended /\ s \notin timer /\ timer' = timer \union {s}
  /\ UNCHANGED <<jobs, trouble>> /\ Around(s)
SourceGoes == /\ source /\ Disturb /\ source' = FALSE
              /\ UNCHANGED <<fixed, sess, timer, jobs, secrets, slipped, pass>>
DeleteSession(s) ==
  /\ Exists(s) /\ Disturb /\ sess' = [sess EXCEPT ![s] = [Unmade EXCEPT !.st = "gone"]]
  /\ UNCHANGED <<fixed, timer, jobs, secrets, source, slipped, pass>>
Restart == /\ pass # Idle /\ Disturb /\ pass' = Idle
           /\ UNCHANGED <<fixed, sess, timer, jobs, secrets, source, slipped>>

-----------------------------------------------------------------------------
Item(s) == \/ tidyEndedBrowse(s) \/ reconcileBrowse(s) \/ browseWaits(s) \/ browseRequestFails(s)
           \/ startBrowse(s) \/ startBrowseFails(s) \/ watchGuestCOS(s) \/ watchBrowse(s) \/ startTimeout(s)
\* An object that was deleted since the list: every update of it fails.
Controller == \E s \in Sessions : Item(s)
Next ==
  \/ Controller \/ reconcileBrowseList(FALSE) \/ reconcileBrowseList(TRUE)
  \/ \E u \in Users : findOrCreate(u)
  \/ \E s \in Sessions : \/ handleClose(s) \/ HelperReady(s) \/ HelperEnds(s)
                         \/ JobLost(s) \/ PodsGone(s) \/ TimePasses(s) \/ DeleteSession(s)
  \/ SourceGoes \/ Restart
Spec == Init /\ [][Next]_vars

\* Passes end and the slow pass comes round; time passes and stopped pods go.
FairSpec ==
  /\ Spec /\ WF_vars(Controller) /\ SF_vars(reconcileBrowseList(FALSE))
  /\ \A s \in Sessions : WF_vars(TimePasses(s)) /\ WF_vars(PodsGone(s))

-----------------------------------------------------------------------------
TypeOK ==
  /\ \A s \in Sessions : /\ sess[s].st \in {"none", "Pending", "Starting", "Ready", "gone"} \union Ended
                         /\ {helper[s], disk[s]} \subseteq {"none", "run", "ready", "ok", "bad", "stopping"}
                         /\ kind[s] # "guestcos" => disk[s] = "none"

\* No more helpers run than the limit allows, but for sessions whose status
\* could not be saved (a person closed them in that moment, or the update
\* failed) while their helper ran: startBrowse counts what it starts, and only
\* sessions that are not running are given back.  Helpers that are being
\* stopped, and those of sessions that are deleted, are not counted, as in the
\* code.
LimitKept ==
  Cardinality({s \in Sessions \ slipped : Exists(s) /\ (Up(helper[s]) \/ Up(disk[s]))}) <= MaxSessions

SessionsCleared ==
  \A s \in Sessions : (~Exists(s) \/ sess[s].st \in Ended) /\ StopBrowseDone(s) /\ secrets[s] = {}

\* Every session comes to an end and leaves nothing behind: MaxLife ends it
\* whatever its helper does, and its helper, disk server and Secrets go, even if
\* its object is deleted while a pass still works on it, a Secret cannot be
\* deleted at first, or the controller stops in between.
LeavesNothing == []<>SessionsCleared
=============================================================================
