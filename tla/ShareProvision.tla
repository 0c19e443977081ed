--------------------------- MODULE ShareProvision ---------------------------
(***************************************************************************)
(* How the VPC file shares of one FileSharePool come and go: the           *)
(* Reconciler's pass (initial provisioning, health check, drain, recount,  *)
(* proactive expansion, deletion), the Manager's calls that place a volume *)
(* and expand the pool when no share has room, and the VPC service.        *)
(*                                                                         *)
(* The Reconciler and the Manager run side by side, without a common lock. *)
(* Both create shares by a name counted from the pool's status, both read  *)
(* that status from the informer cache, and both save it with an update    *)
(* that is refused unless it was computed from the latest version.  As in  *)
(* PoolCapacity, "current" is the set of the holders whose copy of the     *)
(* pool is the latest version.                                             *)
(*                                                                         *)
(* Each volume takes one unit of the PerShare units of a share; Snapshots, *)
(* which block a removal as volumes do, and tiers are left out.            *)
(***************************************************************************)
EXTENDS Integers, Sequences, FiniteSets, SequencesExt

CONSTANTS
    Volumes,        \* names of volumes (SubVolume CRs)
    MaxIds,         \* shares the VPC can ever make (its quota), numbered in order
    PerShare,       \* volumes that fit on a share
    InitialShares,  \* spec.initialShares
    MaxShares,      \* spec.maxShares
    Threshold,      \* spec.expandThresholdPercent
    MaxFaults,      \* bound on failed requests, failed shares and restarts
    MaxAsks,        \* bound on changes of the pool's spec and on volume deletions
    None

Ids == 1 .. MaxIds
Names == 1 .. MaxShares + 1

VARIABLES
    pool,       \* the FileSharePool at the API server
    cache,      \* the informer cache's copy of it
    vols,       \* volumes at the API server: the share each one lies on
    current,    \* holders of the pool's latest resourceVersion
    vpc,        \* the VPC's file shares
    rec,        \* the Reconciler's pass
    mgr,        \* the call that holds Manager.mu
    faults,     \* failed requests, failed shares and restarts so far
    asks,       \* changes of the pool's spec and volume deletions so far
    late        \* history: volumes placed or seen too late (see VolumeHasShare)

vars == <<pool, cache, vols, current, vpc, rec, mgr, faults, asks, late>>

\* An entry of status.shares, and the pool's fields the passes use.
Entry == [id : Ids, name : Names, state : {"creating", "stable", "draining"},
          ip : BOOLEAN, pvc : Int]

NewPool == [phase |-> "Initializing", shares |-> <<>>, drain |-> {},
            drained |-> {}, deleting |-> FALSE, gone |-> FALSE]

\* A share the VPC has not made; mt is its mount target.
Unmade == [state |-> "unmade", name |-> 0, mt |-> "none"]

Idle == [pc |-> "idle", copy |-> NewPool, id |-> None, i |-> 0]
Free == [pc |-> "idle", copy |-> NewPool, id |-> None, v |-> None,
         n |-> 0]

Init ==
    /\ pool = NewPool /\ cache = NewPool
    /\ vols = [v \in Volumes |-> None]
    /\ current = {"cache"}
    /\ vpc = [id \in Ids |-> Unmade]
    /\ rec = Idle /\ mgr = Free
    /\ faults = 0 /\ asks = 0 /\ late = {}

-----------------------------------------------------------------------------
(* The status and its copies. *)

shareReady(e) == e.state = "stable" /\ e.ip

RecordedIds(p) == {p.shares[i].id : i \in DOMAIN p.shares}

\* Mutant: the number after the highest one the VPC has.
nextShareNameMutant(p) == 1 + Max({0} \cup {vpc[id].name : id \in Ids})

\* nextShareName: counted from the status, so names are not kept apart from
\* those of shares that were recorded and dropped again.
nextShareName(p) == Len(p.shares) + 1

Status(copy) == [pool EXCEPT !.phase = copy.phase, !.shares = copy.shares,
                             !.drained = copy.drained]

\* UpdateFileSharePoolStatus by a holder of the latest version.  No holder
\* uses its copy after the update.
WriteStatus(copy) == pool' = Status(copy) /\ current' = {}

\* A holder ends without an update.
Drops(holder) == current' = current \ {holder} /\ UNCHANGED pool

\* The update is the holder's last step, refused or not.
TryStatus(holder, copy) == IF holder \in current THEN WriteStatus(copy) ELSE Drops(holder)

\* A holder reads the pool from the cache.
Reads(holder) ==
    current' = IF "cache" \in current THEN current \cup {holder} ELSE current \ {holder}

Ask == asks < MaxAsks /\ asks' = asks + 1
Fault == faults < MaxFaults /\ faults' = faults + 1

-----------------------------------------------------------------------------
(* CreateFileShare of the VPC client, which both actors call.  The request *)
(* makes a share, or collides with one of the same name and adopts it if   *)
(* no pool records it; then the call waits for the share to be stable.     *)

Exists(id) == vpc[id].state \notin {"unmade", "deleted"}

Named(n) == {id \in Ids : Exists(id) /\ vpc[id].name = n}

\* getShareByName: of the shares of that name that no pool records, one with
\* a mount target if there is one.
getShareByName(n, claimed) ==
    LET ours == Named(n) \ claimed
        complete == {id \in ours : vpc[id].mt # "none"}
    IN  IF complete # {} THEN complete ELSE ours

\* The VPC refuses a second share of a name, except that a share left without
\* a mount target may not count.
Collides(n) == \E id \in Named(n) : vpc[id].mt # "none"

Unused == {id \in Ids : vpc[id].state = "unmade"}

NewShare(n, mt) ==
    LET id == CHOOSE x \in Unused : \A y \in Unused : x <= y
    IN  vpc' = [vpc EXCEPT ![id] = [state |-> "pending", name |-> n, mt |-> mt]]

\* The outcomes of the create request, as what the call waits for: a share's
\* id, or None for an error.
CreateShare(n, claimed, id) ==
    \/ /\ ~Collides(n) /\ Unused # {}
       /\ NewShare(n, "pending")
       /\ id = CHOOSE x \in Unused : \A y \in Unused : x <= y
       /\ UNCHANGED faults
    \/ /\ Named(n) # {} /\ id \in getShareByName(n, claimed)
       /\ UNCHANGED <<vpc, faults>>
    \/ /\ Named(n) # {} /\ getShareByName(n, claimed) = {} /\ id = None
       /\ UNCHANGED <<vpc, faults>>
    \/ /\ Named(n) = {} /\ Unused = {} /\ id = None
       /\ UNCHANGED <<vpc, faults>>
    \/ Fault /\ id = None /\ UNCHANGED vpc
    \/ Fault /\ id = None /\ Unused # {} /\ NewShare(n, "none")

\* waitForShareStable and waitForMountPath: the share is stable, or the wait
\* ends with an error (a failed or deleted share, a timeout).
WaitEnds(id, ok) ==
    \/ vpc[id].state = "stable" /\ ok /\ UNCHANGED faults
    \/ vpc[id].state \in {"failed", "deleted"} /\ ~ok /\ UNCHANGED faults
    \/ Fault /\ ~ok

\* newPoolShareStatus, appended to the copy's status.shares.
Recorded(copy, id) ==
    [copy EXCEPT !.shares = Append(@, [id |-> id, name |-> vpc[id].name, state |-> "stable",
                                       ip |-> vpc[id].mt = "ready", pvc |-> 0])]

-----------------------------------------------------------------------------
(* The Reconciler's pass. *)

RecAt(pc) == rec.pc = pc

\* initialProvisioning creates shares one by one up to initialShares.
Needed(copy) == InitialShares - Len(SelectSeq(copy.shares, LAMBDA e : e.state # "draining"))

\* When no more is needed the phase moves on before the status is saved.
ProvisionNext(r, copy) ==
    IF Needed(copy) > 0 THEN [r EXCEPT !.copy = copy, !.pc = "initial", !.id = None]
    ELSE [r EXCEPT !.copy = [copy EXCEPT !.phase = "Expanding"], !.pc = "save", !.id = None]

\* Reconcile fetches the pool, and goes to deletion, to initial provisioning
\* or to the health check.
Reconcile ==
    /\ RecAt("idle") /\ ~cache.gone
    /\ LET pass == [Idle EXCEPT !.copy = cache, !.i = Len(cache.shares)] IN
       rec' = IF cache.deleting THEN [pass EXCEPT !.pc = "deleting"]
              ELSE IF cache.phase = "Initializing" THEN ProvisionNext(pass, cache)
              ELSE [pass EXCEPT !.pc = "health"]
    /\ Reads("rec")
    /\ UNCHANGED <<pool, cache, vols, vpc, mgr, faults, late, asks>>

initialProvisioning ==
    /\ RecAt("initial")
    /\ \E id \in Ids \cup {None} :
        /\ CreateShare(nextShareName(rec.copy), RecordedIds(cache), id)
        /\ rec' = [rec EXCEPT !.pc = IF id = None THEN "save" ELSE "initialWait", !.id = id]
    /\ UNCHANGED <<pool, cache, vols, current, mgr, late, asks>>

\* The share is there, or the wait failed and the pass saves what it has.
initialWait ==
    /\ RecAt("initialWait")
    /\ \E ok \in BOOLEAN :
        /\ WaitEnds(rec.id, ok)
        /\ rec' = IF ok THEN ProvisionNext(rec, Recorded(rec.copy, rec.id)) ELSE [rec EXCEPT !.pc = "save", !.id = None]
    /\ UNCHANGED <<pool, cache, vols, current, vpc, mgr, late, asks>>

\* updateStatusRetryingConflict: on a conflict it puts its status on the
\* cache's version of the pool and tries again; after five attempts it fails.
updateStatusRetryingConflict ==
    /\ RecAt("save")
    /\ \/ /\ "rec" \in current
          /\ WriteStatus(rec.copy)
          /\ rec' = IF rec.copy.phase = "Initializing" THEN Idle ELSE [rec EXCEPT !.pc = "reread"]
       \/ /\ "rec" \notin current /\ "cache" \in current
          /\ Reads("rec") /\ UNCHANGED <<pool, rec>>
       \/ /\ "rec" \notin current /\ "cache" \notin current
          /\ rec' = Idle /\ UNCHANGED <<pool, current>>
    /\ UNCHANGED <<cache, vols, vpc, mgr, faults, late, asks>>

Reread ==
    /\ RecAt("reread")
    /\ rec' = [rec EXCEPT !.pc = "health", !.copy = cache, !.i = Len(cache.shares)]
    /\ Reads("rec")
    /\ UNCHANGED <<pool, cache, vols, vpc, mgr, faults, late, asks>>

\* What healthCheck makes of an entry from the VPC's state of its share.
Checked(e) ==
    LET state == CASE vpc[e.id].state = "stable" ->
                         IF e.state = "draining" /\ e.id \in rec.copy.drain THEN "draining" ELSE "stable"
                   [] vpc[e.id].state = "failed" -> "draining"
                   [] OTHER -> "creating"
    IN  [e EXCEPT !.state = state,
                  !.ip = @ \/ (vpc[e.id].state = "stable" /\ vpc[e.id].mt = "ready")]

\* Stable, but no usable address: the share has no mount target at all.
Bare(e) == e.state = "stable" /\ ~e.ip /\ vpc[e.id].mt = "none"

\* adoptShareWithMountTarget: another share of the name holds the mount target
\* and no pool records it.
Adoptable(e) ==
    {id \in Named(e.name) \ RecordedIds(cache) : id # e.id /\ vpc[id].mt = "ready"}

CheckedNext(shares) == rec' = [rec EXCEPT !.copy.shares = shares, !.i = @ - 1]

\* One share of healthCheck, from the last entry to the first.
healthCheck ==
    /\ RecAt("health") /\ rec.i > 0
    /\ LET e == rec.copy.shares[rec.i]
           c == Checked(e)
           With(x) == [rec.copy.shares EXCEPT ![rec.i] = x]
       IN \/ /\ ~Exists(e.id)
             /\ CheckedNext(IF e.pvc = 0 THEN RemoveAt(rec.copy.shares, rec.i) ELSE rec.copy.shares)
             /\ UNCHANGED <<vpc, faults>>
          \/ /\ Exists(e.id) /\ ~Bare(c)
             /\ CheckedNext(With(c))
             /\ UNCHANGED <<vpc, faults>>
          \/ /\ Exists(e.id) /\ Bare(c) /\ Adoptable(e) # {}
             /\ \E id \in Adoptable(e) : CheckedNext(With([c EXCEPT !.id = id, !.ip = TRUE]))
             /\ vpc' = IF e.pvc = 0 THEN [vpc EXCEPT ![e.id].state = "deleted"] ELSE vpc
             /\ UNCHANGED faults
          \/ /\ Exists(e.id) /\ Bare(c) /\ Adoptable(e) = {} /\ ~Collides(e.name)
             /\ CheckedNext(With([c EXCEPT !.ip = TRUE]))
             /\ vpc' = [vpc EXCEPT ![e.id].mt = "ready"]
             /\ UNCHANGED faults
          \/ /\ Exists(e.id) /\ Bare(c) /\ Adoptable(e) = {} /\ Collides(e.name)
             /\ CheckedNext(With(c))
             /\ UNCHANGED <<vpc, faults>>
          \/ Fault /\ CheckedNext(rec.copy.shares) /\ UNCHANGED vpc
    /\ UNCHANGED <<pool, cache, vols, current, mgr, late, asks>>

Placed == {v \in Volumes : vols[v] # None}
OnShare(id) == {v \in Volumes : vols[v] = id}

\* processDrainRequests and reconcileMetrics: states, drained shares and
\* counts from the volumes the cache shows.
Counted(copy, shown) ==
    [copy EXCEPT
        !.shares = [i \in DOMAIN copy.shares |->
            LET e == copy.shares[i] IN
            [e EXCEPT !.pvc = Cardinality(OnShare(e.id) \cap shown),
                      !.state = IF e.id \in copy.drain /\ @ = "stable" THEN "draining" ELSE @]],
        !.drained = {id \in copy.drain : OnShare(id) \cap shown = {}}]

Allocated(copy) == FoldSeq(LAMBDA e, n : e.pvc + n, 0, copy.shares)

\* proactiveExpansion: the pool is below maxShares, above the threshold, and
\* every share that is coming is already usable.
Expands(copy) ==
    /\ \A i \in DOMAIN copy.shares : copy.shares[i].state = "draining" \/ shareReady(copy.shares[i])
    /\ Len(copy.shares) \in 1 .. MaxShares - 1
    /\ (Allocated(copy) * 100) \div (Len(copy.shares) * PerShare) > Threshold

recount ==
    /\ RecAt("health") /\ rec.i = 0
    /\ \E shown \in SUBSET Placed : LET copy == Counted(rec.copy, shown) IN
        /\ rec' = [rec EXCEPT !.copy = copy, !.pc = IF Expands(copy) THEN "expand" ELSE "persist"]
        /\ late' = late \cup (UNION {OnShare(id) : id \in copy.drained} \ shown)
    /\ UNCHANGED <<pool, cache, vols, current, vpc, mgr, faults, asks>>

proactiveExpansion ==
    /\ RecAt("expand")
    /\ \E id \in Ids \cup {None} :
        /\ CreateShare(nextShareName(rec.copy), RecordedIds(cache), id)
        /\ rec' = [rec EXCEPT !.pc = IF id = None THEN "persist" ELSE "expandWait", !.id = id]
    /\ UNCHANGED <<pool, cache, vols, current, mgr, late, asks>>

expandWait ==
    /\ RecAt("expandWait")
    /\ \E ok \in BOOLEAN :
        /\ WaitEnds(rec.id, ok)
        /\ rec' = [rec EXCEPT !.pc = "persist", !.id = None, !.copy = IF ok THEN Recorded(@, rec.id) ELSE @]
    /\ UNCHANGED <<pool, cache, vols, current, vpc, mgr, late, asks>>

\* determinePhase and the last update; a refused update ends the pass.
determinePhase(copy) == IF copy.shares = <<>> THEN "Initializing" ELSE "Expanding"

persist ==
    /\ RecAt("persist")
    /\ TryStatus("rec", [rec.copy EXCEPT !.phase = determinePhase(rec.copy)])
    /\ rec' = Idle
    /\ UNCHANGED <<cache, vols, vpc, mgr, faults, late, asks>>

\* Mutant: the counts of the status decide, not a list of the volumes.
handleDeletionMutant ==
    /\ RecAt("deleting")
    /\ IF Allocated(rec.copy) > 0 THEN rec' = Idle /\ TryStatus("rec", rec.copy)
       ELSE rec' = [rec EXCEPT !.pc = "deleteShares"] /\ UNCHANGED <<pool, current>>
    /\ UNCHANGED <<cache, vols, vpc, mgr, faults, late, asks>>

\* handleDeletion: nothing happens while the cache shows a volume; otherwise
\* the recorded shares are deleted one by one, then the finalizer goes.
handleDeletion ==
    /\ RecAt("deleting")
    /\ \E shown \in SUBSET Placed :
        IF shown # {} THEN rec' = Idle /\ TryStatus("rec", rec.copy) /\ UNCHANGED late
        ELSE /\ rec' = [rec EXCEPT !.pc = "deleteShares"]
             /\ late' = late \cup (Placed \ shown)
             /\ UNCHANGED <<pool, current>>
    /\ UNCHANGED <<cache, vols, vpc, mgr, faults, asks>>

DeleteFileShare ==
    /\ RecAt("deleteShares") /\ rec.i > 0
    /\ \/ /\ vpc' = [vpc EXCEPT ![rec.copy.shares[rec.i].id].state = "deleted"]
          /\ rec' = [rec EXCEPT !.i = @ - 1] /\ UNCHANGED faults
          /\ UNCHANGED <<pool, current>>
       \/ Fault /\ rec' = Idle /\ Drops("rec") /\ UNCHANGED vpc
    /\ UNCHANGED <<cache, vols, mgr, late, asks>>

removeFinalizer ==
    /\ RecAt("deleteShares") /\ rec.i = 0
    /\ rec' = Idle
    /\ IF "rec" \in current
       THEN pool' = [pool EXCEPT !.gone = TRUE] /\ current' = {}
       ELSE UNCHANGED <<pool, current>>
    /\ UNCHANGED <<cache, vols, vpc, mgr, faults, late, asks>>

-----------------------------------------------------------------------------
(* The Manager's calls.  Allocate saves the status also when the expansion *)
(* ends with an error; a restore or a clone does not.                      *)

MgrAt(pc) == mgr.pc = pc

Room(copy) == {e \in ToSet(copy.shares) : shareReady(e) /\ e.pvc < PerShare}

\* The pool or the share is to take no more volumes.
Withdrawn(id) == pool.deleting \/ id \in pool.drain

\* tryAutoExpand up to the create request.
MayExpand(copy) ==
    /\ \A i \in DOMAIN copy.shares : copy.shares[i].state = "draining" \/ shareReady(copy.shares[i])
    /\ Len(copy.shares) < MaxShares

\* Allocate, reserveRestore and CloneVolume when a share has room.  The pool
\* is read in the step that uses it: a cache that lags shows every earlier
\* version anyhow.
Allocate(v) ==
    /\ MgrAt("idle") /\ ~cache.gone /\ vols[v] = None
    /\ \E e \in Room(cache) :
        /\ vols' = [vols EXCEPT ![v] = e.id]
        /\ late' = IF Withdrawn(e.id) THEN late \cup {v} ELSE late
        /\ mgr' = [pc |-> "charge", copy |-> cache, id |-> e.id, v |-> v, n |-> 1]
    /\ Reads("mgr")
    /\ UNCHANGED <<pool, cache, vpc, rec, faults, asks>>

\* The same calls when no share has room.
tryAutoExpand(v) ==
    /\ MgrAt("idle") /\ ~cache.gone /\ vols[v] = None
    /\ Room(cache) = {} /\ MayExpand(cache)
    /\ \E id \in Ids \cup {None} :
        /\ CreateShare(nextShareName(cache), RecordedIds(cache), id)
        /\ IF id = None THEN UNCHANGED <<mgr, current>>
           ELSE mgr' = [pc |-> "expandWait", copy |-> cache, id |-> id, v |-> v, n |-> 1] /\ Reads("mgr")
    /\ UNCHANGED <<pool, cache, vols, rec, late, asks>>

\* The new share is used at once if it is ready.  If it is not, Allocate saves
\* it in the status for the Reconciler, and the caller tries again.
autoExpandWait ==
    /\ MgrAt("expandWait")
    /\ \E ok \in BOOLEAN :
        /\ WaitEnds(mgr.id, ok)
        /\ \/ /\ ok /\ vpc[mgr.id].mt = "ready"
              /\ vols' = [vols EXCEPT ![mgr.v] = mgr.id]
              /\ late' = IF Withdrawn(mgr.id) THEN late \cup {mgr.v} ELSE late
              /\ mgr' = [mgr EXCEPT !.pc = "charge", !.copy = Recorded(@, mgr.id)]
              /\ UNCHANGED <<pool, current>>
           \/ /\ ok /\ vpc[mgr.id].mt # "ready" /\ mgr' = Free
              /\ TryStatus("mgr", Recorded(mgr.copy, mgr.id)) \/ Drops("mgr")
              /\ UNCHANGED <<vols, late>>
           \/ ~ok /\ mgr' = Free /\ Drops("mgr") /\ UNCHANGED <<vols, late>>
    /\ UNCHANGED <<cache, vpc, rec, asks>>

\* updateShareAllocation or updateShareDeallocation, and the update of the
\* status, whose refusal is only logged.
Charged(copy, id, n) ==
    [copy EXCEPT !.shares = [i \in DOMAIN copy.shares |->
        IF copy.shares[i].id = id THEN [copy.shares[i] EXCEPT !.pvc = @ + n] ELSE copy.shares[i]]]

updateShareAllocation ==
    /\ MgrAt("charge")
    /\ TryStatus("mgr", Charged(mgr.copy, mgr.id, mgr.n))
    /\ mgr' = Free
    /\ UNCHANGED <<cache, vols, vpc, rec, faults, late, asks>>

Deallocate(v) ==
    /\ MgrAt("idle") /\ ~cache.gone /\ vols[v] # None /\ Ask
    /\ vols' = [vols EXCEPT ![v] = None] /\ late' = late \ {v}
    /\ mgr' = [Free EXCEPT !.pc = "charge", !.copy = cache, !.id = vols[v], !.n = -1]
    /\ Reads("mgr")
    /\ UNCHANGED <<pool, cache, vpc, rec, faults>>

-----------------------------------------------------------------------------
(* The administrator, the VPC, the informer cache and restarts. *)

\* A change of the pool's spec or metadata.
Patch(p) == ~pool.gone /\ pool' = p /\ current' = {}

\* The status of an earlier drain is there until the next pass.
Drain(id) ==
    /\ id \in RecordedIds(pool) \ pool.drain
    /\ Ask /\ Patch([pool EXCEPT !.drain = @ \cup {id}])
    /\ late' = IF id \in pool.drained THEN late \cup OnShare(id) ELSE late
    /\ UNCHANGED <<cache, vols, vpc, rec, mgr, faults>>

StopDrain(id) ==
    /\ id \in pool.drain /\ Exists(id)
    /\ Patch([pool EXCEPT !.drain = @ \ {id}])
    /\ UNCHANGED <<cache, vols, vpc, rec, mgr, faults, late, asks>>

\* The documented way to remove a share: it is on the drain list and the
\* status says that it is drained.
RemoveDrained(id) ==
    /\ id \in pool.drain \cap pool.drained /\ Exists(id)
    /\ vpc' = [vpc EXCEPT ![id].state = "deleted"]
    /\ UNCHANGED <<pool, cache, vols, current, rec, mgr, faults, late, asks>>

DeletePool ==
    /\ ~pool.deleting
    /\ Ask /\ Patch([pool EXCEPT !.deleting = TRUE])
    /\ UNCHANGED <<cache, vols, vpc, rec, mgr, faults, late>>

\* A share becomes stable, or fails, as a stable one may later ("failed" is
\* also the VPC's "degraded").
ShareSettles(id) ==
    /\ \/ vpc[id].state = "pending" /\ vpc' = [vpc EXCEPT ![id].state = "stable"] /\ UNCHANGED faults
       \/ vpc[id].state \in {"pending", "stable"} /\ vpc' = [vpc EXCEPT ![id].state = "failed"] /\ Fault
    /\ UNCHANGED <<pool, cache, vols, current, rec, mgr, late, asks>>

MountTargetReady(id) ==
    /\ Exists(id) /\ vpc[id].mt = "pending"
    /\ vpc' = [vpc EXCEPT ![id].mt = "ready"]
    /\ UNCHANGED <<pool, cache, vols, current, rec, mgr, faults, late, asks>>

SyncPool ==
    /\ "cache" \notin current
    /\ cache' = pool /\ current' = current \cup {"cache"}
    /\ UNCHANGED <<pool, vols, vpc, rec, mgr, faults, late, asks>>

Restart ==
    /\ Fault /\ (rec # Idle \/ mgr # Free)
    /\ rec' = Idle /\ mgr' = Free
    /\ cache' = pool /\ current' = {"cache"}
    /\ UNCHANGED <<pool, vols, vpc, late, asks>>

-----------------------------------------------------------------------------
RecStep ==
    \/ Reconcile \/ initialProvisioning \/ initialWait
    \/ updateStatusRetryingConflict \/ Reread \/ healthCheck \/ recount
    \/ proactiveExpansion \/ expandWait \/ persist
    \/ handleDeletion \/ DeleteFileShare \/ removeFinalizer

MgrStep == autoExpandWait \/ updateShareAllocation

Calls == \E v \in Volumes : Allocate(v) \/ tryAutoExpand(v) \/ Deallocate(v)

VPCStep == \E id \in Ids : ShareSettles(id) \/ MountTargetReady(id)

AdminStep == DeletePool \/ \E id \in Ids : Drain(id) \/ StopDrain(id) \/ RemoveDrained(id)

Next == RecStep \/ MgrStep \/ Calls \/ VPCStep \/ AdminStep \/ SyncPool \/ Restart

Spec == Init /\ [][Next]_vars

-----------------------------------------------------------------------------
(* Properties. *)

TypeOK ==
    /\ \A p \in {pool, cache, rec.copy, mgr.copy} :
        /\ p.phase \in {"Initializing", "Expanding"}
        /\ Len(p.shares) <= MaxShares /\ ToSet(p.shares) \subseteq Entry
        /\ p.drain \subseteq Ids /\ p.drained \subseteq Ids
        /\ p.deleting \in BOOLEAN /\ p.gone \in BOOLEAN
    /\ vols \in [Volumes -> Ids \cup {None}]
    /\ current \subseteq {"cache", "rec", "mgr"}
    /\ faults \in 0 .. MaxFaults /\ asks \in 0 .. MaxAsks /\ late \subseteq Volumes

\* A volume never loses its share: it lies on a share the VPC has, with a
\* mount target, unless it was created on a pool under deletion or a share on
\* the drain list (a call that read the pool before), was not yet in the cache
\* when the Reconciler found the pool or the share empty, or lies on a share
\* that is drained again while its status of an earlier drain is still there.
VolumeHasShare ==
    \A v \in Volumes \ late : vols[v] # None => Exists(vols[v]) /\ vpc[vols[v]].mt = "ready"

\* However many records are lost to refused updates and restarts, the pool
\* never has more shares with a mount target than maxShares: a create finds
\* the lost share by its name.
SharesBounded == Cardinality({id \in Ids : Exists(id) /\ vpc[id].mt # "none"}) <= MaxShares

\* A share whose record was lost, to a refused update or a restart, is found
\* again: its name is one that a later expansion will count to, or that of a
\* recorded share without a mount target, which the health check replaces.
\* (Once a share was removed, the counted names repeat.)
LostShareFound ==
    (\A id \in Ids : vpc[id].state # "deleted") =>
        \A id \in Ids : Exists(id) /\ vpc[id].mt # "none" /\ id \notin RecordedIds(pool) =>
            \/ vpc[id].name > Len(pool.shares)
            \/ \E e \in ToSet(pool.shares) : e.name = vpc[id].name /\ vpc[e.id].mt = "none"

\* However many records are lost to refused updates and restarts, the pool has
\* at most maxShares shares with a mount target, and a share without a record
\* is found again by its name (nextShareName, the create call's conflict).
SharesKnown == TypeOK /\ SharesBounded /\ LostShareFound

\* A pool below maxShares can always grow: the next share's name is free, or
\* names a share the create call may adopt.
ExpansionPossible ==
    MayExpand(pool) /\ ~pool.deleting /\ Unused # {} =>
        \/ ~Collides(nextShareName(pool))
        \/ getShareByName(nextShareName(pool), RecordedIds(pool)) # {}
=============================================================================
