---------------------------- MODULE PoolCapacity ----------------------------
(***************************************************************************)
(* The space accounting of one FileSharePool: the Manager's calls and the  *)
(* Reconciler's recount, which both write the pool's status.               *)
(*                                                                         *)
(* Three objects are kept by the API server: the pool's status (per share  *)
(* AllocatedGB and PVCCount), the SubVolume CRs and the Snapshot CRs.  All *)
(* reads of the Manager and the Reconciler come from the informer cache of *)
(* the controller process, which lags behind the API server; a status      *)
(* update is refused when the copy it was computed from is not the latest  *)
(* version.  The API server only compares resourceVersions for equality,   *)
(* so the model keeps the outcome of that comparison: "current" is the set *)
(* of the holders whose copy of the pool is the latest version.            *)
(*                                                                         *)
(* The shares here exist and are ready; ShareProvision models how they     *)
(* come and go.                                                            *)
(***************************************************************************)
EXTENDS Integers, FiniteSets

CONSTANTS
    Volumes,     \* names of SubVolume CRs (PV names)
    Snaps,       \* names of Snapshot CRs
    SourceOf,    \* the volume each snapshot name is taken of
    NumShares,   \* shares of the pool, numbered by their place in status.shares
    TotalGB,     \* size of each share
    Sizes,       \* sizes a caller may ask for
    MaxGB,       \* bound on a CR's size
    Strategy,    \* spec.allocationStrategy
    MaxCalls,    \* bound on the calls a behaviour makes
    MaxFaults    \* bound on restarts and failed API requests

Shares == 1 .. NumShares

ASSUME CapacityAssumption ==
    /\ IsFiniteSet(Volumes) /\ IsFiniteSet(Snaps)
    /\ Volumes \cap Snaps = {}
    /\ SourceOf \in [Snaps -> Volumes]
    /\ NumShares \in Nat \ {0}
    /\ TotalGB \in Nat /\ MaxGB \in Nat \ {0}
    /\ Sizes \subseteq 1 .. MaxGB
    /\ Strategy \in {"spread", "binpack"}
    /\ MaxCalls \in Nat /\ MaxFaults \in Nat

VARIABLES
    pool,       \* the pool's status at the API server: AllocatedGB, PVCCount per share
    sv,         \* SubVolume CRs at the API server
    snap,       \* Snapshot CRs at the API server
    poolCache, svCache, snapCache,   \* the informer cache's copies
    current,    \* holders of the pool's latest resourceVersion
    mu,         \* the call that holds Manager.mu
    muCopy,     \* that call's copy of the pool's status
    snapCall,   \* snapshot calls outside Manager.mu (they hold a volume lock)
    rec,        \* the Reconciler's pass
    calls,      \* calls, and other writes of the pool, so far
    faults,     \* restarts and failed API requests so far
    clean       \* history: books exact and undisturbed since (see BooksExact)

vars == <<pool, sv, snap, poolCache, svCache, snapCache, current,
          mu, muCopy, snapCall, rec, calls, faults, clean>>

-----------------------------------------------------------------------------
(* Data *)

Holders == {"cache", "mu", "rec"}

Book == [alloc : Int, pvc : Int]
NoBooks == [s \in Shares |-> [alloc |-> 0, pvc |-> 0]]

\* A SubVolume CR; size 0 stands for "no such CR".
VolCR == [share : Shares, gb : 0 .. MaxGB]
NoVol == [share |-> 1, gb |-> 0]

\* A Snapshot CR; its charge depends on how it was taken.
SnapCR == [share : Shares, size : 0 .. MaxGB, instant : BOOLEAN]
NoSnap == [share |-> 1, size |-> 0, instant |-> FALSE]

instantChargeGB(size) ==
    IF size <= 10 THEN 1 ELSE (size + 9) \div 10

snapshotChargeGB(cr) ==
    IF cr.size = 0 THEN 0
    ELSE IF cr.instant THEN instantChargeGB(cr.size) ELSE cr.size

Charges(s) == [n \in Snaps |-> [share |-> s[n].share, gb |-> snapshotChargeGB(s[n])]]

\* The gigabytes charged to a share, one <<name, g>> for each gigabyte.
Blocks(crs, s) ==
    {b \in (DOMAIN crs) \X (1 .. MaxGB) : crs[b[1]].share = s /\ b[2] <= crs[b[1]].gb}

Tally(crs, s) == Cardinality(Blocks(crs, s))

Count(crs, s) == Cardinality({v \in DOMAIN crs : crs[v].share = s /\ crs[v].gb > 0})

\* What the recount makes of the CRs: reconcileMetrics' per-share totals.
Recount(v, s) ==
    [i \in Shares |-> [alloc |-> Tally(v, i) + Tally(Charges(s), i), pvc |-> Count(v, i)]]

Used(s) == Tally(sv, s) + Tally(Charges(snap), s)

-----------------------------------------------------------------------------
(* Selecting and charging a share *)

Free(st, s) == TotalGB - st[s].alloc

Better(st, s, t) ==
    \/ Strategy = "spread" /\ Free(st, s) > Free(st, t)
    \/ Strategy = "binpack" /\ Free(st, s) < Free(st, t)

\* The first of the best shares that have room; empty when the pool is exhausted.
selectShare(st, gb) ==
    {s \in Shares :
        /\ Free(st, s) >= gb
        /\ \A t \in Shares : Free(st, t) >= gb =>
              /\ ~Better(st, t, s)
              /\ Free(st, t) = Free(st, s) => s <= t}

\* Mutant: the source's share is preferred whether it has room or not.
selectShareForCloneMutant(st, gb, source) == {source}

selectShareForClone(st, gb, source) ==
    IF Free(st, source) >= gb THEN {source} ELSE selectShare(st, gb)

Charged(st, s, gb, pvcs) ==
    [st EXCEPT ![s] = [alloc |-> @.alloc + gb, pvc |-> @.pvc + pvcs]]

-----------------------------------------------------------------------------
(* Locks, and what the history variable records *)

NoCall == [op |-> "none", pc |-> "idle", name |-> "none",
           share |-> 1, delta |-> 0, pvcs |-> 0, was |-> NoVol, locks |-> {}]

IdleSnap == [pc |-> "idle", share |-> 1, size |-> 0, instant |-> FALSE]

MuFree == mu.op = "none"

VolumeLocked(v) ==
    \/ v \in mu.locks
    \/ \E n \in Snaps : snapCall[n].pc # "idle" /\ SourceOf[n] = v

\* The space of a snapshot call between its two writes is in neither or both.
MidSnap(n) == snapCall[n].pc \in {"create", "unbook"}

InFlight == ~MuFree \/ \E n \in Snaps : MidSnap(n)

\* A call starts its bookkeeping: it reads the pool from the cache.
BeginCall(call) ==
    /\ MuFree
    /\ mu' = call
    /\ muCopy' = poolCache
    /\ current' = IF "cache" \in current THEN current \cup {"mu"} ELSE current \ {"mu"}
    /\ rec' = [rec EXCEPT !.clean = FALSE]
    /\ UNCHANGED <<pool, poolCache, svCache, snapCache, faults>>

\* The bookkeeping stays exact when the pass is idle and the reads are current.
StaysClean(readsCurrent) ==
    clean' = (clean /\ rec.pc = "idle" /\ "cache" \in current /\ readsCurrent)

\* A call returns: its copy of the pool is dropped.
EndCall ==
    /\ mu' = NoCall
    /\ muCopy' = NoBooks
    /\ UNCHANGED <<poolCache, svCache, snapCache>>

\* An API request fails although it is legal.
Fault == faults < MaxFaults /\ faults' = faults + 1

\* A request is refused for a reason of its own, or it fails.
Refused(reason) == IF reason THEN UNCHANGED faults ELSE Fault

-----------------------------------------------------------------------------
(* Manager calls that reserve space for a new SubVolume *)

Reserve(v, gb, s, locks) ==
    /\ BeginCall([op |-> "reserve", pc |-> "cr", name |-> v, share |-> s, delta |-> gb,
                  pvcs |-> 1, was |-> NoVol, locks |-> locks])
    /\ UNCHANGED <<sv, snap, snapCall>>

\* Allocate: a volume the cache already holds is returned as it is.
Allocate(v, gb) ==
    /\ svCache[v].gb = 0
    /\ \E s \in selectShare(poolCache, gb) : Reserve(v, gb, s, {})
    /\ StaysClean(TRUE)

\* RestoreSnapshot, reserveRestore: under the new volume's lock.
RestoreSnapshot(v, n, gb) ==
    /\ ~VolumeLocked(v) /\ svCache[v].gb = 0
    /\ snapCache[n].size > 0 /\ gb >= snapCache[n].size
    /\ \E s \in selectShare(poolCache, gb) : Reserve(v, gb, s, {v})
    /\ StaysClean(TRUE)

\* CloneVolume: under the source's lock.
CloneVolume(v, source, gb) ==
    /\ ~VolumeLocked(source) /\ svCache[v].gb = 0
    /\ svCache[source].gb > 0 /\ gb >= svCache[source].gb
    /\ \E s \in selectShareForClone(poolCache, gb, svCache[source].share) :
          Reserve(v, gb, s, {source})
    /\ StaysClean(TRUE)

\* CreateSubVolume: refused when the CR exists, or when the API call fails.
CreateSubVolume ==
    /\ mu.op = "reserve" /\ mu.pc = "cr"
    /\ \/ /\ sv[mu.name].gb = 0
          /\ sv' = [sv EXCEPT ![mu.name] = [share |-> mu.share, gb |-> mu.delta]]
          /\ mu' = [mu EXCEPT !.pc = "save"]
          /\ UNCHANGED <<muCopy, poolCache, svCache, snapCache, current, faults>>
       \/ Refused(sv[mu.name].gb > 0) /\ EndCall /\ current' = current \ {"mu"} /\ UNCHANGED sv
    /\ UNCHANGED <<pool, snap, snapCall, rec, clean>>

-----------------------------------------------------------------------------
(* Deallocate and Expand *)

\* Deallocate, up to the removal of the folder, under the volume's lock.
Deallocate(v) ==
    /\ ~VolumeLocked(v) /\ svCache[v].gb > 0
    /\ BeginCall([op |-> "dealloc", pc |-> "cr", name |-> v, share |-> svCache[v].share,
                  delta |-> -svCache[v].gb, pvcs |-> -1, was |-> svCache[v], locks |-> {v}])
    /\ StaysClean(svCache[v] = sv[v])
    /\ UNCHANGED <<sv, snap, snapCall>>

\* DeleteSubVolume: an error when the CR is gone already.
DeleteSubVolume ==
    /\ mu.op = "dealloc" /\ mu.pc = "cr"
    /\ \/ /\ sv[mu.name].gb > 0
          /\ sv' = [sv EXCEPT ![mu.name] = NoVol]
          /\ mu' = [mu EXCEPT !.pc = "save"]
          /\ UNCHANGED <<muCopy, poolCache, svCache, snapCache, current, faults>>
       \/ Refused(sv[mu.name].gb = 0) /\ EndCall /\ current' = current \ {"mu"} /\ UNCHANGED sv
    /\ UNCHANGED <<pool, snap, snapCall, rec, clean>>

\* Expand: only growth, and only into the free space of the volume's share.
Expand(v, gb) ==
    /\ svCache[v].gb > 0 /\ gb > svCache[v].gb
    /\ gb - svCache[v].gb <= Free(poolCache, svCache[v].share)
    /\ BeginCall([op |-> "expand", pc |-> "cr", name |-> v, share |-> svCache[v].share,
                  delta |-> gb - svCache[v].gb, pvcs |-> 0, was |-> svCache[v], locks |-> {}])
    /\ StaysClean(svCache[v] = sv[v])
    /\ UNCHANGED <<sv, snap, snapCall>>

\* Mutant: the growth is added to whatever size the CR has.
UpdateSubVolumeMutant ==
    /\ mu.op = "expand" /\ mu.pc = "cr"
    /\ sv' = [sv EXCEPT ![mu.name].gb = @ + mu.delta]
    /\ mu' = [mu EXCEPT !.pc = "save"]
    /\ UNCHANGED <<pool, snap, poolCache, svCache, snapCache, current, muCopy, snapCall,
                   rec, faults, clean>>

\* UpdateSubVolume: refused when the copy is not the latest version.
UpdateSubVolume ==
    /\ mu.op = "expand" /\ mu.pc = "cr"
    /\ \/ /\ sv[mu.name] = mu.was
          /\ sv' = [sv EXCEPT ![mu.name].gb = mu.was.gb + mu.delta]
          /\ mu' = [mu EXCEPT !.pc = "save"]
          /\ UNCHANGED <<muCopy, poolCache, svCache, snapCache, current, faults>>
       \/ Refused(sv[mu.name] # mu.was) /\ EndCall /\ current' = current \ {"mu"} /\ UNCHANGED sv
    /\ UNCHANGED <<pool, snap, snapCall, rec, clean>>

-----------------------------------------------------------------------------
(* The pool status update that ends a call under Manager.mu *)

\* A booking that succeeded lets its snapshot call go on; one that failed ends it.
SnapAfter(booked) ==
    CASE mu.op = "book" ->
            [snapCall EXCEPT ![mu.name] = IF booked THEN [@ EXCEPT !.pc = "create"] ELSE IdleSnap]
      [] mu.op = "unbook" -> [snapCall EXCEPT ![mu.name] = IdleSnap]
      [] OTHER -> snapCall

\* Mutant: a conflict is answered by charging the latest version, unchecked.
SaveStatusMutant ==
    /\ mu.pc = "save"
    /\ pool' = Charged(pool, mu.share, mu.delta, mu.pvcs)
    /\ current' = {}
    /\ snapCall' = SnapAfter(TRUE)
    /\ EndCall
    /\ UNCHANGED <<sv, snap, rec, faults, clean>>

\* The update is accepted; the caller may still not see the answer.
SaveStatus ==
    /\ mu.pc = "save" /\ "mu" \in current
    /\ pool' = Charged(muCopy, mu.share, mu.delta, mu.pvcs)
    /\ current' = {}
    /\ \/ UNCHANGED <<faults, clean>> /\ snapCall' = SnapAfter(TRUE)
       \/ Fault /\ snapCall' = SnapAfter(FALSE) /\ clean' = (clean /\ mu.op # "book")
    /\ EndCall
    /\ UNCHANGED <<sv, snap, rec>>

\* The update is refused (a conflict) or fails.  bookShare returns the error;
\* the other calls log it and succeed.
LoseStatus ==
    /\ mu.pc = "save" /\ Refused("mu" \notin current)
    /\ snapCall' = SnapAfter(FALSE)
    /\ clean' = (clean /\ mu.op = "book")
    /\ EndCall
    /\ current' = current \ {"mu"}
    /\ UNCHANGED <<pool, sv, snap, rec>>

-----------------------------------------------------------------------------
(* Snapshot calls: they hold their source volume's lock throughout and     *)
(* Manager.mu only while they book or give back space.                     *)

\* CreateSnapshot of a snapshot the cache does not hold, up to bookShare.
CreateSnapshot(n, instant) ==
    /\ ~VolumeLocked(SourceOf[n])
    /\ snapCache[n].size = 0 /\ svCache[SourceOf[n]].gb > 0
    /\ snapCall' = [snapCall EXCEPT ![n] =
          [pc |-> "book", share |-> svCache[SourceOf[n]].share,
           size |-> svCache[SourceOf[n]].gb, instant |-> instant]]
    /\ UNCHANGED <<pool, sv, snap, poolCache, svCache, snapCache, current,
                   mu, muCopy, rec, faults, clean>>

SnapCharge(n) == snapshotChargeGB([share |-> snapCall[n].share, size |-> snapCall[n].size,
                                   instant |-> snapCall[n].instant])

\* bookShare: checkShareRoom on the copy, then chargeShare.
bookShare(n) ==
    /\ snapCall[n].pc = "book"
    /\ SnapCharge(n) <= Free(poolCache, snapCall[n].share)
    /\ BeginCall([op |-> "book", pc |-> "save", name |-> n, share |-> snapCall[n].share,
                  delta |-> SnapCharge(n), pvcs |-> 0, was |-> NoVol, locks |-> {}])
    /\ StaysClean(TRUE)
    /\ UNCHANGED <<sv, snap, snapCall>>

\* bookShare refuses a charge the share has no room for, or cannot read the pool.
bookRefused(n) ==
    /\ snapCall[n].pc = "book" /\ MuFree
    /\ SnapCharge(n) > Free(poolCache, snapCall[n].share)
    /\ snapCall' = [snapCall EXCEPT ![n] = IdleSnap]
    /\ UNCHANGED <<pool, sv, snap, poolCache, svCache, snapCache, current,
                   mu, muCopy, rec, faults, clean>>

\* The Snapshot CR is created after its space is booked.  When that fails the
\* space is given back.
CreateSnapshotCR(n) ==
    /\ snapCall[n].pc = "create"
    /\ \/ /\ snap[n].size = 0
          /\ snap' = [snap EXCEPT ![n] = [share |-> snapCall[n].share, size |-> snapCall[n].size,
                                          instant |-> snapCall[n].instant]]
          /\ snapCall' = [snapCall EXCEPT ![n] = IdleSnap]
          /\ UNCHANGED faults
       \/ /\ Refused(snap[n].size > 0)
          /\ snapCall' = [snapCall EXCEPT ![n].pc = "unbook"] /\ UNCHANGED snap
    /\ UNCHANGED <<pool, sv, poolCache, svCache, snapCache, current,
                   mu, muCopy, rec, clean>>

\* DeleteSnapshot, and copySnapshotData after a failed copy Job: once the folder
\* is gone, the CR is deleted, and only then is its space given back.
DeleteSnapshot(n) ==
    /\ ~VolumeLocked(SourceOf[n]) /\ snapCache[n].size > 0 /\ snap[n].size > 0
    /\ snap' = [snap EXCEPT ![n] = NoSnap]
    /\ snapCall' = [snapCall EXCEPT ![n] =
          [pc |-> "unbook", share |-> snapCache[n].share,
           size |-> snapCache[n].size, instant |-> snapCache[n].instant]]
    /\ rec' = [rec EXCEPT !.clean = FALSE]
    /\ clean' = (clean /\ rec.pc = "idle" /\ snapCache[n] = snap[n])
    /\ UNCHANGED <<pool, sv, poolCache, svCache, snapCache, current, mu, muCopy, faults>>

\* unbookShare: no check, the charge is given back whatever the copy says.
unbookShare(n) ==
    /\ snapCall[n].pc = "unbook"
    /\ BeginCall([op |-> "unbook", pc |-> "save", name |-> n, share |-> snapCall[n].share,
                  delta |-> -SnapCharge(n), pvcs |-> 0, was |-> NoVol, locks |-> {}])
    /\ StaysClean(TRUE)
    /\ UNCHANGED <<sv, snap, snapCall>>

-----------------------------------------------------------------------------
(* The Reconciler's pass: read the pool, list SubVolumes, list Snapshots,  *)
(* save.  It takes neither Manager.mu nor a volume lock.                   *)

IdlePass == [pc |-> "idle", books |-> NoBooks,
             vols |-> [v \in Volumes |-> NoVol], clean |-> FALSE]

Reconcile ==
    /\ rec.pc = "idle"
    /\ rec' = [IdlePass EXCEPT !.pc = "volumes", !.books = poolCache, !.clean = ~InFlight]
    /\ current' = IF "cache" \in current THEN current \cup {"rec"} ELSE current \ {"rec"}
    /\ clean' = (clean /\ ~InFlight)
    /\ UNCHANGED <<pool, sv, snap, poolCache, svCache, snapCache, mu, muCopy, snapCall, faults>>

\* reconcileMetrics: the first list.
ListSubVolumes ==
    /\ rec.pc = "volumes"
    /\ rec' = [rec EXCEPT !.pc = "snaps", !.vols = svCache, !.clean = @ /\ svCache = sv]
    /\ clean' = (clean /\ svCache = sv)
    /\ UNCHANGED <<pool, sv, snap, poolCache, svCache, snapCache, current,
                   mu, muCopy, snapCall, faults>>

\* Mutant: the recount forgets the snapshots' charges.
ListSnapshotsMutant ==
    /\ rec.pc = "snaps"
    /\ rec' = [rec EXCEPT !.pc = "save", !.books = Recount(rec.vols, [n \in Snaps |-> NoSnap])]
    /\ UNCHANGED <<pool, sv, snap, poolCache, svCache, snapCache, current,
                   mu, muCopy, snapCall, faults, clean>>

\* reconcileMetrics: the second list, then the new per-share values.
ListSnapshots ==
    /\ rec.pc = "snaps"
    /\ rec' = [rec EXCEPT !.pc = "save", !.books = Recount(rec.vols, snapCache),
                          !.vols = [v \in Volumes |-> NoVol],
                          !.clean = @ /\ snapCache = snap]
    /\ clean' = (clean /\ snapCache = snap)
    /\ UNCHANGED <<pool, sv, snap, poolCache, svCache, snapCache, current,
                   mu, muCopy, snapCall, faults>>

\* A list that fails leaves the values of the copy as they were.
ListFails ==
    /\ rec.pc \in {"volumes", "snaps"} /\ Fault
    /\ rec' = [rec EXCEPT !.pc = "save", !.clean = FALSE]
    /\ UNCHANGED <<pool, sv, snap, poolCache, svCache, snapCache, current,
                   mu, muCopy, snapCall, clean>>

\* The pass ends with the status update; a refused one makes the pass run again.
SavePass ==
    /\ rec.pc = "save"
    /\ \/ /\ "rec" \in current
          /\ pool' = rec.books
          /\ current' = {}
          /\ clean' = (clean \/ rec.clean)
          /\ UNCHANGED faults
       \/ /\ Refused("rec" \notin current)
          /\ current' = current \ {"rec"} /\ UNCHANGED <<pool, clean>>
    /\ rec' = IdlePass
    /\ UNCHANGED <<sv, snap, poolCache, svCache, snapCache, mu, muCopy, snapCall>>

-----------------------------------------------------------------------------
(* The rest of the world *)

\* Another writer of the pool object: the golden image syncer's status, an
\* administrator's edit of the spec.  It changes no share's accounts.
OtherWrite ==
    /\ calls < MaxCalls /\ calls' = calls + 1
    /\ current' = {}
    /\ UNCHANGED <<pool, sv, snap, poolCache, svCache, snapCache,
                   mu, muCopy, snapCall, rec, faults, clean>>

SyncPool ==
    /\ "cache" \notin current
    /\ poolCache' = pool
    /\ current' = current \cup {"cache"}
    /\ UNCHANGED <<pool, sv, snap, svCache, snapCache, mu, muCopy, snapCall, rec, calls, faults, clean>>

SyncVolumes ==
    /\ svCache # sv
    /\ svCache' = sv
    /\ UNCHANGED <<pool, sv, snap, poolCache, snapCache, current,
                   mu, muCopy, snapCall, rec, calls, faults, clean>>

SyncSnaps ==
    /\ snapCache # snap
    /\ snapCache' = snap
    /\ UNCHANGED <<pool, sv, snap, poolCache, svCache, current,
                   mu, muCopy, snapCall, rec, calls, faults, clean>>

\* The controller restarts: every call and the pass are gone, the cache is listed anew.
Restart ==
    /\ Fault
    /\ mu' = NoCall /\ muCopy' = NoBooks
    /\ snapCall' = [n \in Snaps |-> IdleSnap]
    /\ rec' = IdlePass
    /\ poolCache' = pool /\ svCache' = sv /\ snapCache' = snap
    /\ current' = {"cache"}
    /\ clean' = (clean /\ ~InFlight)
    /\ UNCHANGED <<pool, sv, snap, calls>>

-----------------------------------------------------------------------------
Init ==
    /\ pool = NoBooks
    /\ sv = [v \in Volumes |-> NoVol]
    /\ snap = [n \in Snaps |-> NoSnap]
    /\ poolCache = pool /\ svCache = sv /\ snapCache = snap
    /\ current = {"cache"}
    /\ mu = NoCall /\ muCopy = NoBooks
    /\ snapCall = [n \in Snaps |-> IdleSnap]
    /\ rec = IdlePass
    /\ calls = 0 /\ faults = 0
    /\ clean = TRUE

VolumeCall ==
    /\ calls < MaxCalls /\ calls' = calls + 1
    /\ \E v \in Volumes :
          \/ \E gb \in Sizes :
                \/ Allocate(v, gb)
                \/ Expand(v, gb)
                \/ \E n \in Snaps : RestoreSnapshot(v, n, gb)
                \/ \E source \in Volumes \ {v} : CloneVolume(v, source, gb)
          \/ Deallocate(v)

SnapshotCall ==
    /\ calls < MaxCalls /\ calls' = calls + 1
    /\ \E n \in Snaps :
          \/ \E instant \in BOOLEAN : CreateSnapshot(n, instant)
          \/ DeleteSnapshot(n)

\* What a call that has begun still has to do.
SnapshotStep ==
    /\ \E n \in Snaps : bookShare(n) \/ bookRefused(n) \/ CreateSnapshotCR(n) \/ unbookShare(n)
    /\ UNCHANGED calls

ManagerStep ==
    /\ CreateSubVolume \/ DeleteSubVolume \/ UpdateSubVolume \/ SaveStatus \/ LoseStatus
    /\ UNCHANGED calls

Pass ==
    /\ Reconcile \/ ListSubVolumes \/ ListSnapshots \/ ListFails \/ SavePass
    /\ UNCHANGED calls

Next ==
    \/ VolumeCall \/ SnapshotCall \/ OtherWrite
    \/ SnapshotStep \/ ManagerStep \/ Pass
    \/ SyncPool \/ SyncVolumes \/ SyncSnaps \/ Restart

Spec == Init /\ [][Next]_vars

\* A request is answered or times out, so a call that has begun goes on; the
\* Reconciler is requeued after every pass; the informers deliver every change.
FairSpec ==
    /\ Spec
    /\ WF_vars(ManagerStep) /\ WF_vars(SnapshotStep)
    /\ WF_vars(Pass)
    /\ WF_vars(SyncPool) /\ WF_vars(SyncVolumes) /\ WF_vars(SyncSnaps)

-----------------------------------------------------------------------------
(* Properties *)

CallType ==
    [op : {"none", "reserve", "dealloc", "expand", "book", "unbook"}, pc : {"idle", "cr", "save"},
     name : Volumes \cup Snaps \cup {"none"}, share : Shares, delta : Int, pvcs : {-1, 0, 1},
     was : VolCR, locks : SUBSET Volumes]

SnapCallType ==
    [pc : {"idle", "book", "create", "unbook"}, share : Shares, size : 0 .. MaxGB, instant : BOOLEAN]

PassType ==
    [pc : {"idle", "volumes", "snaps", "save"}, books : [Shares -> Book],
     vols : [Volumes -> VolCR], clean : BOOLEAN]

TypeOK ==
    /\ pool \in [Shares -> Book] /\ poolCache \in [Shares -> Book] /\ muCopy \in [Shares -> Book]
    /\ sv \in [Volumes -> VolCR] /\ svCache \in [Volumes -> VolCR]
    /\ snap \in [Snaps -> SnapCR] /\ snapCache \in [Snaps -> SnapCR]
    /\ current \subseteq Holders
    /\ mu \in CallType
    /\ snapCall \in [Snaps -> SnapCallType]
    /\ rec \in PassType
    /\ calls \in 0 .. MaxCalls /\ faults \in 0 .. MaxFaults
    /\ clean \in BOOLEAN

\* The charge of snapshot calls whose space is booked but whose CR is not there.
Booked ==
    [n \in Snaps |-> [share |-> snapCall[n].share, gb |-> IF MidSnap(n) THEN SnapCharge(n) ELSE 0]]

\* What the call under Manager.mu has written to its SubVolume and not to the pool.
Late(s) == mu.pc = "save" /\ mu.op \in {"reserve", "dealloc", "expand"} /\ mu.share = s

\* While nothing has disturbed the accounts (see "clean": a stale read, a pass
\* that overlaps a call, a lost update or a restart in a call), each share's
\* AllocatedGB and PVCCount are exactly those of the SubVolume and Snapshot
\* CRs, up to the call in progress; an undisturbed recount restores this.
BooksExact ==
    clean => \A s \in Shares :
        /\ pool[s].alloc + (IF Late(s) THEN mu.delta ELSE 0) = Used(s) + Tally(Booked, s)
        /\ pool[s].pvc + (IF Late(s) THEN mu.pvcs ELSE 0) = Count(sv, s)

\* While nothing has disturbed the accounts, no step makes the CRs of a share
\* ask for more than the share has: over-commitment needs a disturbance.
NoCleanOvercommit ==
    [][\A s \in Shares : clean /\ Used(s)' > Used(s) => Used(s)' <= TotalGB]_vars

\* Whatever is stale or interleaved, a status update of the Manager never
\* raises a share's recorded AllocatedGB above its size: the room it checked on
\* its copy is still there when the API server accepts the update.
ManagerUpdateFits ==
    [][\A s \in Shares :
          mu.pc = "save" /\ mu'.pc = "idle" /\ pool'[s].alloc > pool[s].alloc
              => pool'[s].alloc <= TotalGB]_vars

\* Once calls and faults have stopped, the recount makes the accounts exact for
\* good, whatever was lost before.
RecountRepairs == <>[](pool = Recount(sv, snap))

\* SKILL.md: "never silently overcommit".
NeverOvercommitted == \A s \in Shares : Used(s) <= TotalGB
=============================================================================
