------------------------------ MODULE DiskChain ------------------------------
(***************************************************************************)
(* Instant snapshots of one VM disk: the chain of qcow2 files in the       *)
(* volume's folder, the two records of it (SubVolume.status.diskChain and  *)
(* Snapshot.status.chainFile), the Jobs and the QEMU block jobs that       *)
(* change it, and the VM that starts, writes and stops meanwhile.          *)
(*                                                                         *)
(* All Manager calls here hold the lock of the disk's volume, so there is  *)
(* one call at a time; a call may end at any step (an API error, a command *)
(* error, a restart of the controller) and is then called again.  The      *)
(* guest's data are write numbers: a file's layer is the set of the writes *)
(* it holds, and what a file shows is its layer and the layers below it.   *)
(*                                                                         *)
(* The Manager reads SubVolumes and Snapshots from the informer cache; the *)
(* webhook that admits a VM reads the SubVolume from the API server.       *)
(***************************************************************************)
EXTENDS Naturals, Sequences, FiniteSets, SequencesExt

CONSTANTS
    Snaps,         \* snapshot names; a snapshot's name is also its file's name
    Base,          \* disk.img
    None,          \* no file, no snapshot
    MaxSnapshots,  \* vmsnap.MaxSnapshots
    Lags,          \* the cached records that may lag: of {"volume", "snapshots", "restores"}
    Late,          \* whether an admitted VM may be stored later than its admission
    Restores,      \* whether snapshots are restored
    MaxWrites,     \* bound on guest writes
    MaxStarts,     \* bound on VM starts
    MaxFaults      \* bound on failed requests, commands and restarts

Files == Snaps \cup {Base}

VARIABLES
    disk,     \* the files of the volume's folder
    sv,       \* the SubVolume CR: diskChain (disk.img alone for a plain disk), chainOperation
    snap,     \* the Snapshot CRs
    svCache, snapCache,   \* the informer cache's copies
    restCache,            \* the phase of the restore's SubVolume in that cache
    vm,       \* the VM: its state, the file its disk opens, QEMU's chain and block job
    call,     \* the Manager call that holds the volume's lock
    job,      \* the chain Job of each snapshot
    rest,     \* one restore: its SubVolume and its Job
    unwanted, \* snapshots whose deletion has been asked for
    taken,    \* history: the writes the disk showed when a snapshot was taken
    writes, starts, faults,
    disturbed,  \* history: a call ended where the records do not tell what it did
    slipped     \* history: a VM came past the mark of a Job: admitted before it and
                \* stored after the check, or admitted while the mark could not be read

vars == <<disk, sv, snap, svCache, snapCache, restCache, vm, call, job, rest, unwanted,
          taken, writes, starts, faults, disturbed, slipped>>

-----------------------------------------------------------------------------
(* Files and what they show *)

Missing == [layer |-> {}, back |-> None, frozen |-> FALSE, there |-> FALSE]
NewFile(b) == [layer |-> {}, back |-> b, frozen |-> FALSE, there |-> TRUE]

\* The chain QEMU finds when it opens a file: the file and its backing files.
ChainFrom(d, f) ==
    LET down[n \in 0 .. Cardinality(Snaps)] ==
            IF n = 0 THEN <<f>>
            ELSE IF d[Last(down[n - 1])].back = None THEN down[n - 1]
            ELSE Append(down[n - 1], d[Last(down[n - 1])].back)
    IN  down[Cardinality(Snaps)]

Sound(d, f) == LET c == ChainFrom(d, f) IN Last(c) = Base /\ \A i \in DOMAIN c : d[c[i]].there

Shows(d, f) == LET c == ChainFrom(d, f) IN UNION {d[c[i]].layer : i \in DOMAIN c}

In(chain, f) == \E i \in DOMAIN chain : chain[i] = f
Place(chain, f) == CHOOSE i \in DOMAIN chain : chain[i] = f

Above(chain, f) == IF Place(chain, f) = 1 THEN None ELSE chain[Place(chain, f) - 1]
Without(chain, f) == SelectSeq(chain, LAMBDA g : g # f)

-----------------------------------------------------------------------------
(* Records *)

TakeKey(s) == <<"chain", s>>
MergeKey(s) == <<"chain-rm", s>>
LiveKey(s) == <<"chain-live-rm", s>>
NoOp == <<"", None>>

PlainDisk == [gone |-> FALSE, chain |-> <<Base>>, op |-> NoOp]
NoSnap == [phase |-> "none", ready |-> FALSE, file |-> None, child |-> None]
NoCall == [kind |-> "none", pc |-> "idle", s |-> None, sv |-> PlainDisk, was |-> NoSnap, sn |-> NoSnap,
           res |-> <<>>, pod |-> 0]
NoJob == [kind |-> "none", pc |-> "none", file |-> None, child |-> None, grand |-> None]
NoRestore == [phase |-> "none", s |-> None, read |-> None, job |-> "none", file |-> None,
              got |-> {}, wanted |-> FALSE, overlooked |-> FALSE]
Off == [st |-> "off", top |-> None, chain |-> <<>>, job |-> "none", file |-> None]

Exists(cr) == cr.phase \notin {"none", "gone"}

\* A call on a snapshot has ended and left what the records do not tell: a file
\* taken in a running VM that no record names, the mark of a Job not started yet
\* on the disk of a VM that runs, or a merge in a running VM that is done and not recorded.
LeftBehind ==
    ~sv.gone /\ \E s \in Snaps : call.s # s /\
        \/ snap[s].phase = "Creating" /\ disk[s].there /\ ~In(sv.chain, s) /\ sv.op # TakeKey(s)
        \/ sv.op \in {TakeKey(s), MergeKey(s)} /\ vm.st \in {"vmi", "on"} /\ job[s].pc = "none"
        \/ sv.op = LiveKey(s) /\ snap[s].child # None /\ ~disk[snap[s].child].there

\* A cached record follows at once, or it stays as it is until an event comes.
CacheStep ==
    /\ svCache' = IF "volume" \in Lags THEN svCache ELSE sv'
    /\ snapCache' = IF "snapshots" \in Lags THEN snapCache ELSE snap'
    /\ restCache' = IF "restores" \in Lags THEN restCache ELSE rest'.phase
    /\ disturbed' = (disturbed \/ LeftBehind')

Fault == faults < MaxFaults /\ faults' = faults + 1
Refused(reason) == IF reason THEN UNCHANGED faults ELSE Fault

At(kinds, pc) == call.kind \in kinds /\ call.pc = pc
Goto(pc) == call' = [call EXCEPT !.pc = pc]
End == call' = NoCall

\* A call reads its SubVolume from the cache.
Begin(kind, pc, s, cr) ==
    /\ call = NoCall
    /\ call' = [NoCall EXCEPT !.kind = kind, !.pc = pc, !.s = s, !.sv = svCache,
                              !.was = cr, !.sn = cr]

-----------------------------------------------------------------------------
(* Writes of the two records *)

\* saveDiskChain: on the cached copy, so a stale cache makes it a conflict.
saveDiskChain(chain, op, then) ==
    \/ /\ svCache = sv /\ ~sv.gone
       /\ sv' = [sv EXCEPT !.chain = chain, !.op = op]
       /\ then
       /\ UNCHANGED <<snap, faults>>
    \/ Refused(svCache # sv \/ sv.gone) /\ End /\ UNCHANGED <<sv, snap>>

\* UpdateSnapshotStatus: on the copy the call has read.
UpdateSnapshotStatus(cr, then) ==
    \/ /\ call.was = snap[call.s]
       /\ snap' = [snap EXCEPT ![call.s] = cr]
       /\ then
       /\ UNCHANGED <<sv, faults>>
    \/ Refused(call.was # snap[call.s]) /\ End /\ UNCHANGED <<sv, snap>>

-----------------------------------------------------------------------------
(* CreateSnapshot, takeInstant *)

\* A new instant snapshot has its CR made first; a snapshot that is not ready
\* is gone on with; one that has failed is answered with its message.
CreateSnapshot(s) ==
    /\ ~svCache.gone /\ s \notin unwanted
    /\ \/ /\ snapCache[s].phase = "none" /\ snap[s].phase = "none"
          /\ snap' = [snap EXCEPT ![s].phase = "Creating"]
          /\ Begin("take", "plan", s, snap'[s])
       \/ /\ snapCache[s].phase = "Creating"
          /\ Begin("take", "plan", s, snapCache[s])
          /\ UNCHANGED snap
    /\ UNCHANGED <<disk, sv, vm, job, rest, unwanted, taken, writes, starts, faults>>

\* A command runs in the pod the call has found; another start is another pod.
PodRuns == vm.st = "on" /\ starts = call.pod

NoVM == vm.st \in {"off", "admitted"}

planInstant ==
    /\ At({"take"}, "plan")
    /\ CASE call.sv.op = TakeKey(call.s) -> Goto("off")
         [] call.sv.op \notin {TakeKey(call.s), NoOp} -> End
         [] call.sv.op = NoOp -> IF vm.st = "on" THEN call' = [call EXCEPT !.pc = "live", !.pod = starts]
                                 ELSE IF NoVM THEN Goto("off") ELSE End
    /\ UNCHANGED <<disk, sv, snap, vm, job, rest, unwanted, taken, writes, starts, faults>>

\* Take in a running VM, up to the new top file.  A command that fails before
\* libvirt made the snapshot leaves nothing; one that fails after it leaves the
\* new file on top and the call ends with an error.
Take ==
    LET s == call.s
        top == Head(vm.chain)
    IN
    /\ At({"take"}, "live")
    /\ UNCHANGED <<sv, job, rest, unwanted, writes, starts>>
    /\ CASE ~PodRuns -> End /\ UNCHANGED <<disk, snap, vm, taken, faults>>
         [] PodRuns /\ top = s ->
              /\ disk' = [disk EXCEPT ![vm.chain[2]].frozen = TRUE]
              /\ call' = [call EXCEPT !.pc = "save", !.res = vm.chain]
              /\ UNCHANGED <<snap, vm, taken, faults>>
         [] PodRuns /\ top # s /\ Len(vm.chain) > MaxSnapshots ->
              /\ End
              /\ snap' = [snap EXCEPT ![s].phase = IF call.was = snap[s] THEN "Failed" ELSE @]
              /\ UNCHANGED <<disk, vm, taken, faults>>
         [] OTHER ->
              \/ /\ disk' = [disk EXCEPT ![s] = NewFile(top)]
                 /\ vm' = [vm EXCEPT !.chain = <<s>> \o @]
                 /\ taken' = [taken EXCEPT ![s] = Shows(disk, top)]
                 /\ \/ call' = [call EXCEPT !.pc = "freeze", !.res = vm'.chain] /\ UNCHANGED faults
                    \/ Fault /\ End
                 /\ UNCHANGED snap
              \/ Fault /\ End /\ UNCHANGED <<disk, snap, vm, taken>>

\* Take's last command makes the old top read-only.  If it fails, rollBack
\* merges the new file back, which may fail as well.
Freeze ==
    LET s == call.s
        top == call.res[2]
    IN
    /\ At({"take"}, "freeze")
    /\ \/ PodRuns /\ disk' = [disk EXCEPT ![top].frozen = TRUE] /\ Goto("save")
          /\ UNCHANGED <<vm, faults>>
       \/ PodRuns /\ Fault /\ End
          /\ \/ /\ disk' = [disk EXCEPT ![top].layer = @ \cup disk[s].layer, ![s] = Missing]
                /\ vm' = [vm EXCEPT !.chain = Tail(@)]
             \/ UNCHANGED <<disk, vm>>
       \/ ~PodRuns /\ End /\ UNCHANGED <<disk, vm, faults>>
    /\ UNCHANGED <<sv, snap, job, rest, unwanted, taken, writes, starts>>

-----------------------------------------------------------------------------
(* takeInstantOffline; findUntrackedInstant finishes a pending take with it *)

takeInstantOffline ==
    LET s == call.s
        chain == call.sv.chain
    IN
    /\ At({"take", "delete"}, "off")
    /\ UNCHANGED <<disk, vm, job, rest, unwanted, taken, writes, starts>>
    /\ CASE chain[1] = s ->
              call' = [call EXCEPT !.pc = "save", !.res = chain] /\ UNCHANGED <<sv, snap, faults>>
         [] chain[1] # s /\ Len(chain) > MaxSnapshots ->
              /\ End
              /\ snap' = [snap EXCEPT ![s].phase = IF call.was = snap[s] THEN "Failed" ELSE @]
              /\ UNCHANGED <<sv, faults>>
         [] chain[1] # s /\ Len(chain) <= MaxSnapshots /\ call.sv.op # TakeKey(s) ->
              saveDiskChain(chain, TakeKey(s), Goto("check"))
         [] OTHER -> Goto("job") /\ UNCHANGED <<sv, snap, faults>>

\* Mutant: the VM is not looked for again after the mark.
checkVMStoppedMutant ==
    /\ At({"take", "delete"}, "check")
    /\ Goto(IF call.kind = "take" THEN "job" ELSE "merge job")
    /\ UNCHANGED <<disk, sv, snap, vm, job, rest, unwanted, taken, writes, starts, faults>>

\* checkVMStopped after the mark: a VM that has started takes the mark back.
checkVMStopped ==
    /\ At({"take", "delete"}, "check")
    /\ \/ NoVM /\ Goto(IF call.kind = "take" THEN "job" ELSE "merge job") /\ UNCHANGED <<sv, snap, faults>>
       \/ ~NoVM /\ saveDiskChain(call.sv.chain, NoOp, End)
    /\ UNCHANGED <<disk, vm, job, rest, unwanted, taken, writes, starts>>

\* RunChainScript for the take: it starts the Job, waits for it, or ends it.
RunTake ==
    LET s == call.s IN
    /\ At({"take", "delete"}, "job")
    /\ CASE job[s].pc = "none" ->
              /\ job' = [job EXCEPT ![s] = [NoJob EXCEPT !.kind = "take", !.pc = "create",
                                                         !.file = call.sv.chain[1]]]
              /\ End
         [] job[s].pc = "done" ->
              /\ job' = [job EXCEPT ![s] = NoJob]
              /\ call' = [call EXCEPT !.pc = "save", !.res = <<s>> \o call.sv.chain]
         [] job[s].pc = "failed" -> job' = [job EXCEPT ![s] = NoJob] /\ End
         [] OTHER -> UNCHANGED job /\ End
    /\ UNCHANGED <<disk, sv, snap, vm, rest, unwanted, taken, writes, starts, faults>>

\* The taken chain is recorded, then the snapshot.
SaveTaken ==
    /\ At({"take", "delete"}, "save")
    /\ saveDiskChain(call.res, NoOp, Goto("ready"))
    /\ UNCHANGED <<disk, vm, job, rest, unwanted, taken, writes, starts>>

ReadyCR == [call.sn EXCEPT !.phase = "Ready", !.ready = TRUE, !.file = call.res[2]]

\* A delete that has finished a pending take goes on with the snapshot in hand.
markInstantReady ==
    /\ At({"take", "delete"}, "ready")
    /\ UpdateSnapshotStatus(ReadyCR,
          IF call.kind = "take" THEN End
          ELSE call' = [call EXCEPT !.pc = "volume", !.was = ReadyCR, !.sn = ReadyCR, !.sv = svCache])
    /\ UNCHANGED <<disk, vm, job, rest, unwanted, taken, writes, starts>>

-----------------------------------------------------------------------------
(* DeleteSnapshot, deleteInstant *)

\* The sidecar asks once no claim is being restored from the snapshot, and goes
\* on asking until the record is gone.
DeleteSnapshot(s) ==
    /\ Exists(snapCache[s])
    /\ s \in unwanted \/ ~(rest.phase = "Creating" /\ rest.wanted /\ rest.s = s)
    /\ unwanted' = unwanted \cup {s}
    /\ Begin("delete", "find", s, snapCache[s])
    /\ UNCHANGED <<disk, sv, snap, vm, job, rest, taken, writes, starts, faults>>

\* findUntrackedInstant: a snapshot with no chain file is looked up in the
\* recorded chain; a pending take is finished first.
findUntrackedInstant ==
    LET s == call.s
        chain == call.sv.chain
    IN
    /\ At({"delete"}, "find")
    /\ CASE call.sn.file # None -> call' = [call EXCEPT !.pc = "volume", !.sv = svCache]
         [] call.sn.file = None /\ ~call.sv.gone /\ call.sv.op = TakeKey(s) -> Goto("off")
         [] call.sn.file = None /\ ~call.sv.gone /\ call.sv.op # TakeKey(s) /\ In(chain, s) ->
              call' = [call EXCEPT !.pc = "volume", !.sv = svCache, !.sn.file = chain[Place(chain, s) + 1]]
         [] OTHER -> Goto("drop")
    /\ UNCHANGED <<disk, sv, snap, vm, job, rest, unwanted, taken, writes, starts, faults>>

\* deleteInstantOfGoneVolume: the last snapshot of a deleted disk removes its folder.
deleteInstantOfGoneVolume ==
    /\ At({"delete"}, "volume") /\ call.sv.gone
    /\ disk' = IF \E o \in Snaps \ {call.s} : Exists(snapCache[o]) THEN disk
               ELSE [f \in Files |-> Missing]
    /\ Goto("drop")
    /\ UNCHANGED <<sv, snap, vm, job, rest, unwanted, taken, writes, starts, faults>>

\* chainRestoreRunning: the cached list of SubVolumes has a restore of a snapshot
\* of the disk that is not Bound, and its claim still waits for it.
chainRestoreRunning == restCache = "Creating" /\ rest.wanted /\ Exists(snapCache[rest.s])

\* History: the list lacks a restore that reads the disk's snapshots.
Overlook ==
    rest' = [rest EXCEPT !.overlooked = @ \/ (rest.phase = "Creating" /\ restCache # "Creating")]

\* Mutant: the merge is chosen again by every call.
ChooseMergeMutant ==
    LET chain == call.sv.chain
        file == call.sn.file
        cr == [call.sn EXCEPT !.phase = "Deleting", !.child = Above(chain, file)]
    IN
    /\ At({"delete"}, "volume") /\ ~call.sv.gone
    /\ IF chainRestoreRunning THEN End /\ UNCHANGED <<sv, snap, faults>>
       ELSE IF ~In(chain, file) \/ Head(chain) = file
       THEN Goto("drop") /\ UNCHANGED <<sv, snap, faults>>
       ELSE UpdateSnapshotStatus(cr, call' = [call EXCEPT !.pc = "merge", !.was = cr, !.sn = cr])
    /\ Overlook
    /\ UNCHANGED <<disk, vm, job, unwanted, taken, writes, starts>>

\* The merge is chosen once: the next newer file of the recorded chain.
ChooseMerge ==
    LET chain == call.sv.chain
        file == call.sn.file
        cr == [call.sn EXCEPT !.phase = "Deleting", !.child = Above(chain, file)]
    IN
    /\ At({"delete"}, "volume") /\ ~call.sv.gone
    /\ CASE chainRestoreRunning -> End /\ UNCHANGED <<sv, snap, faults>>
         [] ~chainRestoreRunning /\ call.sn.child # None -> Goto("merge") /\ UNCHANGED <<sv, snap, faults>>
         [] ~chainRestoreRunning /\ call.sn.child = None ->
              IF ~In(chain, file) \/ Head(chain) = file
              THEN Goto("drop") /\ UNCHANGED <<sv, snap, faults>>
              ELSE UpdateSnapshotStatus(cr, call' = [call EXCEPT !.pc = "merge", !.was = cr, !.sn = cr])
    /\ Overlook
    /\ UNCHANGED <<disk, vm, job, unwanted, taken, writes, starts>>

\* mergeOffline up to the mark: a child the recorded chain lacks is merged already.
MergeOffline ==
    IF ~In(call.sv.chain, call.sn.child)
    THEN call' = [call EXCEPT !.pc = "move", !.res = call.sv.chain] /\ UNCHANGED <<sv, snap, faults>>
    ELSE IF call.sv.op = MergeKey(call.s) THEN Goto("merge job") /\ UNCHANGED <<sv, snap, faults>>
    ELSE saveDiskChain(call.sv.chain, MergeKey(call.s), Goto("check"))

\* The branches of deleteInstant: a Job, or QEMU in a running VM.
deleteInstant ==
    LET s == call.s
        op == call.sv.op
        MergeLive == call' = [call EXCEPT !.pc = "merge live", !.pod = starts]
    IN
    /\ At({"delete"}, "merge")
    /\ CASE op = MergeKey(s) -> MergeOffline
         [] op \notin {NoOp, MergeKey(s), LiveKey(s)} -> End /\ UNCHANGED <<sv, snap, faults>>
         [] op \in {NoOp, LiveKey(s)} /\ vm.st = "on" ->
              IF op = LiveKey(s) THEN MergeLive /\ UNCHANGED <<sv, snap, faults>>
              ELSE saveDiskChain(call.sv.chain, LiveKey(s), MergeLive)
         [] op = LiveKey(s) /\ vm.st # "on" -> saveDiskChain(call.sv.chain, NoOp, End)
         [] op = NoOp /\ vm.st # "on" ->
              IF NoVM THEN MergeOffline ELSE End /\ UNCHANGED <<sv, snap, faults>>
    /\ UNCHANGED <<disk, vm, job, rest, unwanted, taken, writes, starts>>

\* RunChainScript for the merge.
RunMerge ==
    LET s == call.s
        child == call.sn.child
    IN
    /\ At({"delete"}, "merge job")
    /\ CASE job[s].pc = "none" ->
              /\ job' = [job EXCEPT ![s] = [kind |-> "merge", pc |-> "check", file |-> call.sn.file,
                                            child |-> child, grand |-> Above(call.sv.chain, child)]]
              /\ End
         [] job[s].pc = "done" ->
              /\ job' = [job EXCEPT ![s] = NoJob]
              /\ call' = [call EXCEPT !.pc = "move", !.res = Without(call.sv.chain, child)]
         [] job[s].pc = "failed" -> job' = [job EXCEPT ![s] = NoJob] /\ End
         [] OTHER -> UNCHANGED job /\ End
    /\ UNCHANGED <<disk, sv, snap, vm, rest, unwanted, taken, writes, starts, faults>>

\* Merge in a running VM: it starts QEMU's commit, waits for it, pivots a ready
\* commit of the live file, or finds the merge done.
Merge ==
    LET file == call.sn.file
        child == call.sn.child
        live == PodRuns /\ In(vm.chain, file)
        Merged(chain) ==
            /\ disk' = [disk EXCEPT ![file].frozen = (Head(chain) # file), ![child] = Missing]
            /\ \/ call' = [call EXCEPT !.pc = "move", !.res = chain] /\ UNCHANGED faults
               \/ Fault /\ End
    IN
    /\ At({"delete"}, "merge live")
    /\ \/ ~live /\ End /\ UNCHANGED <<disk, vm, faults>>
       \/ live /\ ~In(vm.chain, child) /\ Merged(vm.chain) /\ UNCHANGED vm
       \/ /\ live /\ In(vm.chain, child) /\ vm.job = "none"
          /\ IF Above(vm.chain, file) = child
             THEN \/ disk' = [disk EXCEPT ![file].frozen = FALSE]
                     /\ vm' = [vm EXCEPT !.job = "commit", !.file = file] /\ UNCHANGED faults
                  \/ Fault /\ UNCHANGED <<disk, vm>>
             ELSE UNCHANGED <<disk, vm, faults>>
          /\ End
       \/ live /\ vm.job = "commit" /\ End /\ UNCHANGED <<disk, vm, faults>>
       \/ /\ live /\ vm.job = "ready"
          /\ vm' = [vm EXCEPT !.chain = Without(@, child), !.job = "none", !.file = None]
          /\ Merged(vm'.chain)
    /\ UNCHANGED <<sv, snap, job, rest, unwanted, taken, writes, starts>>

\* Mutant: no snapshot is moved.
MoveSnapshotsMutant ==
    /\ At({"delete"}, "move")
    /\ Goto("merged")
    /\ UNCHANGED <<disk, sv, snap, vm, job, rest, unwanted, taken, writes, starts, faults>>

\* The snapshot that was held in child is held in file now.
MoveSnapshots ==
    LET held == {o \in Snaps \ {call.s} : snapCache[o].file = call.sn.child} IN
    /\ At({"delete"}, "move")
    /\ \/ /\ \A o \in held : snapCache[o] = snap[o]
          /\ snap' = [o \in Snaps |-> IF o \in held THEN [snap[o] EXCEPT !.file = call.sn.file] ELSE snap[o]]
          /\ Goto("merged") /\ UNCHANGED faults
       \/ /\ Refused(\E o \in held : snapCache[o] # snap[o])
          /\ End /\ UNCHANGED snap
    /\ UNCHANGED <<disk, sv, vm, job, rest, unwanted, taken, writes, starts>>

\* Mutant: the chain the call has read is saved, not the merged one.
SaveMergedMutant ==
    /\ At({"delete"}, "merged")
    /\ saveDiskChain(call.sv.chain, NoOp, Goto("drop"))
    /\ UNCHANGED <<disk, vm, job, rest, unwanted, taken, writes, starts>>

SaveMerged ==
    /\ At({"delete"}, "merged")
    /\ saveDiskChain(call.res, NoOp, Goto("drop"))
    /\ UNCHANGED <<disk, vm, job, rest, unwanted, taken, writes, starts>>

\* deleteInstantSnapshot: the record goes last.
DropSnapshot ==
    /\ At({"delete"}, "drop")
    /\ \/ snap' = [snap EXCEPT ![call.s] = [NoSnap EXCEPT !.phase = "gone"]] /\ UNCHANGED faults
       \/ Fault /\ UNCHANGED snap
    /\ End
    /\ UNCHANGED <<disk, sv, vm, job, rest, unwanted, taken, writes, starts>>

-----------------------------------------------------------------------------
(* Deallocate of the disk's volume, once no VM uses it *)

\* The folder of a disk with instant snapshots stays for them.
Deallocate ==
    /\ call = NoCall /\ vm.st = "off" /\ ~svCache.gone /\ ~sv.gone
    /\ disk' = IF \E s \in Snaps : snapCache[s].file # None THEN disk ELSE [f \in Files |-> Missing]
    /\ sv' = [sv EXCEPT !.gone = TRUE]
    /\ UNCHANGED <<snap, vm, call, job, rest, unwanted, taken, writes, starts, faults>>

-----------------------------------------------------------------------------
(* Restore of a snapshot into a new volume *)

\* RestoreSnapshot reads the snapshot before it holds the disk's lock, and
\* reserveRestore records the new volume.
RestoreSnapshot(s) ==
    /\ Restores /\ rest.phase = "none" /\ s \notin unwanted /\ snapCache[s].ready
    /\ rest' = [NoRestore EXCEPT !.phase = "Creating", !.s = s, !.read = snapCache[s].file,
                                 !.wanted = TRUE]
    /\ UNCHANGED <<disk, sv, snap, vm, call, job, unwanted, taken, writes, starts, faults>>

\* copyRestoreData, restoreInstant under the disk's lock: the first call uses
\* the snapshot it read, the next ones read it again.
copyRestoreLocked ==
    LET file == IF rest.read # None THEN rest.read ELSE snapCache[rest.s].file
        again == [rest EXCEPT !.read = None]
    IN
    /\ call = NoCall /\ rest.phase = "Creating" /\ rest.wanted
    /\ rest.read # None \/ Exists(snapCache[rest.s])
    /\ rest' = CASE ~svCache.gone /\ svCache.op # NoOp -> again
                 [] rest.job = "none" -> [again EXCEPT !.job = "check", !.file = file]
                 [] rest.job = "done" -> [again EXCEPT !.job = "none", !.phase = "Bound"]
                 [] rest.job = "failed" -> [again EXCEPT !.job = "none"]
                 [] OTHER -> again
    /\ rest' # rest
    /\ UNCHANGED <<disk, sv, snap, vm, call, job, unwanted, taken, writes, starts, faults>>

\* ConvertScript: check the chain, then read it all; a change meanwhile mixes
\* two states (marked by write 0).
ConvertScript ==
    /\ \/ /\ rest.job = "check"
          /\ rest' = IF Sound(disk, rest.file)
                     THEN [rest EXCEPT !.job = "read", !.got = Shows(disk, rest.file)]
                     ELSE [rest EXCEPT !.job = "failed"]
       \/ /\ rest.job = "read"
          /\ rest' = IF ~Sound(disk, rest.file) THEN [rest EXCEPT !.job = "failed"]
                     ELSE IF Shows(disk, rest.file) = rest.got THEN [rest EXCEPT !.job = "done"]
                     ELSE [rest EXCEPT !.job = "done", !.got = @ \cup {0}]
    /\ UNCHANGED <<disk, sv, snap, vm, call, job, unwanted, taken, writes, starts, faults>>

\* The claim of the restore is deleted: nothing finishes it.
ClaimDeleted ==
    /\ rest.phase = "Creating" /\ rest.wanted
    /\ rest' = [rest EXCEPT !.wanted = FALSE]
    /\ UNCHANGED <<disk, sv, snap, vm, call, job, unwanted, taken, writes, starts, faults>>

-----------------------------------------------------------------------------
(* Chain Jobs *)

JobTo(s, pc) == job' = [job EXCEPT ![s].pc = pc]

\* check_chain: every link down to disk.img is there.
OfflineTakeScript(s) ==
    LET top == job[s].file IN
    /\ job[s].kind = "take"
    /\ \/ /\ job[s].pc = "create"
          /\ CASE ~Sound(disk, top) \/ (disk[s].there /\ disk[s].back # top) ->
                    JobTo(s, "failed") /\ UNCHANGED <<disk, taken>>
               [] Sound(disk, top) /\ disk[s].there /\ disk[s].back = top ->
                    JobTo(s, "mode") /\ UNCHANGED <<disk, taken>>
               [] OTHER ->
                    /\ disk' = [disk EXCEPT ![s] = NewFile(top)]
                    /\ taken' = [taken EXCEPT ![s] = Shows(disk, top)]
                    /\ JobTo(s, "mode")
       \/ /\ job[s].pc = "mode"
          /\ disk' = [disk EXCEPT ![top].frozen = TRUE]
          /\ JobTo(s, "done") /\ UNCHANGED taken
    /\ UNCHANGED <<sv, snap, vm, call, rest, unwanted, writes, starts, faults>>

OfflineMergeScript(s) ==
    LET file == job[s].file
        child == job[s].child
        grand == job[s].grand
        refused == \/ ~Sound(disk, child) \/ disk[child].back # file
                   \/ \E o \in Snaps \ {child, grand} : disk[o].there /\ disk[o].back = child
    IN
    /\ job[s].kind = "merge"
    /\ \/ /\ job[s].pc = "check"
          /\ JobTo(s, IF ~disk[child].there THEN "mode" ELSE IF refused THEN "failed" ELSE "commit")
          /\ disk' = IF disk[child].there /\ ~refused THEN [disk EXCEPT ![file].frozen = FALSE] ELSE disk
       \/ /\ job[s].pc = "commit"
          /\ disk' = [disk EXCEPT ![file].layer = @ \cup disk[child].layer]
          /\ JobTo(s, IF grand = None THEN "remove" ELSE "rebase")
       \/ /\ job[s].pc = "rebase"
          /\ disk' = [disk EXCEPT ![grand].back = file]
          /\ JobTo(s, "remove")
       \/ /\ job[s].pc = "remove"
          /\ disk' = [disk EXCEPT ![child] = Missing]
          /\ JobTo(s, "mode")
       \/ /\ job[s].pc = "mode"
          /\ IF disk[file].there
             THEN disk' = [disk EXCEPT ![file].frozen = (grand # None)] /\ JobTo(s, "done")
             ELSE JobTo(s, "failed") /\ UNCHANGED disk
    /\ UNCHANGED <<sv, snap, vm, call, rest, unwanted, taken, writes, starts, faults>>

\* A Job's pod stops part way and the script runs again from its start.
JobRunsAgain(s) ==
    /\ Fault
    /\ \/ job[s].kind = "take" /\ job[s].pc = "mode" /\ JobTo(s, "create")
       \/ job[s].kind = "merge" /\ job[s].pc \in {"commit", "rebase", "remove", "mode"} /\ JobTo(s, "check")
    /\ UNCHANGED <<disk, sv, snap, vm, call, rest, unwanted, taken, writes, starts>>

-----------------------------------------------------------------------------
(* The VM *)

Admit(top) == vm' = [Off EXCEPT !.st = IF Late THEN "admitted" ELSE "vmi", !.top = top]

\* The webhook's Handle: refused while a chain operation is recorded; the VM
\* opens the recorded top.  When the SubVolume cannot be read, the VM is
\* admitted as if its disk were plain.  Other refusals (the feature gate, a bad
\* annotation) leave the VM off.
Handle ==
    /\ vm.st = "off" /\ ~sv.gone /\ starts < MaxStarts /\ starts' = starts + 1
    /\ \/ sv.op = NoOp /\ Admit(Head(sv.chain)) /\ UNCHANGED <<faults, slipped>>
       \/ Fault /\ Admit(Base) /\ slipped' = (slipped \/ sv.op # NoOp)
    /\ UNCHANGED <<disk, sv, snap, call, job, rest, unwanted, taken, writes>>

\* The API server stores the admitted VM.  checkVMStopped sees it from now on.
Store ==
    /\ vm.st = "admitted"
    /\ vm' = [vm EXCEPT !.st = "vmi"]
    /\ slipped' = (slipped \/ (sv.op # NoOp /\ call.pc # "check"))
    /\ UNCHANGED <<disk, sv, snap, call, job, rest, unwanted, taken, writes, starts, faults>>

\* QEMU opens the top for writing: a missing or a read-only file fails the start.
BootVM ==
    /\ vm.st = "vmi"
    /\ vm' = IF Sound(disk, vm.top) /\ ~disk[vm.top].frozen
             THEN [vm EXCEPT !.st = "on", !.chain = ChainFrom(disk, vm.top)]
             ELSE Off
    /\ UNCHANGED <<disk, sv, snap, call, job, rest, unwanted, taken, writes, starts, faults>>

StopVM ==
    /\ vm.st \in {"vmi", "on"}
    /\ vm' = Off
    /\ UNCHANGED <<disk, sv, snap, call, job, rest, unwanted, taken, writes, starts, faults>>

\* A guest write goes to the top; a ready commit of the top mirrors it.
GuestWrite ==
    /\ vm.st = "on" /\ writes < MaxWrites /\ writes' = writes + 1
    /\ disk' = [f \in Files |->
          IF f = Head(vm.chain) \/ (vm.job = "ready" /\ f = vm.file)
          THEN [disk[f] EXCEPT !.layer = @ \cup {writes'}] ELSE disk[f]]
    /\ UNCHANGED <<sv, snap, vm, call, job, rest, unwanted, taken, starts, faults>>

\* QEMU's block job: part of the child's data, then all of it.  A commit of the
\* live file waits for its pivot; another one ends by itself.
BlockCommit ==
    LET file == vm.file
        child == Above(vm.chain, file)
    IN
    /\ vm.job = "commit"
    /\ \/ /\ \E w \in disk[child].layer \ disk[file].layer :
                disk' = [disk EXCEPT ![file].layer = @ \cup {w}]
          /\ UNCHANGED vm
       \/ /\ disk[child].layer \subseteq disk[file].layer
          /\ IF child = Head(vm.chain)
             THEN vm' = [vm EXCEPT !.job = "ready"] /\ UNCHANGED disk
             ELSE /\ vm' = [vm EXCEPT !.job = "none", !.file = None, !.chain = Without(@, child)]
                  /\ disk' = [disk EXCEPT ![Above(vm.chain, child)].back = file]
    /\ UNCHANGED <<sv, snap, call, job, rest, unwanted, taken, writes, starts, faults>>

-----------------------------------------------------------------------------
(* The controller *)

Restart ==
    /\ Fault /\ call # NoCall
    /\ End
    /\ UNCHANGED <<disk, sv, snap, vm, job, rest, unwanted, taken, writes, starts>>

Init ==
    /\ disk = [f \in Files |-> IF f = Base THEN NewFile(None) ELSE Missing]
    /\ sv = PlainDisk /\ snap = [s \in Snaps |-> NoSnap]
    /\ svCache = sv /\ snapCache = snap /\ restCache = "none"
    /\ vm = Off /\ call = NoCall
    /\ job = [s \in Snaps |-> NoJob]
    /\ rest = NoRestore /\ unwanted = {}
    /\ taken = [s \in Snaps |-> {}]
    /\ writes = 0 /\ starts = 0 /\ faults = 0
    /\ disturbed = FALSE /\ slipped = FALSE

TakeStep ==
    planInstant \/ Take \/ Freeze \/ takeInstantOffline \/ checkVMStopped \/ RunTake
        \/ SaveTaken \/ markInstantReady

DeleteStep ==
    findUntrackedInstant \/ deleteInstantOfGoneVolume \/ ChooseMerge \/ deleteInstant
        \/ RunMerge \/ Merge \/ MoveSnapshots \/ SaveMerged \/ DropSnapshot

CallStep == (TakeStep \/ DeleteStep) /\ CacheStep /\ UNCHANGED slipped

JobStep ==
    /\ ConvertScript \/ \E s \in Snaps : OfflineTakeScript(s) \/ OfflineMergeScript(s)
    /\ CacheStep /\ UNCHANGED slipped

VMStep == (BootVM \/ BlockCommit) /\ CacheStep /\ UNCHANGED slipped

Start == (Handle \/ Store) /\ CacheStep

World ==
    /\ \/ StopVM \/ GuestWrite \/ Restart \/ Deallocate \/ ClaimDeleted
       \/ \E s \in Snaps : JobRunsAgain(s) \/ RestoreSnapshot(s)
    /\ CacheStep /\ UNCHANGED slipped

Create(s) == CreateSnapshot(s) /\ CacheStep /\ UNCHANGED slipped
Delete(s) == DeleteSnapshot(s) /\ CacheStep /\ UNCHANGED slipped
CopyRestore == copyRestoreLocked /\ CacheStep /\ UNCHANGED slipped

\* The events of the records that lag arrive.
CacheFollows ==
    /\ <<svCache, snapCache, restCache>> # <<sv, snap, rest.phase>>
    /\ svCache' = sv /\ snapCache' = snap /\ restCache' = rest.phase
    /\ UNCHANGED <<disk, sv, snap, vm, call, job, rest, unwanted, taken, writes, starts,
                   faults, disturbed, slipped>>

Next ==
    \/ \E s \in Snaps : Create(s) \/ Delete(s)
    \/ CopyRestore \/ CallStep \/ JobStep \/ VMStep \/ Start \/ World \/ CacheFollows

Spec == Init /\ [][Next]_vars

\* A call that has begun goes on, Jobs and QEMU make progress; the sidecars
\* repeat a create, a delete and a restore until it succeeds, and the volume's
\* lock is handed to every waiting call.
FairSpec ==
    /\ Spec
    /\ WF_vars(CallStep) /\ WF_vars(JobStep) /\ WF_vars(VMStep)
    /\ \A s \in Snaps :
          /\ SF_vars(Create(s) /\ snap[s].phase = "Creating")
          /\ SF_vars(Delete(s) /\ s \in unwanted)

-----------------------------------------------------------------------------
(* Properties *)

CRType ==
    [phase : {"none", "Creating", "Ready", "Failed", "Deleting", "gone"}, ready : BOOLEAN,
     file : Files \cup {None}, child : Snaps \cup {None}]

TypeOK ==
    /\ disk \in [Files -> [layer : SUBSET (1 .. MaxWrites), back : Files \cup {None},
                           frozen : BOOLEAN, there : BOOLEAN]]
    /\ \A v \in {sv, svCache} :
          /\ v.gone \in BOOLEAN /\ v.chain # <<>> /\ Last(v.chain) = Base /\ IsInjective(v.chain)
          /\ v.op \in {NoOp} \cup {"chain", "chain-rm", "chain-live-rm"} \X Snaps
    /\ snap \in [Snaps -> CRType] /\ snapCache \in [Snaps -> CRType]
    /\ restCache \in {"none", "Creating", "Bound"}
    /\ vm.st \in {"off", "admitted", "vmi", "on"} /\ vm.job \in {"none", "commit", "ready"}
    /\ call.s \in Snaps \cup {None} /\ call.pod \in 0 .. MaxStarts
    /\ rest.got \subseteq 0 .. MaxWrites /\ unwanted \subseteq Snaps
    /\ taken \in [Snaps -> SUBSET (1 .. MaxWrites)]
    /\ writes \in 0 .. MaxWrites /\ starts \in 0 .. MaxStarts /\ faults \in 0 .. MaxFaults
    /\ disturbed \in BOOLEAN /\ slipped \in BOOLEAN

JobRuns == \E s \in Snaps : job[s].pc \in {"create", "check", "commit", "rebase", "remove", "mode"}

\* No call was cut where the records do not tell what it did, and no VM came
\* past the mark of a Job.
Undisturbed == ~disturbed /\ ~slipped

\* A Job that changes the disk's files never runs while a VM starts or runs with
\* the disk, but for three cases: a call that was cut between the mark and
\* the check, a VM that was admitted before the mark and is stored after the
\* check, and a webhook that could not read the mark (Undisturbed).
JobAlone == Undisturbed /\ JobRuns => NoVM

\* Undisturbed and while nothing changes the disk, each ready snapshot shows
\* exactly what the disk showed when it was taken, whatever was taken, merged,
\* written, stopped or tried again since.
SnapshotIntact ==
    Undisturbed /\ sv.op = NoOp => \A s \in Snaps \ unwanted :
        snap[s].phase = "Ready" => Sound(disk, snap[s].file) /\ Shows(disk, snap[s].file) = taken[s]

\* The disk is at rest: no operation is recorded, no VM, no take between its
\* new file and its record.
AtRest == sv.op = NoOp /\ vm.st = "off" /\ ~sv.gone /\ call.pc \notin {"freeze", "save"}

\* Undisturbed, the recorded top of a disk at rest shows every write of the
\* guest: the next start loses nothing.
DiskKept == Undisturbed /\ AtRest => Shows(disk, Head(sv.chain)) = 1 .. writes

\* A restored volume that is handed out holds exactly what the snapshot was
\* taken of, with merges, takes and retries beside the restore; but for a
\* merge that read a list of volumes without the restore (overlooked).
RestoreRight ==
    Undisturbed /\ ~rest.overlooked /\ rest.phase = "Bound" => rest.got = taken[rest.s]

Unmarked == sv.op = NoOp \/ sv.gone

\* The mark on a SubVolume does not stay: the calls the sidecars repeat clear it.
MarkCleared == []<>Unmarked

\* snapshot_instant.go, checkVMStopped: "no VM runs or starts with sv's disk
\* [...] Only then may a Job change the disk's files."
JobOnlyWhenStopped == JobRuns => NoVM

\* docs/VM-INSTANT-SNAPSHOTS.md: "If a step after the new file starts fails, the
\* driver merges the new file back and deletes it, so the chain is as it was."
TakeUndone == AtRest => Shows(disk, Head(sv.chain)) = 1 .. writes

\* snapshot_instant.go, deleteInstant, when the VM stopped during a merge: "The
\* files on the share still make the old chain".
FilesMakeChain == AtRest => \A i \in DOMAIN sv.chain : disk[sv.chain[i]].there

\* snapshot_instant.go, deleteInstantOfGoneVolume: "Its files stay for the disk's
\* other snapshots; the last one removes the folder."
FolderRemoved == sv.gone /\ call = NoCall /\ (\A s \in Snaps : ~Exists(snap[s])) => ~disk[Base].there
=============================================================================
