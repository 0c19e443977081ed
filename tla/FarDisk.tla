------------------------------- MODULE FarDisk -------------------------------
(***************************************************************************)
(* The copy of a VM's disk at the far site, and the undo files next to it. *)
(*                                                                         *)
(* A copy of the running VM's disk is staged at the source site and        *)
(* applied with ApplyCopy, by the receiver's commit call or, with a direct *)
(* NFS mount, by an apply Job.  ApplyCopy saves the old contents of every  *)
(* block it will change in an undo file (.undo.part, renamed .undo.ready), *)
(* changes the disk, and renames the file .undo: a restore point.  The     *)
(* next caller rolls the disk back from a .ready file that a stopped call  *)
(* left.  When the source site is lost, a failover Job uses the disk in    *)
(* place or writes it as it was at a restore point.                        *)
(*                                                                         *)
(* A moment is the number of the copy taken at it, 0 a moment that is not  *)
(* known; image[m] is what the source disk held at m.  The blocks that a   *)
(* call writes reach the share in any order: only a Sync orders them.      *)
(***************************************************************************)
EXTENDS Integers, Sequences, FiniteSets, FiniteSetsExt

CONSTANTS
    MaxBlocks,      \* blocks of the largest disk
    Values,         \* contents of a block; 0 is a block of zeros
    MaxMoments,     \* copies taken of the source disk
    MaxFaults,      \* stopped calls and failed Jobs
    Modes,          \* how copies reach the far site: "receiver", "direct"
    None

VARIABLES
    mode,       \* how this policy's copies reach the far site
    up,         \* the source site is there
    image,      \* the source disk at each moment
    sent,       \* status CopyMoment: the moment the controller believes the far disk shows
    list,       \* the moment the change list kept for the next copy starts at, or 0
    copy,       \* the copy being sent, or None
    disk,       \* the far site's disk.img, or None
    undo,       \* the .undo files, oldest first
    open,       \* the .undo.part or .undo.ready file, or None
    moment,     \* the moment in the moment file, or 0 if there is no file
    sealed,     \* the disk still has the modification time in the moment file
    lease,      \* the lease file: "none", "live" or "expired"
    pc,         \* where the copy call and the failover Job are
    todo,       \* the blocks each of them has still to write
    call,       \* the copy that the copy call applies, and the moment it starts from
    job,        \* what the failover Job chose, and the disk it hands to the VM
    faults,     \* stopped calls and failed Jobs so far
    passed      \* ghost: how a failover passed the lease of a copy call at work

source == <<mode, up, image, passed>>
policy == <<sent, list, copy>>
folder == <<disk, undo, open, moment, sealed, lease>>
procs == <<pc, todo, call, job>>
vars == <<source, policy, folder, procs, faults>>

Procs == {"copy", "failover"}
Moments == 1 .. MaxMoments
Blocks == 1 .. MaxBlocks
Images == UNION {[1 .. n -> Values] : n \in Blocks}
NoCall == [copy |-> None, from |-> 0]
NoJob == [at |-> 0, rewind |-> FALSE, stop |-> 0, next |-> 0, img |-> None]

Init ==
    /\ mode \in Modes /\ up = TRUE /\ image = <<>> /\ passed = {}
    /\ sent = 0 /\ list = 0 /\ copy = None
    /\ disk = None /\ undo = <<>> /\ open = None
    /\ moment = 0 /\ sealed = FALSE /\ lease = "none"
    /\ pc = [p \in Procs |-> "idle"] /\ todo = [p \in Procs |-> {}]
    /\ call = NoCall /\ job = NoJob /\ faults = 0

Goto(p, l) == pc[p] # l /\ pc' = [pc EXCEPT ![p] = l]
Fault == faults < MaxFaults /\ faults' = faults + 1

-----------------------------------------------------------------------------
(* Contents of a disk. *)

\* A block past the end counts as zeros.
BlockOf(img, b) == IF b \in DOMAIN img THEN img[b] ELSE 0

\* A longer file is filled with zeros.
Truncate(img, n) == [b \in 1 .. n |-> BlockOf(img, b)]

WriteAt(img, b, v) == [x \in 1 .. Max({Len(img), b}) |-> IF x = b THEN v ELSE BlockOf(img, x)]

\* The saved blocks are written back, then the disk is cut to its old size.
applyUndo(u, img) ==
    [b \in 1 .. u.size |-> IF b \in DOMAIN u.saved THEN u.saved[b] ELSE BlockOf(img, b)]

\* The blocks that a staged copy holds: all of a full one, otherwise those
\* that changed since its change list began.
Held(c) ==
    IF c.full THEN DOMAIN image[c.to]
    ELSE {b \in DOMAIN image[c.to] :
            \E k \in c.base .. c.to - 1 : BlockOf(image[k], b) # BlockOf(image[k + 1], b)}

\* writeUndo finds the chunks whose contents differ and saves the old ones;
\* past the old end, those that are not zeros, and nothing is saved for them.
Changed(c) == {b \in Held(c) : image[c.to][b] # BlockOf(disk, b)}

writeUndoSizeMutant(c, from) ==
    [ready |-> FALSE, from |-> from, to |-> c.to, size |-> Len(image[c.to]),
     saved |-> [b \in Changed(c) \cap DOMAIN disk |-> disk[b]]]

writeUndo(c, from) ==
    [ready |-> FALSE, from |-> from, to |-> c.to, size |-> Len(disk),
     saved |-> [b \in Changed(c) \cap DOMAIN disk |-> disk[b]]]

\* The newest restore point knows the moment the disk shows; a disk with no
\* restore point relies on the moment file.
Moment == IF undo # <<>> THEN undo[Len(undo)].to ELSE moment

-----------------------------------------------------------------------------
(* The source site's replication controller. *)

\* startVMCopy takes a copy of the disk, of the changes since the change list
\* if QEMU still has it.  A disk grows, never shrinks.
startVMCopy ==
    /\ up /\ copy = None /\ Len(image) < MaxMoments
    /\ \E img \in Images, keeps \in BOOLEAN :
        /\ image # <<>> => Len(img) >= Len(image[Len(image)])
        /\ image' = Append(image, img)
        /\ copy' = [to |-> Len(image) + 1, base |-> list, staged |-> TRUE,
                    full |-> list = 0 \/ sent = 0 \/ ~keeps]
    /\ UNCHANGED <<mode, up, passed, sent, list, folder, procs, faults>>

\* advanceVMCopy reads that the Job applied the copy.  The copy's change list
\* becomes the base of the next copy, unless the VM restarted.
Applied == copy' = None /\ sent' = copy.to /\ list' \in {copy.to, 0}

\* The Job failed: the old change list stays the base.
Failed == copy' = None /\ list' \in {list, 0} /\ UNCHANGED sent

\* The send Job reports that the disk does not show the copy's base: the next
\* copy is a full one.
WrongBase == copy' = None /\ list' = 0 /\ UNCHANGED sent

\* The Job's retries are used up, while the receiver may still work on its
\* last call; or the staging file is gone, and the disk does not show the copy.
\* Only the apply Job looks for that.
CopyApplied(c, from) ==
    /\ mode = "direct" /\ disk # None
    /\ \/ \E i \in DOMAIN undo : undo[i].to = c.to
       \/ from = 0 /\ undo = <<>> /\ open = None

JobFails ==
    /\ up /\ copy # None
    /\ mode = "direct" => pc["copy"] = "idle"
    /\ \/ Fault
       \/ ~copy.staged /\ ~CopyApplied(copy, sent) /\ pc["copy"] = "idle" /\ UNCHANGED faults
    /\ Failed
    /\ UNCHANGED <<source, folder, procs>>

\* The site is lost; a Job that runs there stops, the receiver goes on.
SiteLost ==
    /\ up /\ up' = FALSE
    /\ IF mode = "direct"
       THEN pc' = [pc EXCEPT !["copy"] = "idle"] /\ todo' = [todo EXCEPT !["copy"] = {}] /\ call' = NoCall
       ELSE UNCHANGED <<pc, todo, call>>
    /\ UNCHANGED <<mode, image, passed, policy, folder, job, faults>>

-----------------------------------------------------------------------------
(* recover, for the copy call and for the failover Job: a .part file is      *)
(* deleted; from a .ready file the saved blocks are written back, the disk   *)
(* is cut to its old size and synced, the file is removed, and the disk is   *)
(* sealed again.                                                             *)

Look(p) ==
    /\ pc[p] = "recover"
    /\ IF open # None /\ open.ready
       THEN Goto(p, "roll") /\ todo' = [todo EXCEPT ![p] = DOMAIN open.saved] /\ UNCHANGED open
       ELSE Goto(p, "go") /\ open' = None /\ UNCHANGED todo
    /\ UNCHANGED <<source, policy, disk, undo, moment, sealed, lease, call, job, faults>>

RollBack(p) ==
    /\ pc[p] = "roll" /\ open # None
    /\ \/ \E b \in todo[p] :
            /\ disk' = WriteAt(disk, b, open.saved[b])
            /\ todo' = [todo EXCEPT ![p] = @ \ {b}]
            /\ UNCHANGED pc
       \/ todo[p] = {} /\ disk' = Truncate(disk, open.size) /\ Goto(p, "unlink") /\ UNCHANGED todo
    /\ sealed' = FALSE
    /\ UNCHANGED <<source, policy, undo, open, moment, lease, call, job, faults>>

RemoveReady(p) ==
    /\ pc[p] = "unlink" /\ Goto(p, "reseal")
    /\ open' = None
    /\ UNCHANGED <<source, policy, disk, undo, moment, sealed, lease, todo, call, job, faults>>

reseal(p) ==
    /\ pc[p] = "reseal" /\ Goto(p, "go")
    /\ sealed' = (moment # 0)
    /\ UNCHANGED <<source, policy, disk, undo, open, moment, lease, todo, call, job, faults>>

-----------------------------------------------------------------------------
(* The copy call: the commit call of SendVMDisk, or the apply Job. *)

\* SendVMDisk first asks for the disk's moment.  The commit call writes the
\* lease, then recovers.  The apply Job whose staging file is gone is done if
\* the disk shows the copy.
Begin ==
    /\ up /\ copy # None /\ pc["copy"] = "idle"
    /\ copy.staged \/ CopyApplied(copy, sent)
    /\ call' = [copy |-> copy, from |-> sent]
    /\ IF ~copy.staged THEN Goto("copy", "report") /\ UNCHANGED lease
       ELSE IF mode = "receiver" /\ disk # None /\ Moment = copy.to
       THEN Goto("copy", "unstage") /\ UNCHANGED lease
       ELSE Goto("copy", "recover") /\ lease' = IF mode = "receiver" THEN "live" ELSE "none"
    /\ UNCHANGED <<source, policy, disk, undo, open, moment, sealed, todo, job, faults>>

\* commit refuses a change copy that does not start at the disk's moment.  The
\* copy may be there already; otherwise the controller drops the change list.
RefusesMutant == mode = "receiver" /\ ~call.copy.full /\ disk = None

Refuses == mode = "receiver" /\ ~call.copy.full /\ (disk = None \/ Moment # call.from)

commitRefused ==
    /\ pc["copy"] = "go" /\ Refuses
    /\ lease' = "none"
    /\ IF disk # None /\ Moment = call.copy.to
       THEN Goto("copy", "unstage") /\ UNCHANGED <<policy, call>>
       ELSE /\ Goto("copy", "idle") /\ call' = NoCall
            /\ IF copy = call.copy /\ up THEN WrongBase ELSE UNCHANGED policy
    /\ UNCHANGED <<source, disk, undo, open, moment, sealed, todo, job, faults>>

\* A first copy makes the disk in one step.
writeNewDiskFrom ==
    /\ pc["copy"] = "go" /\ ~Refuses /\ disk = None
    /\ disk' = [b \in DOMAIN image[call.copy.to] |-> IF b \in Held(call.copy) THEN image[call.copy.to][b] ELSE 0]
    /\ sealed' = FALSE
    /\ Goto("copy", "record")
    /\ UNCHANGED <<source, policy, undo, open, moment, lease, todo, call, job, faults>>

\* The moment the new restore point gets: a full copy sent to the receiver
\* starts from whatever the disk shows.
From == IF mode = "receiver" /\ call.copy.full THEN Moment ELSE call.from

OpenUndo ==
    /\ pc["copy"] = "go" /\ ~Refuses /\ disk # None
    /\ open' = writeUndo(call.copy, From)
    /\ Goto("copy", "save")
    /\ UNCHANGED <<source, policy, disk, undo, moment, sealed, lease, todo, call, job, faults>>

SaveUndo ==
    /\ pc["copy"] = "save" /\ open # None /\ Goto("copy", "grow")
    /\ open' = [open EXCEPT !.ready = TRUE]
    /\ todo' = [todo EXCEPT !["copy"] = Changed(call.copy)]
    /\ UNCHANGED <<source, policy, disk, undo, moment, sealed, lease, call, job, faults>>

Grow ==
    /\ pc["copy"] = "grow" /\ Goto("copy", "write")
    /\ disk' = Truncate(disk, Max({Len(disk), Len(image[call.copy.to])}))
    /\ sealed' = FALSE
    /\ UNCHANGED <<source, policy, undo, open, moment, lease, todo, call, job, faults>>

WriteBlocks ==
    /\ pc["copy"] = "write"
    /\ \/ \E b \in todo["copy"] :
            /\ disk' = WriteAt(disk, b, image[call.copy.to][b])
            /\ todo' = [todo EXCEPT !["copy"] = @ \ {b}]
            /\ UNCHANGED pc
       \/ todo["copy"] = {} /\ disk' = Truncate(disk, Len(image[call.copy.to])) /\ Goto("copy", "applied") /\ UNCHANGED todo
    /\ sealed' = FALSE
    /\ UNCHANGED <<source, policy, undo, open, moment, lease, call, job, faults>>

RestorePoint ==
    /\ pc["copy"] = "applied" /\ open # None /\ Goto("copy", "prune")
    /\ undo' = Append(undo, open) /\ open' = None
    /\ UNCHANGED <<source, policy, disk, moment, sealed, lease, todo, call, job, faults>>

\* pruneUndo deletes, oldest first, the restore points of copies made before
\* the cutoff.  A copy is applied within the time restore points are kept, so
\* the new one stays.
pruneUndo ==
    /\ pc["copy"] = "prune" /\ Goto("copy", IF mode = "receiver" THEN "record" ELSE "unstage")
    /\ \E n \in 0 .. Len(undo) - 1 : undo' = SubSeq(undo, n + 1, Len(undo))
    /\ UNCHANGED <<source, policy, disk, open, moment, sealed, lease, todo, call, job, faults>>

\* The receiver writes the moment file, which seals the disk, and ends the
\* lease.  The apply Job writes none.
writeMomentFile ==
    /\ pc["copy"] = "record" /\ Goto("copy", "unstage")
    /\ IF mode = "receiver" THEN moment' = call.copy.to /\ sealed' = TRUE ELSE UNCHANGED <<moment, sealed>>
    /\ lease' = "none"
    /\ UNCHANGED <<source, policy, disk, undo, open, todo, call, job, faults>>

\* The Job deletes the staging file.
RemoveStaging ==
    /\ pc["copy"] = "unstage"
    /\ IF up /\ copy = call.copy
       THEN copy' = [copy EXCEPT !.staged = FALSE] /\ call' = [call EXCEPT !.copy.staged = FALSE] /\ Goto("copy", "report")
       ELSE Goto("copy", "idle") /\ call' = NoCall /\ UNCHANGED copy
    /\ UNCHANGED <<source, sent, list, folder, todo, job, faults>>

\* The controller reads the Job's result.
advanceVMCopy ==
    /\ pc["copy"] = "report" /\ Goto("copy", "idle") /\ call' = NoCall
    /\ IF up /\ copy = call.copy THEN Applied ELSE UNCHANGED policy
    /\ UNCHANGED <<source, folder, todo, job, faults>>

\* The receiver or the Job is killed, or a file operation fails; the Job runs
\* again.  A killed receiver leaves its lease, one that goes on removes it, which
\* is as good as an expired one.  A call whose undo file another
\* one removed fails too.
UndoGone(p) == open = None /\ pc[p] \in {"roll", "save", "applied"}
Stop(p) ==
    /\ pc[p] \notin {"idle", "used"}
    /\ IF UndoGone(p) THEN UNCHANGED faults ELSE Fault
    /\ Goto(p, "idle") /\ todo' = [todo EXCEPT ![p] = {}]
    /\ IF p = "copy" THEN call' = NoCall /\ UNCHANGED job ELSE job' = NoJob /\ UNCHANGED call
    /\ UNCHANGED <<source, policy, folder>>

\* The lease is for 1 hour.  It is never renewed, and a commit call has no time
\* limit.
LeaseExpires ==
    /\ lease = "live" /\ lease' = "expired"
    /\ UNCHANGED <<source, policy, disk, undo, open, moment, sealed, procs, faults>>

-----------------------------------------------------------------------------
(* The failover Job at the far site. *)

\* ReadDiskState: the moments the disk can show, and whether something else
\* wrote to it.
Shows == {Moment} \cup {undo[i].from : i \in {j \in DOMAIN undo : undo[j].from # 0}}
Modified == moment # 0 /\ ~sealed /\ (open = None \/ ~open.ready)

\* The copy call works on the disk; the receiver's has a lease meanwhile.
AtWork == pc["copy"] \notin {"idle", "unstage", "report"}

\* ResolveVMs (analyzeVMs) stops at a live lease, unless it is told to go on with
\* --force, and chooses the newest moment at or before the one asked for.  A
\* disk with no restore point and no moment file counts as no VM disk, and is
\* used as it is.
ResolveVMs ==
    /\ ~up /\ pc["failover"] = "idle" /\ disk # None
    /\ IF Moment = 0
       THEN Goto("failover", "used") /\ job' = [NoJob EXCEPT !.img = disk] /\ UNCHANGED passed
       ELSE /\ \E force \in BOOLEAN : lease = "live" => force
            /\ passed' = passed \cup CASE AtWork /\ lease = "live" -> {"force"}
                                        [] AtWork /\ lease = "expired" -> {"expired"}
                                        [] OTHER -> {}
            /\ \E last \in Moments :
                LET common == {m \in Shows : m <= last}
                IN  /\ common # {}
                    /\ Max(common) # Moment => ~Modified
                    /\ job' = [NoJob EXCEPT !.at = Max(common), !.rewind = Max(common) # Moment]
            /\ Goto("failover", "recover")
    /\ UNCHANGED <<mode, up, image, policy, folder, todo, call, faults>>

\* A disk at the chosen moment is used in place; otherwise a copy of it goes
\* back to the last restore point with that moment.
MaterializeVMs ==
    /\ pc["failover"] = "go"
    /\ IF ~job.rewind
       THEN Goto("failover", "used") /\ job' = [job EXCEPT !.img = disk]
       ELSE /\ Goto("failover", "rewind")
            /\ job' = [job EXCEPT !.img = disk, !.next = Len(undo),
                                  !.stop = Max({i \in DOMAIN undo : undo[i].from = job.at})]
    /\ UNCHANGED <<source, policy, folder, todo, call, faults>>

\* Mutant: the restore point's own undo file is left out.
RewindMutant ==
    /\ pc["failover"] = "rewind"
    /\ IF job.next > job.stop
       THEN job' = [job EXCEPT !.img = applyUndo(undo[job.next], @), !.next = @ - 1] /\ UNCHANGED pc
       ELSE Goto("failover", "used") /\ UNCHANGED job
    /\ UNCHANGED <<source, policy, folder, todo, call, faults>>

\* The undo files from the newest down to the restore point's.
Rewind ==
    /\ pc["failover"] = "rewind"
    /\ IF job.next >= job.stop
       THEN job' = [job EXCEPT !.img = applyUndo(undo[job.next], @), !.next = @ - 1] /\ UNCHANGED pc
       ELSE Goto("failover", "used") /\ UNCHANGED job
    /\ UNCHANGED <<source, policy, folder, todo, call, faults>>

Next ==
    \/ startVMCopy \/ JobFails \/ SiteLost
    \/ Begin \/ commitRefused \/ writeNewDiskFrom \/ OpenUndo \/ SaveUndo \/ Grow \/ WriteBlocks
    \/ RestorePoint \/ pruneUndo \/ writeMomentFile \/ RemoveStaging \/ advanceVMCopy
    \/ \E p \in Procs : Look(p) \/ RollBack(p) \/ RemoveReady(p) \/ reseal(p) \/ Stop(p)
    \/ LeaseExpires \/ ResolveVMs \/ MaterializeVMs \/ Rewind

Spec == Init /\ [][Next]_vars

-----------------------------------------------------------------------------
(* Properties. *)

CopyType == [to : Moments, base : 0 .. MaxMoments, staged : BOOLEAN, full : BOOLEAN]

\* The blocks an undo file saves, and the undo files.
Saves == UNION {[D -> Values] : D \in SUBSET Blocks}
UndoType ==
    {u \in [ready : BOOLEAN, from : 0 .. MaxMoments, to : Moments, size : Blocks, saved : Saves] :
        DOMAIN u.saved \subseteq 1 .. u.size}

\* There is a block of zeros, copies go one of the two ways, and None is no
\* disk, copy or undo file.
ASSUME FarAssumption ==
    /\ MaxBlocks \in Nat \ {0} /\ MaxMoments \in Nat /\ MaxFaults \in Nat /\ 0 \in Values
    /\ Modes \subseteq {"receiver", "direct"}
    /\ None \notin Images /\ None \notin CopyType /\ None \notin UndoType

UndoOK(u) ==
    /\ DOMAIN u = {"ready", "from", "to", "size", "saved"}
    /\ u.ready \in BOOLEAN /\ u.from \in 0 .. MaxMoments /\ u.to \in Moments
    /\ u.size \in Blocks /\ DOMAIN u.saved \subseteq 1 .. u.size
    /\ \A b \in DOMAIN u.saved : u.saved[b] \in Values

\* The state is well formed: an undo file saves blocks inside the old disk
\* only, the files in the undo folder are complete, and a process has blocks
\* to write only while it writes.
TypeOK ==
    /\ mode \in Modes /\ up \in BOOLEAN /\ image \in Seq(Images)
    /\ sent \in 0 .. Len(image) /\ list \in 0 .. Len(image) /\ copy \in CopyType \cup {None}
    /\ disk \in Images \cup {None}
    /\ \A i \in DOMAIN undo : UndoOK(undo[i]) /\ undo[i].ready
    /\ open # None => UndoOK(open)
    /\ moment \in 0 .. Len(image) /\ sealed \in BOOLEAN /\ lease \in {"none", "live", "expired"}
    /\ \A p \in Procs : todo[p] # {} => pc[p] \in {"roll", "grow", "write"}
    /\ call.copy \in CopyType \cup {None} /\ call.from \in 0 .. Len(image)
    /\ job.at \in 0 .. Len(image) /\ job.rewind \in BOOLEAN /\ job.img \in Images \cup {None}
    /\ faults \in 0 .. MaxFaults

\* What the disk holds once an unfinished copy is rolled back.
Settled == IF open # None /\ open.ready THEN applyUndo(open, disk) ELSE disk

\* No failover was planned while a copy call worked on the disk.  Only two things
\* lead to one: a lease that expired under the call, and --force.
Guarded == passed = {}

\* A stopped copy never leaves a mixed disk: at every moment of ApplyCopy and
\* of recover, for every set of blocks that reached the share, the disk rolled
\* back from the .ready file is the source disk of one moment, and of the
\* moment that the restore points or the moment file name.  A failover planned
\* while a copy call works (~Guarded) is left out: the two write one disk.
NeverMixed ==
    Guarded =>
    /\ TypeOK
    /\ disk # None =>
          IF Moment # 0 THEN Settled = image[Moment] ELSE \E m \in DOMAIN image : Settled = image[m]

\* The disk after the undo files from the newest down to number i.
Rewound(i, img) == MapThenFoldSet(applyUndo, img, LAMBDA j : undo[j], Min, i .. Len(undo))

\* Every restore point can be reached: the undo files from the newest down to
\* the last one that starts at a moment give the source disk of that moment.
RewindExact ==
    \A i \in DOMAIN undo :
        /\ undo[i].from # 0
        /\ \A j \in i + 1 .. Len(undo) : undo[j].from # undo[i].from
        => Rewound(i, Settled) = image[undo[i].from]

\* The receiver, which checks where a copy starts from, keeps restore points
\* exact through stopped calls, lost answers and copies the controller gave up,
\* as long as no failover is planned while it works on the disk.
ReceiverRewinds == mode = "receiver" /\ Guarded => RewindExact

\* A failover through the receiver's folder hands the VM the source disk of
\* the very moment that it chose, in place or rewound.
HandsOver == mode = "receiver" /\ pc["failover"] = "used" /\ job.at # 0 => job.img = image[job.at]

\* So it does whatever copies were stopped before it, with --force too, unless a
\* failover is planned while a copy call is at work: past a lease that expired
\* under the call, or with --force past a live one.
FailoverRight == Guarded => HandsOver

\* docs/CROSS-REGION-DR.md: "`--force` goes on anyway; rolling back first makes
\* that safe".
ForceIsSafe == passed \subseteq {"force"} => HandsOver
=============================================================================
