---------------------------- MODULE FarDiskTypes ----------------------------
(***************************************************************************)
(* The inductive invariant of FarDisk, and the first half of its proof:    *)
(* lemmas on disk contents and undo files, which steps lead where and      *)
(* change what, that one process at a time works on the disk, types, and   *)
(* the copies that are sent.                                               *)
(***************************************************************************)
EXTENDS FarDisk, WellFoundedInduction, TLAPS

\* What FarAssumption says of the constants, as a hypothesis of the lemmas.
Constants ==
    /\ MaxBlocks \in Nat \ {0} /\ MaxMoments \in Nat /\ MaxFaults \in Nat /\ 0 \in Values
    /\ Modes \subseteq {"receiver", "direct"}
    /\ None \notin Images /\ None \notin CopyType /\ None \notin UndoType

-----------------------------------------------------------------------------
(* The inductive invariant *)

\* The places of the copy call and of the failover Job at which they change the
\* files of the disk, or need them unchanged.
Recovers == {"recover", "roll", "unlink", "reseal", "go"}
Busy == Recovers \cup {"save", "grow", "write", "applied", "prune", "record"}
Works == Recovers \cup {"rewind"}
Places == Busy \cup {"unstage", "report", "idle", "rewind", "used"}

Types ==
    /\ mode \in Modes /\ up \in BOOLEAN
    /\ image \in Seq(Images) /\ Len(image) <= MaxMoments
    /\ sent \in 0 .. Len(image) /\ list \in 0 .. Len(image) /\ copy \in CopyType \cup {None}
    /\ disk \in Images \cup {None} /\ undo \in Seq(UndoType) /\ open \in UndoType \cup {None}
    /\ moment \in 0 .. Len(image) /\ sealed \in BOOLEAN /\ lease \in {"none", "live", "expired"}
    /\ pc \in [Procs -> Places] /\ todo \in [Procs -> SUBSET Blocks]
    /\ call \in [copy : CopyType \cup {None}, from : 0 .. Len(image)]
    /\ job \in [at : 0 .. Len(image), rewind : BOOLEAN, stop : Nat, next : Nat, img : Images \cup {None}]
    /\ faults \in 0 .. MaxFaults

\* The lease, or the end of the apply Job with its site, keeps the failover Job
\* away from the disk while a copy call is busy with it; its file is there as
\* long as the call is.
Alone ==
    /\ pc["copy"] \in Busy \cup {"idle", "unstage", "report"}
    /\ pc["failover"] \in Works \cup {"idle", "used"}
    /\ pc["copy"] \in Busy => IF mode = "receiver" THEN lease # "none" ELSE up
    /\ pc["failover"] \in Works => ~up /\ pc["copy"] \notin Busy
    /\ \A p \in Procs : todo[p] # {} => pc[p] \in {"roll", "grow", "write"}

\* A copy is of a moment that was taken, and of changes since an earlier one.
CopyFits(c) ==
    /\ c.to <= Len(image) /\ c.base < c.to
    /\ ~ c.full => c.base # 0

\* A call that the controller gave up is of an older moment than the copy
\* that is being sent.  The source disk grows.
Copies ==
    /\ copy # None => CopyFits(copy)
    /\ call.copy # None => CopyFits(call.copy)
    /\ call.copy # None <=> pc["copy"] # "idle"
    /\ copy # None /\ call.copy # None => call.copy.to <= copy.to
    /\ \A i, j \in DOMAIN image : i <= j => Len(image[i]) <= Len(image[j])

\* Before the first copy there is nothing, and no list of changes.
NoDisk ==
    /\ open = None /\ undo = <<>> /\ moment = 0 /\ list = 0
    /\ copy # None => copy.full /\ copy.staged /\ copy.base = 0
    /\ call.copy # None => call.copy.full
    /\ pc["copy"] \in {"idle", "recover", "go"} /\ pc["failover"] = "idle"

\* The moment m that the disk shows among those of the controller: no change
\* list begins after it, and no copy is older.
InTime(m) ==
    /\ Moment \in {0, m}
    /\ list <= m
    /\ copy # None => copy.base <= m /\ m <= copy.to /\ (~ copy.staged => m = copy.to)
    /\ call.copy # None => call.copy.base <= m /\ m <= call.copy.to
    /\ pc["copy"] \in {"prune", "record", "unstage", "report"} => m = call.copy.to

Ready == open # None /\ open.ready

\* The open undo file has the disk of moment m: every block is saved in it, or
\* is still on the disk.
Journal(m) ==
    /\ open.size = Len(image[m])
    /\ \A b \in 1 .. open.size :
          IF b \in DOMAIN open.saved THEN open.saved[b] = image[m][b] ELSE BlockOf(disk, b) = image[m][b]

\* How far recover is.
Rolling(p, m) ==
    /\ pc[p] = "roll" =>
          /\ Ready /\ todo[p] \subseteq DOMAIN open.saved
          /\ \A b \in DOMAIN open.saved \ todo[p] : BlockOf(disk, b) = open.saved[b]
    /\ pc[p] = "unlink" => Ready /\ disk = image[m]
    /\ pc[p] \in {"reseal", "go", "rewind"} => open = None

\* How far ApplyCopy is: a block of the copy is on the disk or still to do,
\* and none is written that is not saved.
Writing(c) ==
    /\ pc["copy"] \in {"save", "grow", "write", "applied"} =>
          /\ open # None /\ open.to = c.to /\ open.from <= Len(image)
          /\ mode = "receiver" => open.from = Moment
    /\ pc["copy"] = "save" =>
          /\ ~ open.ready /\ open.size = Len(disk)
          /\ open.saved = [b \in Changed(c) \cap DOMAIN disk |-> disk[b]]
    /\ pc["copy"] \in {"grow", "write"} =>
          /\ open.ready /\ todo["copy"] \subseteq DOMAIN image[c.to]
          /\ \A b \in todo["copy"] : b <= open.size => b \in DOMAIN open.saved
          /\ \A b \in DOMAIN image[c.to] \ todo["copy"] : BlockOf(disk, b) = image[c.to][b]
    /\ pc["copy"] = "applied" => open.ready /\ disk = image[c.to]

\* The disk and its undo file are those of moment m.
ShowsMoment(m) ==
    /\ InTime(m)
    /\ IF Ready THEN Journal(m) ELSE disk = image[m]
    /\ \A p \in Procs : Rolling(p, m)

\* Every restore point leads from the moment that the one before it shows.
Chain ==
    /\ \A i \in DOMAIN undo : undo[i].ready /\ undo[i].to <= Len(image) /\ undo[i].from <= Len(image)
    /\ mode = "receiver" =>
          /\ \A i \in DOMAIN undo :
                undo[i].from # 0 => applyUndo(undo[i], image[undo[i].to]) = image[undo[i].from]
          /\ \A i, j \in DOMAIN undo : j = i + 1 => undo[j].from = undo[i].to

\* How far the failover Job is.
JobPlace ==
    /\ pc["failover"] \in Works =>
          /\ job.at # 0
          /\ IF job.rewind THEN \E i \in DOMAIN undo : undo[i].from = job.at ELSE job.at = Moment
    /\ pc["failover"] = "rewind" =>
          /\ job.stop \in DOMAIN undo /\ undo[job.stop].from = job.at
          /\ job.stop - 1 <= job.next /\ job.next <= Len(undo) /\ job.img \in Images
          /\ mode = "receiver" =>
                job.img = image[IF job.next = Len(undo) THEN Moment ELSE undo[job.next + 1].from]
    /\ pc["failover"] = "used" /\ mode = "receiver" /\ job.at # 0 => job.img = image[job.at]

IInv ==
    /\ Types /\ Alone /\ Copies /\ Writing(call.copy) /\ Chain /\ JobPlace
    /\ disk = None => NoDisk
    /\ disk # None => \E m \in DOMAIN image : ShowsMoment(m)

-----------------------------------------------------------------------------
(* Contents of a disk *)

\* The contents of a disk are a value for each block; a block beyond its end
\* reads as zeros.
LEMMA ImageFacts ==
    ASSUME Constants, NEW img \in Images
    PROVE  /\ Len(img) \in Blocks /\ DOMAIN img = 1 .. Len(img) /\ Len(img) \in Nat
           /\ \A b \in DOMAIN img : img[b] \in Values
           /\ \A b : BlockOf(img, b) \in Values
<1>1. PICK n \in Blocks : img \in [1 .. n -> Values]  BY DEF Images
<1>2. n \in Nat  BY DEF Blocks, Constants
<1>3. Len(img) = n  BY <1>1, <1>2
<1>4. DOMAIN img = 1 .. n /\ \A b \in DOMAIN img : img[b] \in Values  BY <1>1
<1>5. \A b : BlockOf(img, b) \in Values  BY <1>4 DEF BlockOf, Constants
<1> QED  BY <1>2, <1>3, <1>4, <1>5

\* Two disks with the same blocks are the same.
LEMMA SameImage ==
    ASSUME Constants, NEW f \in Images, NEW g \in Images, Len(f) = Len(g),
           \A b \in 1 .. Len(f) : BlockOf(f, b) = BlockOf(g, b)
    PROVE  f = g
<1>1. PICK n \in Blocks : f \in [1 .. n -> Values]  BY DEF Images
<1> USE <1>1
<1>2. PICK k \in Blocks : g \in [1 .. k -> Values]  BY DEF Images
<1> USE <1>2
<1>3. n \in Nat /\ k \in Nat  BY DEF Blocks, Constants
<1>4. Len(f) = n /\ Len(g) = k  BY <1>3
<1>5. n = k /\ \A b \in 1 .. n : f[b] = g[b]  BY <1>4, Zenon DEF BlockOf
<1>6. f = [b \in 1 .. n |-> f[b]] /\ g = [b \in 1 .. n |-> g[b]]  BY <1>5, Zenon
<1> QED  BY <1>5, <1>6

\* truncate cuts a disk or extends it with zeros.
LEMMA TruncateFacts ==
    ASSUME Constants, NEW img \in Images, NEW n \in Blocks
    PROVE  /\ Truncate(img, n) \in Images /\ Len(Truncate(img, n)) = n
           /\ \A b : BlockOf(Truncate(img, n), b) = IF b \in 1 .. n THEN BlockOf(img, b) ELSE 0
<1>1. n \in Nat  BY DEF Blocks, Constants
<1>2. Truncate(img, n) \in [1 .. n -> Values]  BY ImageFacts DEF Truncate
<1> QED  BY <1>1, <1>2 DEF Images, BlockOf, Truncate

\* Max of two numbers, as where ApplyCopy grows a disk.
LEMMA MaxTwo ==
    ASSUME NEW a \in Int, NEW b \in Int
    PROVE  Max({a, b}) \in {a, b} /\ Max({a, b}) >= a /\ Max({a, b}) >= b
BY DEF Max

\* WriteAt changes one block, and extends a disk that is shorter.
LEMMA WriteAtFacts ==
    ASSUME Constants, NEW img \in Images, NEW b \in Blocks, NEW v \in Values
    PROVE  /\ WriteAt(img, b, v) \in Images
           /\ \A x \in Blocks : BlockOf(WriteAt(img, b, v), x) = IF x = b THEN v ELSE BlockOf(img, x)
<1> DEFINE n == Max({Len(img), b})
<1>1. Len(img) \in Nat /\ Len(img) \in Blocks /\ b \in Nat /\ DOMAIN img = 1 .. Len(img)
    BY ImageFacts DEF Blocks, Constants
<1> USE <1>1
<1>2. n \in {Len(img), b} /\ n >= Len(img) /\ n >= b
  <2>1. Len(img) \in Int /\ b \in Int  OBVIOUS
  <2> QED  BY <2>1, MaxTwo, Zenon
<1> HIDE DEF n
<1>3. WriteAt(img, b, v) = [x \in 1 .. n |-> IF x = b THEN v ELSE BlockOf(img, x)]
    BY DEF WriteAt, n
<1>4. WriteAt(img, b, v) \in [1 .. n -> Values]  BY <1>3, ImageFacts
<1>5. WriteAt(img, b, v) \in Images  BY <1>2, <1>4, Zenon DEF Images
<1>6. ASSUME NEW x \in Blocks
      PROVE  BlockOf(WriteAt(img, b, v), x) = IF x = b THEN v ELSE BlockOf(img, x)
    BY <1>2, <1>3 DEF BlockOf, Blocks, Constants
<1> QED  BY <1>5, <1>6, Zenon

\* A set of numbers has a least one.
LEMMA Least ==
    ASSUME NEW T \in SUBSET Nat, T # {}
    PROVE  \E x \in T : \A y \in T : x <= y
<1> DEFINE R == {ss \in Nat \X Nat : ss[1] < ss[2]}
<1>1. OpToRel(<, Nat) = R  BY DEF OpToRel
<1>2. IsWellFoundedOn(R, Nat)  BY <1>1, NatLessThanWellFounded, Zenon
<1>3. PICK x \in T : \A y \in T : ~ (<<y, x>> \in R)
  <2> HIDE DEF R
  <2> QED  BY <1>2, WFMin, Zenon
<1>4. ASSUME NEW y \in T, y < x PROVE FALSE
  <2>1. <<y, x>> \in Nat \X Nat  BY <1>4
  <2>2. <<y, x>> \in R  BY <1>4, <2>1, Zenon
  <2> QED  BY <1>3, <2>2, Zenon
<1> QED  BY <1>4

\* A block that a copy does not hold is the same at every moment since the
\* copy's base: the change list misses nothing.
LEMMA NotHeld ==
    ASSUME Constants, image \in Seq(Images), NEW c \in CopyType, CopyFits(c),
           NEW m \in DOMAIN image, c.base <= m, m <= c.to,
           NEW b \in DOMAIN image[c.to], b \notin Held(c)
    PROVE  BlockOf(image[m], b) = image[c.to][b]
<1> DEFINE T == {k \in m .. c.to : BlockOf(image[k], b) # BlockOf(image[m], b)}
<1>1. c.to \in Nat /\ c.base \in Nat /\ m \in Nat  BY DEF CopyType, Moments, Constants
<1> USE <1>1
<1>2. BlockOf(image[c.to], b) = image[c.to][b]  BY DEF BlockOf
<1>3. ~ c.full /\ \A k \in c.base .. c.to - 1 : BlockOf(image[k], b) = BlockOf(image[k + 1], b)
    BY DEF Held
<1>4. T = {}
  <2> SUFFICES ASSUME T # {} PROVE FALSE  BY Zenon
  <2>1. T \in SUBSET Nat  OBVIOUS
  <2>2. PICK x \in T : \A y \in T : x <= y  BY <2>1, Least, Zenon
  <2> USE <2>2
  <2>3. x \in m .. c.to /\ x # m  OBVIOUS
  <2> USE <2>3
  <2>4. x - 1 \in m .. c.to /\ x - 1 \in c.base .. c.to - 1  OBVIOUS
  <2>5. x - 1 \notin T  OBVIOUS
  <2>6. BlockOf(image[x - 1], b) = BlockOf(image[m], b)  BY <2>4, <2>5, Zenon
  <2>7. BlockOf(image[x - 1], b) = BlockOf(image[(x - 1) + 1], b)  BY <1>3, <2>4, Zenon
  <2>8. (x - 1) + 1 = x  OBVIOUS
  <2> QED  BY <2>6, <2>7, <2>8
<1>5. c.to \in m .. c.to  OBVIOUS
<1> QED  BY <1>2, <1>4, <1>5, Zenon

\* The open undo file gives the disk of its moment back.
LEMMA JournalRolls ==
    ASSUME Constants, Types, NEW m \in DOMAIN image, disk # None, Ready, Journal(m)
    PROVE  applyUndo(open, disk) = image[m]
<1>1. image[m] \in Images /\ open \in UndoType /\ disk \in Images  BY DEF Types, Ready
<1>2. open.size \in Nat /\ DOMAIN image[m] = 1 .. open.size
    BY <1>1, ImageFacts, Zenon DEF Journal
<1>3. \A b \in 1 .. open.size : applyUndo(open, disk)[b] = image[m][b]
    BY DEF Journal, applyUndo
<1>4. PICK n \in Blocks : image[m] \in [1 .. n -> Values]  BY <1>1 DEF Images
<1>5. image[m] = [b \in 1 .. open.size |-> image[m][b]]  BY <1>2, <1>4
<1>6. applyUndo(open, disk) = [b \in 1 .. open.size |-> applyUndo(open, disk)[b]]  BY DEF applyUndo
<1> QED  BY <1>3, <1>5, <1>6, Zenon

-----------------------------------------------------------------------------
(* Types and places *)

\* The moment on record is one that a copy may have, and a restore point has
\* one.
LEMMA MomentType ==
    ASSUME Constants, Types
    PROVE  Moment \in 0 .. MaxMoments /\ (undo # <<>> => undo[Len(undo)] \in UndoType /\ Moment # 0)
<1>1. MaxMoments \in Nat /\ Len(image) \in Nat /\ Len(image) <= MaxMoments /\ moment \in 0 .. Len(image)
    BY DEF Constants, Types
<1>2. CASE undo = <<>>  BY <1>1, <1>2 DEF Moment
<1>3. CASE undo # <<>>
  <2>1. undo[Len(undo)] \in UndoType  BY <1>3 DEF Types
  <2> QED  BY <1>1, <1>3, <2>1 DEF Moment, UndoType, Moments
<1> QED  BY <1>2, <1>3, Zenon

\* The copy that a call applies, and the blocks that it holds.
LEMMA CallFacts ==
    ASSUME Constants, Types, Copies, pc["copy"] # "idle"
    PROVE  /\ call.copy \in CopyType /\ CopyFits(call.copy)
           /\ call.copy.to \in DOMAIN image /\ image[call.copy.to] \in Images
           /\ Held(call.copy) \subseteq DOMAIN image[call.copy.to]
           /\ DOMAIN image[call.copy.to] \subseteq Blocks
<1>1. call.copy \in CopyType /\ CopyFits(call.copy)  BY Zenon DEF Types, Copies
<1>2. call.copy.to \in Nat \ {0} /\ call.copy.to <= Len(image)
    BY <1>1 DEF CopyType, CopyFits, Moments, Constants
<1>3. call.copy.to \in DOMAIN image /\ image[call.copy.to] \in Images  BY <1>2 DEF Types
<1>4. Held(call.copy) \subseteq DOMAIN image[call.copy.to]  BY DEF Held
<1>5. DOMAIN image[call.copy.to] \subseteq Blocks  BY <1>3, ImageFacts DEF Blocks, Constants
<1> QED  BY <1>1, <1>3, <1>4, <1>5, Zenon

\* Where there is a disk: not before the first copy.
LEMMA DiskThere ==
    ASSUME IInv, \/ pc["copy"] \notin {"idle", "recover", "go"}
                 \/ pc["failover"] # "idle" \/ open # None \/ undo # <<>> \/ list # 0
    PROVE  disk # None /\ disk \in Images /\ \E m \in DOMAIN image : ShowsMoment(m)
BY Zenon DEF IInv, NoDisk, Types

\* recover rolls the disk back only from a .ready file, by blocks that it
\* saved.
LEMMA RollFacts ==
    ASSUME IInv, NEW p \in Procs, pc[p] \in {"roll", "unlink"}
    PROVE  /\ disk \in Images /\ disk # None /\ open \in UndoType /\ open # None /\ open.ready
           /\ pc[p] = "roll" => todo[p] \subseteq DOMAIN open.saved
<1>1. disk # None /\ disk \in Images /\ \E m \in DOMAIN image : ShowsMoment(m)
    BY DiskThere DEF Procs
<1>2. PICK m \in DOMAIN image : ShowsMoment(m)  BY <1>1
<1>3. Rolling(p, m)  BY <1>2, Zenon DEF ShowsMoment
<1> QED  BY <1>1, <1>3, SMTT(20) DEF Rolling, Ready, IInv, Types

\* An undo file saves blocks of the disk, within the size that it names.
LEMMA UndoFacts ==
    ASSUME Constants, NEW u \in UndoType
    PROVE  /\ u.size \in Blocks /\ u.size \in Nat /\ u.to \in Moments /\ u.from \in 0 .. MaxMoments
           /\ DOMAIN u.saved \subseteq Blocks
           /\ \A b \in DOMAIN u.saved : u.saved[b] \in Values /\ b \in 1 .. u.size
<1>1. /\ u.size \in Blocks /\ u.to \in Moments /\ u.from \in 0 .. MaxMoments
      /\ u.saved \in Saves /\ DOMAIN u.saved \subseteq 1 .. u.size
    BY DEF UndoType
<1>2. PICK D \in SUBSET Blocks : u.saved \in [D -> Values]  BY <1>1 DEF Saves
<1> QED  BY <1>1, <1>2 DEF Blocks, Constants

\* What applyUndo gives is the contents of a disk.
LEMMA RolledType ==
    ASSUME Constants, NEW u \in UndoType, NEW img \in Images
    PROVE  applyUndo(u, img) \in Images
<1>1. u.size \in Blocks /\ \A b \in DOMAIN u.saved : u.saved[b] \in Values  BY UndoFacts
<1>2. \A b : BlockOf(img, b) \in Values  BY ImageFacts
<1>3. applyUndo(u, img) \in [1 .. u.size -> Values]  BY <1>1, <1>2, Zenon DEF applyUndo
<1> QED  BY <1>1, <1>3, Zenon DEF Images

\* What writeUndo makes of the disk and the copy is an undo file.
LEMMA NewUndo ==
    ASSUME Constants, Types, Copies, pc["copy"] # "idle", disk \in Images,
           NEW from \in 0 .. MaxMoments
    PROVE  writeUndo(call.copy, from) \in UndoType
<1> DEFINE S == Changed(call.copy) \cap DOMAIN disk
           v == [b \in S |-> disk[b]]
<1>1. call.copy.to \in Moments  BY CallFacts, Zenon DEF CopyType
<1>2. /\ Len(disk) \in Blocks /\ DOMAIN disk = 1 .. Len(disk) /\ \A b \in DOMAIN disk : disk[b] \in Values
    BY ImageFacts, Zenon
<1> USE <1>2
<1>3. S \in SUBSET Blocks  BY CallFacts, Zenon DEF Changed
<1>4. v \in [S -> Values]  OBVIOUS
<1>5. v \in Saves /\ DOMAIN v \subseteq 1 .. Len(disk)  BY <1>3, <1>4, Zenon DEF Saves
<1> HIDE DEF v
<1>6. writeUndo(call.copy, from) =
          [ready |-> FALSE, from |-> from, to |-> call.copy.to, size |-> Len(disk), saved |-> v]
    BY DEF writeUndo, v
<1> QED  BY <1>1, <1>5, <1>6 DEF UndoType

\* A bounded set of numbers has a greatest one: the restore point Rewind stops
\* at.
LEMMA MaxOf ==
    ASSUME NEW n \in Nat, NEW S \in SUBSET (0 .. n), S # {}
    PROVE  Max(S) \in S /\ \A y \in S : Max(S) >= y
<1> DEFINE T == {n - x : x \in S}
<1>1. T \in SUBSET Nat /\ T # {}
  <2>1. \A x \in S : n - x \in Nat  OBVIOUS
  <2> QED  BY <2>1, Zenon
<1>2. PICK t \in T : \A y \in T : t <= y  BY <1>1, Least, Zenon
<1>3. PICK x \in S : t = n - x  BY <1>2
<1>4. \A y \in S : x >= y  BY <1>2, <1>3
<1> QED  BY <1>4, Zenon DEF Max

\* What each action may change.
LEMMA Frame ==
    ASSUME [Next]_vars
    PROVE  /\ UNCHANGED mode
           /\ UNCHANGED up \/ SiteLost
           /\ UNCHANGED image \/ startVMCopy
           /\ UNCHANGED sent \/ advanceVMCopy
           /\ UNCHANGED list \/ JobFails \/ commitRefused \/ advanceVMCopy
           /\ UNCHANGED copy \/ startVMCopy \/ JobFails \/ commitRefused \/ RemoveStaging \/ advanceVMCopy
           /\ UNCHANGED disk \/ writeNewDiskFrom \/ Grow \/ WriteBlocks \/ \E p \in Procs : RollBack(p)
           /\ UNCHANGED undo \/ RestorePoint \/ pruneUndo
           /\ UNCHANGED open \/ OpenUndo \/ SaveUndo \/ RestorePoint \/ \E p \in Procs : Look(p) \/ RemoveReady(p)
           /\ UNCHANGED moment \/ writeMomentFile
           /\ UNCHANGED sealed \/ writeNewDiskFrom \/ Grow \/ WriteBlocks \/ writeMomentFile \/ \E p \in Procs : RollBack(p) \/ reseal(p)
           /\ UNCHANGED lease \/ Begin \/ commitRefused \/ writeMomentFile \/ LeaseExpires
           /\ UNCHANGED todo \/ SiteLost \/ SaveUndo \/ WriteBlocks \/ \E p \in Procs : Look(p) \/ RollBack(p) \/ Stop(p)
           /\ UNCHANGED call \/ SiteLost \/ Begin \/ commitRefused \/ RemoveStaging \/ advanceVMCopy \/ \E p \in Procs : Stop(p)
           /\ UNCHANGED job \/ ResolveVMs \/ MaterializeVMs \/ Rewind \/ \E p \in Procs : Stop(p)
           /\ UNCHANGED faults \/ JobFails \/ \E p \in Procs : Stop(p)
           /\ UNCHANGED passed \/ ResolveVMs
<1>1. /\ startVMCopy => UNCHANGED <<passed, mode, up, sent, list, disk, undo, open, moment, sealed, lease, pc, todo, call, job, faults>>
      /\ JobFails => UNCHANGED <<passed, mode, up, image, sent, disk, undo, open, moment, sealed, lease, pc, todo, call, job>>
      /\ SiteLost => UNCHANGED <<passed, mode, image, sent, list, copy, disk, undo, open, moment, sealed, lease, job, faults>>
      /\ LeaseExpires => UNCHANGED <<passed, mode, up, image, sent, list, copy, disk, undo, open, moment, sealed, pc, todo, call, job, faults>>

        BY Zenon DEF startVMCopy, JobFails, Failed, Fault, SiteLost, LeaseExpires, source, policy, folder, procs
<1>2. /\ Begin => UNCHANGED <<passed, mode, up, image, sent, list, copy, disk, undo, open, moment, sealed, todo, job, faults>>
      /\ commitRefused => UNCHANGED <<passed, mode, up, image, sent, disk, undo, open, moment, sealed, todo, job, faults>>
      /\ writeNewDiskFrom => UNCHANGED <<passed, mode, up, image, sent, list, copy, undo, open, moment, lease, todo, call, job, faults>>
      /\ OpenUndo => UNCHANGED <<passed, mode, up, image, sent, list, copy, disk, undo, moment, sealed, lease, todo, call, job, faults>>
      /\ SaveUndo => UNCHANGED <<passed, mode, up, image, sent, list, copy, disk, undo, moment, sealed, lease, call, job, faults>>

        BY Zenon DEF Begin, commitRefused, WrongBase, writeNewDiskFrom, OpenUndo, SaveUndo, source, policy, folder, procs
<1>3. /\ Grow => UNCHANGED <<passed, mode, up, image, sent, list, copy, undo, open, moment, lease, todo, call, job, faults>>
      /\ WriteBlocks => UNCHANGED <<passed, mode, up, image, sent, list, copy, undo, open, moment, lease, call, job, faults>>
      /\ RestorePoint => UNCHANGED <<passed, mode, up, image, sent, list, copy, disk, moment, sealed, lease, todo, call, job, faults>>
      /\ pruneUndo => UNCHANGED <<passed, mode, up, image, sent, list, copy, disk, open, moment, sealed, lease, todo, call, job, faults>>
    BY DEF Grow, WriteBlocks, RestorePoint, pruneUndo, source, policy, folder, procs
<1>4. /\ writeMomentFile => UNCHANGED <<passed, mode, up, image, sent, list, copy, disk, undo, open, todo, call, job, faults>>
      /\ RemoveStaging => UNCHANGED <<passed, mode, up, image, sent, list, disk, undo, open, moment, sealed, lease, todo, job, faults>>
      /\ advanceVMCopy => UNCHANGED <<passed, mode, up, image, disk, undo, open, moment, sealed, lease, todo, job, faults>>
    BY DEF writeMomentFile, RemoveStaging, advanceVMCopy, Applied, source, policy, folder, procs
<1>5. /\ ResolveVMs => UNCHANGED <<mode, up, image, sent, list, copy, disk, undo, open, moment, sealed, lease, todo, call, faults>>
      /\ MaterializeVMs => UNCHANGED <<passed, mode, up, image, sent, list, copy, disk, undo, open, moment, sealed, lease, todo, call, faults>>
      /\ Rewind => UNCHANGED <<passed, mode, up, image, sent, list, copy, disk, undo, open, moment, sealed, lease, todo, call, faults>>
    BY Zenon DEF ResolveVMs, MaterializeVMs, Rewind, source, policy, folder, procs
<1>6. /\ \A p \in Procs : Look(p) => UNCHANGED <<passed, mode, up, image, sent, list, copy, disk, undo, moment, sealed, lease, call, job, faults>>
      /\ \A p \in Procs : RollBack(p) => UNCHANGED <<passed, mode, up, image, sent, list, copy, undo, open, moment, lease, call, job, faults>>
      /\ \A p \in Procs : RemoveReady(p) => UNCHANGED <<passed, mode, up, image, sent, list, copy, disk, undo, moment, sealed, lease, todo, call, job, faults>>
    BY Zenon DEF Look, RollBack, RemoveReady, source, policy, folder, procs
<1>7. /\ \A p \in Procs : reseal(p) => UNCHANGED <<passed, mode, up, image, sent, list, copy, disk, undo, open, moment, lease, todo, call, job, faults>>
      /\ \A p \in Procs : Stop(p) => UNCHANGED <<passed, mode, up, image, sent, list, copy, disk, undo, open, moment, sealed, lease>>
      /\ UNCHANGED vars => UNCHANGED <<passed, mode, up, image, sent, list, copy, disk, undo, open, moment, sealed, lease, pc, todo, call, job, faults>>
    BY Zenon DEF reseal, Stop, Fault, vars, source, policy, folder, procs
<1> QED  BY <1>1, <1>2, <1>3, <1>4, <1>5, <1>6, <1>7, ZenonT(40) DEF Next
\* Where each action leads.
LEMMA Moves ==
    ASSUME pc \in [Procs -> Places]
    PROVE  /\ startVMCopy => pc' = pc
           /\ JobFails => pc' = pc
           /\ SiteLost => pc'["failover"] = pc["failover"] /\ IF mode = "direct" THEN pc'["copy"] = "idle" ELSE pc'["copy"] = pc["copy"]
           /\ Begin => pc["copy"] = "idle" /\ pc'["copy"] \in {"recover", "unstage", "report"} /\ pc'["failover"] = pc["failover"]
           /\ commitRefused => pc["copy"] = "go" /\ pc'["copy"] \in {"unstage", "idle"} /\ pc'["failover"] = pc["failover"]
           /\ writeNewDiskFrom => pc["copy"] = "go" /\ pc'["copy"] = "record" /\ pc'["failover"] = pc["failover"]
           /\ OpenUndo => pc["copy"] = "go" /\ pc'["copy"] = "save" /\ pc'["failover"] = pc["failover"]
           /\ SaveUndo => pc["copy"] = "save" /\ pc'["copy"] = "grow" /\ pc'["failover"] = pc["failover"]
           /\ Grow => pc["copy"] = "grow" /\ pc'["copy"] = "write" /\ pc'["failover"] = pc["failover"]
           /\ WriteBlocks => pc["copy"] = "write" /\ pc'["copy"] \in {"write", "applied"} /\ pc'["failover"] = pc["failover"]
           /\ RestorePoint => pc["copy"] = "applied" /\ pc'["copy"] = "prune" /\ pc'["failover"] = pc["failover"]
           /\ pruneUndo => pc["copy"] = "prune" /\ pc'["copy"] \in {"record", "unstage"} /\ pc'["failover"] = pc["failover"]
           /\ writeMomentFile => pc["copy"] = "record" /\ pc'["copy"] = "unstage" /\ pc'["failover"] = pc["failover"]
           /\ RemoveStaging => pc["copy"] = "unstage" /\ pc'["copy"] \in {"report", "idle"} /\ pc'["failover"] = pc["failover"]
           /\ advanceVMCopy => pc["copy"] = "report" /\ pc'["copy"] = "idle" /\ pc'["failover"] = pc["failover"]
           /\ LeaseExpires => pc' = pc
           /\ ResolveVMs => pc["failover"] = "idle" /\ pc'["failover"] \in {"recover", "used"} /\ pc'["copy"] = pc["copy"]
           /\ MaterializeVMs => pc["failover"] = "go" /\ pc'["failover"] \in {"rewind", "used"} /\ pc'["copy"] = pc["copy"]
           /\ Rewind => pc["failover"] = "rewind" /\ pc'["failover"] \in {"rewind", "used"} /\ pc'["copy"] = pc["copy"]
           /\ \A p \in Procs : Look(p) => pc[p] = "recover" /\ pc'[p] \in {"roll", "go"} /\ \A q \in Procs \ {p} : pc'[q] = pc[q]
           /\ \A p \in Procs : RollBack(p) => pc[p] = "roll" /\ pc'[p] \in {"roll", "unlink"} /\ \A q \in Procs \ {p} : pc'[q] = pc[q]
           /\ \A p \in Procs : RemoveReady(p) => pc[p] = "unlink" /\ pc'[p] = "reseal" /\ \A q \in Procs \ {p} : pc'[q] = pc[q]
           /\ \A p \in Procs : reseal(p) => pc[p] = "reseal" /\ pc'[p] = "go" /\ \A q \in Procs \ {p} : pc'[q] = pc[q]
           /\ \A p \in Procs : Stop(p) => pc[p] \notin {"idle", "used"} /\ pc'[p] = "idle" /\ \A q \in Procs \ {p} : pc'[q] = pc[q]
<1>1. /\ startVMCopy => pc' = pc
      /\ JobFails => pc' = pc
      /\ SiteLost => pc'["failover"] = pc["failover"] /\ IF mode = "direct" THEN pc'["copy"] = "idle" ELSE pc'["copy"] = pc["copy"]
      /\ LeaseExpires => pc' = pc
    BY Zenon DEF startVMCopy, JobFails, SiteLost, LeaseExpires, Goto, procs, Procs
<1>2. /\ Begin => pc["copy"] = "idle" /\ pc'["copy"] \in {"recover", "unstage", "report"} /\ pc'["failover"] = pc["failover"]
      /\ commitRefused => pc["copy"] = "go" /\ pc'["copy"] \in {"unstage", "idle"} /\ pc'["failover"] = pc["failover"]
      /\ writeNewDiskFrom => pc["copy"] = "go" /\ pc'["copy"] = "record" /\ pc'["failover"] = pc["failover"]
      /\ OpenUndo => pc["copy"] = "go" /\ pc'["copy"] = "save" /\ pc'["failover"] = pc["failover"]
      /\ SaveUndo => pc["copy"] = "save" /\ pc'["copy"] = "grow" /\ pc'["failover"] = pc["failover"]
    BY Zenon DEF Begin, commitRefused, writeNewDiskFrom, OpenUndo, SaveUndo, Goto, procs, Procs
<1>3. /\ Grow => pc["copy"] = "grow" /\ pc'["copy"] = "write" /\ pc'["failover"] = pc["failover"]
      /\ WriteBlocks => pc["copy"] = "write" /\ pc'["copy"] \in {"write", "applied"} /\ pc'["failover"] = pc["failover"]
      /\ RestorePoint => pc["copy"] = "applied" /\ pc'["copy"] = "prune" /\ pc'["failover"] = pc["failover"]
      /\ pruneUndo => pc["copy"] = "prune" /\ pc'["copy"] \in {"record", "unstage"} /\ pc'["failover"] = pc["failover"]
    BY DEF Grow, WriteBlocks, RestorePoint, pruneUndo, Goto, procs, Procs
<1>4. /\ writeMomentFile => pc["copy"] = "record" /\ pc'["copy"] = "unstage" /\ pc'["failover"] = pc["failover"]
      /\ RemoveStaging => pc["copy"] = "unstage" /\ pc'["copy"] \in {"report", "idle"} /\ pc'["failover"] = pc["failover"]
      /\ advanceVMCopy => pc["copy"] = "report" /\ pc'["copy"] = "idle" /\ pc'["failover"] = pc["failover"]
    BY DEF writeMomentFile, RemoveStaging, advanceVMCopy, Goto, procs, Procs
<1>5. /\ ResolveVMs => pc["failover"] = "idle" /\ pc'["failover"] \in {"recover", "used"} /\ pc'["copy"] = pc["copy"]
      /\ MaterializeVMs => pc["failover"] = "go" /\ pc'["failover"] \in {"rewind", "used"} /\ pc'["copy"] = pc["copy"]
      /\ Rewind => pc["failover"] = "rewind" /\ pc'["failover"] \in {"rewind", "used"} /\ pc'["copy"] = pc["copy"]
    BY Zenon DEF ResolveVMs, MaterializeVMs, Rewind, Goto, procs, Procs
<1>6. /\ \A p \in Procs : Look(p) => pc[p] = "recover" /\ pc'[p] \in {"roll", "go"} /\ \A q \in Procs \ {p} : pc'[q] = pc[q]
      /\ \A p \in Procs : RollBack(p) => pc[p] = "roll" /\ pc'[p] \in {"roll", "unlink"} /\ \A q \in Procs \ {p} : pc'[q] = pc[q]
      /\ \A p \in Procs : RemoveReady(p) => pc[p] = "unlink" /\ pc'[p] = "reseal" /\ \A q \in Procs \ {p} : pc'[q] = pc[q]
    BY Zenon DEF Look, RollBack, RemoveReady, Goto, procs, Procs
<1>7. /\ \A p \in Procs : reseal(p) => pc[p] = "reseal" /\ pc'[p] = "go" /\ \A q \in Procs \ {p} : pc'[q] = pc[q]
      /\ \A p \in Procs : Stop(p) => pc[p] \notin {"idle", "used"} /\ pc'[p] = "idle" /\ \A q \in Procs \ {p} : pc'[q] = pc[q]
    BY Zenon DEF reseal, Stop, Goto, procs, Procs
<1> QED  BY <1>1, <1>2, <1>3, <1>4, <1>5, <1>6, <1>7, Zenon

\* How each place is reached.
LEMMA Enters ==
    ASSUME pc \in [Procs -> Places], [Next]_vars
    PROVE  /\ pc'["copy"] = "idle" => pc["copy"] = "idle" \/ SiteLost \/ commitRefused \/ RemoveStaging \/ advanceVMCopy \/ Stop("copy")
           /\ pc'["copy"] = "report" => pc["copy"] = "report" \/ Begin \/ RemoveStaging
           /\ pc'["copy"] = "unstage" => pc["copy"] = "unstage" \/ Begin \/ commitRefused \/ pruneUndo \/ writeMomentFile
           /\ pc'["copy"] = "recover" => pc["copy"] = "recover" \/ Begin
           /\ pc'["copy"] = "roll" => pc["copy"] = "roll" \/ Look("copy")
           /\ pc'["copy"] = "unlink" => pc["copy"] = "unlink" \/ RollBack("copy")
           /\ pc'["copy"] = "reseal" => pc["copy"] = "reseal" \/ RemoveReady("copy")
           /\ pc'["copy"] = "go" => pc["copy"] = "go" \/ Look("copy") \/ reseal("copy")
           /\ pc'["copy"] = "save" => pc["copy"] = "save" \/ OpenUndo
           /\ pc'["copy"] = "grow" => pc["copy"] = "grow" \/ SaveUndo
           /\ pc'["copy"] = "write" => pc["copy"] = "write" \/ Grow
           /\ pc'["copy"] = "applied" => pc["copy"] = "applied" \/ WriteBlocks
           /\ pc'["copy"] = "prune" => pc["copy"] = "prune" \/ RestorePoint
           /\ pc'["copy"] = "record" => pc["copy"] = "record" \/ writeNewDiskFrom \/ pruneUndo
           /\ pc'["failover"] = "idle" => pc["failover"] = "idle" \/ Stop("failover")
           /\ pc'["failover"] = "used" => pc["failover"] = "used" \/ ResolveVMs \/ MaterializeVMs \/ Rewind
           /\ pc'["failover"] = "recover" => pc["failover"] = "recover" \/ ResolveVMs
           /\ pc'["failover"] = "roll" => pc["failover"] = "roll" \/ Look("failover")
           /\ pc'["failover"] = "unlink" => pc["failover"] = "unlink" \/ RollBack("failover")
           /\ pc'["failover"] = "reseal" => pc["failover"] = "reseal" \/ RemoveReady("failover")
           /\ pc'["failover"] = "go" => pc["failover"] = "go" \/ Look("failover") \/ reseal("failover")
           /\ pc'["failover"] = "rewind" => pc["failover"] = "rewind" \/ MaterializeVMs
<1>1. UNCHANGED vars => pc' = pc  BY DEF vars, procs
<1>2. /\ pc'["copy"] = "idle" => pc["copy"] = "idle" \/ SiteLost \/ commitRefused \/ RemoveStaging \/ advanceVMCopy \/ Stop("copy")
      /\ pc'["copy"] = "report" => pc["copy"] = "report" \/ Begin \/ RemoveStaging
      /\ pc'["copy"] = "unstage" => pc["copy"] = "unstage" \/ Begin \/ commitRefused \/ pruneUndo \/ writeMomentFile
      /\ pc'["copy"] = "recover" => pc["copy"] = "recover" \/ Begin
      /\ pc'["copy"] = "roll" => pc["copy"] = "roll" \/ Look("copy")
      /\ pc'["copy"] = "unlink" => pc["copy"] = "unlink" \/ RollBack("copy")
      /\ pc'["copy"] = "reseal" => pc["copy"] = "reseal" \/ RemoveReady("copy")
    BY <1>1, Moves, Zenon DEF Next, Procs
<1>3. /\ pc'["copy"] = "go" => pc["copy"] = "go" \/ Look("copy") \/ reseal("copy")
      /\ pc'["copy"] = "save" => pc["copy"] = "save" \/ OpenUndo
      /\ pc'["copy"] = "grow" => pc["copy"] = "grow" \/ SaveUndo
      /\ pc'["copy"] = "write" => pc["copy"] = "write" \/ Grow
      /\ pc'["copy"] = "applied" => pc["copy"] = "applied" \/ WriteBlocks
      /\ pc'["copy"] = "prune" => pc["copy"] = "prune" \/ RestorePoint
      /\ pc'["copy"] = "record" => pc["copy"] = "record" \/ writeNewDiskFrom \/ pruneUndo
    BY <1>1, Moves, Zenon DEF Next, Procs
<1>4. /\ pc'["failover"] = "idle" => pc["failover"] = "idle" \/ Stop("failover")
      /\ pc'["failover"] = "used" => pc["failover"] = "used" \/ ResolveVMs \/ MaterializeVMs \/ Rewind
      /\ pc'["failover"] = "recover" => pc["failover"] = "recover" \/ ResolveVMs
      /\ pc'["failover"] = "roll" => pc["failover"] = "roll" \/ Look("failover")
      /\ pc'["failover"] = "unlink" => pc["failover"] = "unlink" \/ RollBack("failover")
      /\ pc'["failover"] = "reseal" => pc["failover"] = "reseal" \/ RemoveReady("failover")
      /\ pc'["failover"] = "go" => pc["failover"] = "go" \/ Look("failover") \/ reseal("failover")
      /\ pc'["failover"] = "rewind" => pc["failover"] = "rewind" \/ MaterializeVMs
    BY <1>1, Moves, Zenon DEF Next, Procs
<1> QED  BY <1>2, <1>3, <1>4, Zenon

\* The processes stay at the places of the code, with blocks of the disk to do.
LEMMA PlacesStep ==
    ASSUME Constants, IInv, [Next]_vars
    PROVE  pc' \in [Procs -> Places] /\ todo' \in [Procs -> SUBSET Blocks]
<1>1. pc \in [Procs -> Places] /\ todo \in [Procs -> SUBSET Blocks]  BY Zenon DEF IInv, Types
<1> USE <1>1
<1>2. pc' \in [Procs -> Places]
  <2>1. \A p \in Procs, l \in Places : Goto(p, l) => pc' \in [Procs -> Places]  BY DEF Goto
  <2>2. {"recover", "unstage", "report", "idle", "record", "save", "grow", "write", "applied", "prune",
         "used", "rewind", "roll", "go", "unlink", "reseal"} \subseteq Places
        /\ "copy" \in Procs /\ "failover" \in Procs
      BY DEF Places, Busy, Recovers, Procs
  <2> USE <2>1, <2>2
  <2>3. Begin \/ commitRefused \/ writeNewDiskFrom \/ OpenUndo \/ SaveUndo \/ Grow \/ WriteBlocks
        \/ RestorePoint \/ pruneUndo \/ writeMomentFile \/ RemoveStaging \/ advanceVMCopy
        => pc' \in [Procs -> Places]
      BY Zenon DEF Begin, commitRefused, writeNewDiskFrom, OpenUndo, SaveUndo, Grow, WriteBlocks,
             RestorePoint, pruneUndo, writeMomentFile, RemoveStaging, advanceVMCopy
  <2>4. (\E p \in Procs : Look(p) \/ RollBack(p) \/ RemoveReady(p) \/ reseal(p) \/ Stop(p))
        \/ ResolveVMs \/ MaterializeVMs \/ Rewind \/ SiteLost => pc' \in [Procs -> Places]

          BY Zenon DEF Look, RollBack, RemoveReady, reseal, Stop, ResolveVMs, MaterializeVMs, Rewind, SiteLost
  <2>5. UNCHANGED vars => pc' = pc  BY Zenon DEF vars, procs
  <2> QED  BY <2>3, <2>4, <2>5, Moves, Zenon DEF Next
<1>3. todo' \in [Procs -> SUBSET Blocks]
  <2>1. ASSUME SaveUndo PROVE Changed(call.copy) \subseteq Blocks
      BY <2>1, CallFacts, Zenon DEF IInv, SaveUndo, Changed
  <2>2. open # None => DOMAIN open.saved \subseteq Blocks  BY UndoFacts, Zenon DEF IInv, Types
  <2>3. SiteLost \/ SaveUndo \/ WriteBlocks => todo' \in [Procs -> SUBSET Blocks]
      BY <2>1 DEF SiteLost, SaveUndo, WriteBlocks, Procs
  <2>4. \A p \in Procs : Look(p) \/ RollBack(p) \/ Stop(p) => todo' \in [Procs -> SUBSET Blocks]
      BY <2>2, ZenonT(40) DEF Look, RollBack, Stop
  <2> QED  BY <2>3, <2>4, Frame, Zenon
<1> QED  BY <1>2, <1>3

\* One process at a time works on the disk: the lease and the loss of the site
\* decide which, unless a failover passes the lease.
LEMMA AloneStep ==
    ASSUME Constants, IInv, [Next]_vars, Guarded'
    PROVE  Alone'
<1> USE DEF Procs
<1>1. /\ Alone /\ Types /\ pc \in [Procs -> Places] /\ todo \in [Procs -> SUBSET Blocks]
      /\ mode \in {"receiver", "direct"}
    BY SMTT(20) DEF IInv, Types, Constants
<1> USE <1>1
<1>2. UNCHANGED vars => pc' = pc  BY Zenon DEF vars, procs
<1>3. pc'["copy"] \in Busy \cup {"idle", "unstage", "report"}
    BY <1>2, Moves, ZenonT(40) DEF Next, Alone, Busy, Recovers
<1>4. pc'["failover"] \in Works \cup {"idle", "used"}
    BY <1>2, Moves DEF Next, Alone, Works, Recovers
<1>5. pc'["copy"] \in Busy => pc["copy"] \in Busy \/ (Begin /\ up /\ (mode = "receiver" => lease' # "none"))
  <2>1. Begin /\ pc'["copy"] \in Busy => up /\ (mode = "receiver" => lease' # "none")
      BY Zenon DEF Begin, Goto, Busy, Recovers
  <2>2. pc'["copy"] \in Busy => pc["copy"] \in Busy \/ Begin
      BY <1>2, Moves, ZenonT(40) DEF Next, Busy, Recovers
  <2> QED  BY <2>1, <2>2, Zenon
<1>6. pc'["copy"] \in Busy => IF mode = "receiver" THEN lease' # "none" ELSE up'
  <2>1. commitRefused \/ writeMomentFile => pc'["copy"] \notin Busy
      BY Moves, ZenonT(40) DEF Busy, Recovers
  <2>4. LeaseExpires => lease' # "none"  BY DEF LeaseExpires
  <2>2. SiteLost => mode = "receiver" \/ pc'["copy"] \notin Busy  BY Moves DEF Busy, Recovers
  <2>3. Begin => ~ SiteLost /\ pc["copy"] \notin Busy  BY Moves, Zenon DEF Busy, Recovers
  <2> QED  BY <1>5, <2>1, <2>2, <2>3, <2>4, Frame DEF Alone
<1>7. pc'["failover"] \in Works => ~up' /\ pc'["copy"] \notin Busy
  <2>1. ASSUME pc'["failover"] \in Works PROVE ~up /\ pc["copy"] \notin Busy
    <3>1. ASSUME ResolveVMs PROVE ~up /\ pc["copy"] \notin Busy
      <4>1. ~up /\ Moment # 0
          BY <2>1, <3>1, ZenonT(40) DEF ResolveVMs, Goto, Works, Recovers
      <4>2. AtWork => lease \notin {"live", "expired"}
          BY <3>1, <4>1, ZenonT(40) DEF ResolveVMs, Guarded
      <4>3. pc["copy"] \in Busy => AtWork  BY DEF Busy, Recovers, AtWork
      <4> QED  BY <4>1, <4>2, <4>3, Zenon DEF Alone, Types
    <3> QED  BY <2>1, <3>1, Enters, Moves, Zenon DEF Works, Recovers, Alone
  <2> QED  BY <1>5, <2>1, Frame, Zenon DEF SiteLost
<1>8. /\ todo'["copy"] # {} => pc'["copy"] \in {"roll", "grow", "write"}
      /\ todo'["failover"] # {} => pc'["failover"] \in {"roll", "grow", "write"}
  <2>1. \A p \in Procs : pc[p] \notin {"roll", "grow", "write"} => todo[p] = {}  BY DEF Alone
  <2>2. SaveUndo => pc'["copy"] = "grow" /\ todo'["failover"] = todo["failover"]
      BY Moves, Zenon DEF SaveUndo
  <2>3. WriteBlocks => todo'["failover"] = todo["failover"] /\ (pc'["copy"] = "write" \/ todo'["copy"] = {})
      BY Moves, Zenon DEF WriteBlocks
  <2>4. SiteLost => todo'["failover"] = todo["failover"] /\ IF mode = "direct" THEN todo'["copy"] = {} ELSE todo' = todo
      BY Zenon DEF SiteLost
  <2>5. \A p \in Procs : Look(p) => (pc'[p] = "roll" \/ todo' = todo) /\ \A q \in Procs \ {p} : todo'[q] = todo[q]
      BY DEF Look, Goto
  <2>6. \A p \in Procs : RollBack(p) => (pc'[p] = "roll" \/ todo'[p] = {}) /\ \A q \in Procs \ {p} : todo'[q] = todo[q]
      BY Moves, Zenon DEF RollBack
  <2>7. \A p \in Procs : Stop(p) => todo'[p] = {} /\ \A q \in Procs \ {p} : todo'[q] = todo[q]
      BY SMTT(20) DEF Stop
  <2> USE <2>1, <2>2, <2>3, <2>4, <2>5, <2>6, <2>7
  <2>8. CASE UNCHANGED todo
      BY <1>2, <2>8, Moves, ZenonT(40) DEF Next
  <2> QED  BY <2>8, Frame, Moves
<1> QED  BY <1>3, <1>4, <1>6, <1>7, <1>8, Frame, Zenon DEF Alone

\* The moments that a failover can choose were taken.
LEMMA ShownMoments ==
    ASSUME Constants, IInv, disk # None, Moment # 0, NEW last \in Moments,
           NEW S, S = {m \in Shows : m <= last}, S # {}
    PROVE  Max(S) \in S /\ Max(S) \in 0 .. Len(image) /\ Max(S) # 0
<1>1. Types /\ Chain  BY Zenon DEF IInv
<1> USE <1>1
<1>2. PICK m \in DOMAIN image : ShowsMoment(m)  BY Zenon DEF IInv
<1>3. Moment = m  BY <1>2, Zenon DEF ShowsMoment, InTime
<1>4. \A i \in DOMAIN undo : undo[i] \in UndoType  BY DEF Types
<1>5. \A i \in DOMAIN undo : undo[i].from \in 0 .. Len(image)
    BY <1>4, UndoFacts DEF Chain, Types, Constants
<1>6. \A x \in Shows : x \in 0 .. Len(image) /\ x # 0  BY <1>3, <1>5, SMTT(20) DEF Shows, Types
<1>7. Len(image) \in Nat /\ S \in SUBSET (0 .. Len(image))  BY <1>6, SMTT(20) DEF Types
<1>8. Max(S) \in S  BY <1>7, MaxOf, Zenon
<1> QED  BY <1>6, <1>8, Zenon

\* A rewind stops at the last undo file with the moment chosen.
LEMMA StopPoint ==
    ASSUME Constants, Types, JobPlace, pc["failover"] \in Works, job.rewind
    PROVE  LET S == {i \in DOMAIN undo : undo[i].from = job.at}
           IN  Max(S) \in S /\ Max(S) \in Nat
<1> DEFINE S == {i \in DOMAIN undo : undo[i].from = job.at}
<1>1. Len(undo) \in Nat /\ S \in SUBSET (0 .. Len(undo))  BY SMTT(20) DEF Types
<1>2. S # {}  BY DEF JobPlace
<1>3. Max(S) \in S  BY <1>1, <1>2, MaxOf, Zenon
<1> QED  BY <1>1, <1>3

\* The source disk's moments only grow.
LEMMA ImageStep ==
    ASSUME Constants, IInv, [Next]_vars
    PROVE  /\ image' \in Seq(Images) /\ Len(image') <= MaxMoments /\ Len(image) <= Len(image')
           /\ Len(image) \in Nat /\ Len(image') \in Nat /\ 0 .. Len(image) \subseteq 0 .. Len(image')
<1>1. image \in Seq(Images) /\ Len(image) <= MaxMoments /\ Len(image) \in Nat /\ MaxMoments \in Nat
    BY DEF Constants, IInv, Types
<1> USE <1>1
<1>2. startVMCopy => image' \in Seq(Images) /\ Len(image') = Len(image) + 1 /\ Len(image) < MaxMoments
    BY DEF startVMCopy
<1> QED  BY <1>2, Frame, SMTT(20)

\* The copy being sent, the call's copy, and the change list.
LEMMA CopyTypes ==
    ASSUME Constants, IInv, [Next]_vars
    PROVE  /\ copy' \in CopyType \cup {None} /\ call' \in [copy : CopyType \cup {None}, from : 0 .. Len(image')]
           /\ sent' \in 0 .. Len(image') /\ list' \in 0 .. Len(image') /\ moment' \in 0 .. Len(image')
<1> DEFINE C == CopyType \cup {None}
           N == 0 .. Len(image')
           K == [copy : C, from : N]
<1>1. Types /\ Copies  BY DEF IInv
<1>2. 0 .. Len(image) \subseteq N /\ 0 \in N  BY ImageStep
<1>3. sent \in N /\ list \in N /\ moment \in N /\ copy \in C /\ call.copy \in C /\ call \in K
    BY <1>1, <1>2, Zenon DEF Types
<1>4. NoCall \in K  BY <1>2, Zenon DEF NoCall
<1>5. pc["copy"] # "idle" => call.copy \in CopyType /\ call.copy.to \in N
  <2>1. pc["copy"] # "idle" => call.copy \in CopyType /\ call.copy.to \in DOMAIN image /\ image \in Seq(Images)
      BY <1>1, CallFacts, Zenon DEF Types
  <2>2. pc["copy"] # "idle" => call.copy.to \in 0 .. Len(image)  BY <2>1
  <2> QED  BY <1>2, <2>1, <2>2, Zenon
<1>6. ASSUME startVMCopy PROVE copy' \in CopyType
  <2>1. Len(image) + 1 \in Moments /\ list \in 0 .. MaxMoments
    <3>1. image \in Seq(Images) /\ list \in 0 .. Len(image)  BY <1>1, Zenon DEF Types
    <3>2. Len(image) < MaxMoments  BY <1>6, Zenon DEF startVMCopy
    <3> QED  BY <3>1, <3>2 DEF Moments, Constants
  <2>2. PICK k \in BOOLEAN : copy' = [to |-> Len(image) + 1, base |-> list, staged |-> TRUE, full |-> k]
      BY <1>6, Zenon DEF startVMCopy
  <2> QED  BY <2>1, <2>2, Zenon DEF CopyType
<1>7. ASSUME NEW c \in CopyType PROVE [c EXCEPT !.staged = FALSE] \in CopyType
    BY Zenon DEF CopyType
<1>8. ASSUME RemoveStaging PROVE copy' \in C /\ call' \in K
  <2>1. call.copy \in CopyType  BY <1>5, <1>8 DEF RemoveStaging
  <2>2. [call EXCEPT !.copy.staged = FALSE] = [call EXCEPT !.copy = [call.copy EXCEPT !.staged = FALSE]]
      OBVIOUS
  <2>3. [call EXCEPT !.copy = [call.copy EXCEPT !.staged = FALSE]] \in K  BY <1>3, <1>7, <2>1, Zenon
  <2> QED  BY <1>3, <1>4, <1>7, <1>8, <2>1, <2>2, <2>3, Zenon DEF RemoveStaging
<1> HIDE DEF C, N, K
<1>9. copy' \in C

        BY <1>3, <1>6, <1>8, Frame, Zenon DEF C, JobFails, Failed, commitRefused, WrongBase, advanceVMCopy, Applied, policy
<1>10. call' \in K
  <2>1. Begin => call' \in K  BY <1>3 DEF Begin, K
  <2> QED  BY <1>3, <1>4, <1>8, <2>1, Frame, Zenon DEF SiteLost, commitRefused, advanceVMCopy, Stop
<1>11. sent' \in N  BY <1>3, <1>5, Frame, Zenon DEF advanceVMCopy, Applied, policy
<1>12. list' \in N

        BY <1>2, <1>3, <1>5, Frame, Zenon DEF advanceVMCopy, Applied, JobFails, Failed, commitRefused, WrongBase, policy
<1>13. moment' \in N  BY <1>3, <1>5, Frame, Zenon DEF writeMomentFile
<1> QED  BY <1>9, <1>10, <1>11, <1>12, <1>13, Zenon DEF C, K, N

\* The image that a copy call writes.
LEMMA Target ==
    ASSUME Constants, IInv, pc["copy"] # "idle"
    PROVE  /\ image[call.copy.to] \in Images /\ Len(image[call.copy.to]) \in Blocks
           /\ DOMAIN image[call.copy.to] = 1 .. Len(image[call.copy.to]) /\ Len(image[call.copy.to]) \in Int
           /\ \A b \in DOMAIN image[call.copy.to] : image[call.copy.to][b] \in Values /\ b \in Blocks
<1>1. image[call.copy.to] \in Images /\ DOMAIN image[call.copy.to] \subseteq Blocks
    BY CallFacts, Zenon DEF IInv
<1> QED  BY <1>1, ImageFacts

\* A disk stays a disk.
LEMMA DiskStep ==
    ASSUME Constants, IInv, [Next]_vars
    PROVE  disk' \in Images \cup {None} /\ (disk # None => disk' \in Images)
<1>1. ASSUME writeNewDiskFrom PROVE disk' \in Images
  <2>1. pc["copy"] # "idle"  BY <1>1, Zenon DEF writeNewDiskFrom
  <2>2. disk' \in [1 .. Len(image[call.copy.to]) -> Values]
      BY <1>1, <2>1, Target, Zenon DEF writeNewDiskFrom, Constants
  <2> QED  BY <2>1, <2>2, Target, Zenon DEF Images
<1>2. ASSUME Grow PROVE disk' \in Images
  <2>1. disk \in Images /\ pc["copy"] # "idle"  BY <1>2, DiskThere, Zenon DEF Grow
  <2>2. Len(disk) \in Blocks /\ Len(disk) \in Int /\ Len(image[call.copy.to]) \in Blocks /\ Len(image[call.copy.to]) \in Int
      BY <2>1, ImageFacts, Target
  <2>3. Max({Len(disk), Len(image[call.copy.to])}) \in Blocks  BY <2>2, MaxTwo, Zenon
  <2> QED  BY <1>2, <2>1, <2>3, TruncateFacts, Zenon DEF Grow
<1>3. ASSUME WriteBlocks PROVE disk' \in Images
  <2>1. disk \in Images /\ pc["copy"] # "idle"  BY <1>3, DiskThere DEF WriteBlocks
  <2>2. todo["copy"] \subseteq DOMAIN image[call.copy.to]
      BY <1>3, Zenon DEF WriteBlocks, Writing, IInv
  <2>3. \A b \in todo["copy"] : WriteAt(disk, b, image[call.copy.to][b]) \in Images
      BY <2>1, <2>2, Target, WriteAtFacts, Zenon
  <2>4. Truncate(disk, Len(image[call.copy.to])) \in Images  BY <2>1, Target, TruncateFacts, Zenon
  <2> QED  BY <1>3, <2>3, <2>4, Zenon DEF WriteBlocks
<1>4. ASSUME NEW p \in Procs, RollBack(p) PROVE disk' \in Images
  <2>1. disk \in Images /\ open \in UndoType /\ todo[p] \subseteq DOMAIN open.saved
      BY <1>4, RollFacts, Zenon DEF RollBack
  <2>2. /\ open.size \in Blocks /\ DOMAIN open.saved \subseteq Blocks
        /\ \A b \in DOMAIN open.saved : open.saved[b] \in Values
      BY <2>1, UndoFacts, Zenon
  <2>3. \A b \in todo[p] : WriteAt(disk, b, open.saved[b]) \in Images
      BY <2>1, <2>2, WriteAtFacts, Zenon
  <2>4. Truncate(disk, open.size) \in Images  BY <2>1, <2>2, TruncateFacts, Zenon
  <2> QED  BY <1>4, <2>3, <2>4, Zenon DEF RollBack
<1>5. disk \in Images \cup {None}  BY DEF IInv, Types
<1> QED  BY <1>1, <1>2, <1>3, <1>4, <1>5, Frame, Zenon

\* The undo files.
LEMMA UndoStep ==
    ASSUME Constants, IInv, [Next]_vars
    PROVE  undo' \in Seq(UndoType) /\ open' \in UndoType \cup {None}
<1>1. undo \in Seq(UndoType) /\ open \in UndoType \cup {None}  BY Zenon DEF IInv, Types
<1>2. pc["copy"] \in {"save", "grow", "write", "applied"} => open \in UndoType
    BY <1>1, Zenon DEF IInv, Writing
<1>3. RestorePoint => undo' \in Seq(UndoType)  BY <1>1, <1>2 DEF RestorePoint
<1>4. pruneUndo => undo' \in Seq(UndoType)  BY <1>1 DEF pruneUndo
<1>5. ASSUME OpenUndo PROVE open' \in UndoType
  <2>1. From \in 0 .. MaxMoments  BY MomentType, SMTT(20) DEF From, Constants, IInv, Types
  <2>2. disk \in Images /\ Types /\ Copies /\ pc["copy"] # "idle"
      BY <1>5, SMTT(20) DEF OpenUndo, IInv, Types
  <2> QED  BY <1>5, <2>1, <2>2, NewUndo, Zenon DEF OpenUndo
<1>6. SaveUndo => open' \in UndoType
  <2>1. ASSUME NEW u \in UndoType PROVE [u EXCEPT !.ready = TRUE] \in UndoType
      BY Zenon DEF UndoType
  <2> QED  BY <1>2, <2>1 DEF SaveUndo
<1> QED  BY <1>1, <1>3, <1>4, <1>5, <1>6, Frame, Zenon DEF RestorePoint, Look, RemoveReady

\* What the failover Job remembers.
LEMMA JobTypes ==
    ASSUME Constants, IInv, [Next]_vars
    PROVE  job' \in [at : 0 .. Len(image'), rewind : BOOLEAN, stop : Nat, next : Nat, img : Images \cup {None}]
<1> DEFINE N == 0 .. Len(image')
           J == [at : N, rewind : BOOLEAN, stop : Nat, next : Nat, img : Images \cup {None}]
<1>1. Types /\ JobPlace  BY Zenon DEF IInv
<1>2. 0 .. Len(image) \subseteq N /\ 0 \in N  BY ImageStep
<1>3. job \in J /\ NoJob \in J /\ undo \in Seq(UndoType) /\ Len(undo) \in Nat /\ job.next \in Nat /\ job.stop \in Nat
    BY <1>1, <1>2 DEF NoJob, Types
<1> HIDE DEF N
<1>4. ASSUME ResolveVMs PROVE job' \in J
  <2>1. disk \in Images /\ disk # None  BY <1>1, <1>4, Zenon DEF ResolveVMs, Types
  <2>2. CASE Moment = 0  BY <1>3, <1>4, <2>1, <2>2, Zenon DEF ResolveVMs
  <2>3. CASE Moment # 0
    <3>1. PICK last \in Moments :
             LET common == {m \in Shows : m <= last}
             IN  common # {} /\ job' = [NoJob EXCEPT !.at = Max(common), !.rewind = Max(common) # Moment]
        BY <1>4, <2>3, Zenon DEF ResolveVMs
    <3> DEFINE common == {m \in Shows : m <= last}
    <3>2. Max(common) \in N  BY <1>2, <2>1, <2>3, <3>1, ShownMoments, Zenon
    <3>3. job' = [NoJob EXCEPT !.at = Max(common), !.rewind = Max(common) # Moment]  BY <3>1
    <3> HIDE DEF common
    <3> QED  BY <1>3, <3>2, <3>3, Zenon
  <2> QED  BY <2>2, <2>3
<1>5. ASSUME MaterializeVMs PROVE job' \in J
  <2>1. disk \in Images  BY <1>5, DiskThere DEF MaterializeVMs
  <2>2. job.rewind => Max({i \in DOMAIN undo : undo[i].from = job.at}) \in Nat
      BY <1>1, <1>5, StopPoint, Zenon DEF MaterializeVMs, Works, Recovers
  <2> QED  BY <1>3, <1>5, <2>1, <2>2, ZenonT(40) DEF MaterializeVMs
<1>6. ASSUME Rewind PROVE job' \in J
  <2>1. job.stop \in DOMAIN undo /\ job.next <= Len(undo) /\ job.img \in Images
      BY <1>1, <1>6 DEF Rewind, JobPlace
  <2>2. job.next >= job.stop => undo[job.next] \in UndoType /\ job.next - 1 \in Nat
      BY <1>3, <2>1, SMTT(20)
  <2>3. job.next >= job.stop => applyUndo(undo[job.next], job.img) \in Images
      BY <2>1, <2>2, RolledType
  <2> QED  BY <1>3, <1>6, <2>2, <2>3, ZenonT(40) DEF Rewind
<1> QED  BY <1>3, <1>4, <1>5, <1>6, Frame, Zenon DEF Stop, N

\* Every variable keeps its type.
LEMMA TypesStep ==
    ASSUME Constants, IInv, [Next]_vars
    PROVE  Types' /\ (disk # None => disk' # None)
<1>1. Types  BY Zenon DEF IInv
<1>2. sealed' \in BOOLEAN /\ lease' \in {"none", "live", "expired"} /\ up' \in BOOLEAN /\ mode' \in Modes

        BY <1>1, Frame, ZenonT(40) DEF writeNewDiskFrom, Grow, WriteBlocks, writeMomentFile, RollBack, reseal,
                              Begin, commitRefused, LeaseExpires, SiteLost, Types
<1>3. faults' \in 0 .. MaxFaults
  <2>1. faults \in 0 .. MaxFaults /\ MaxFaults \in Nat  BY <1>1 DEF Constants, Types
  <2>2. Fault => faults' \in 0 .. MaxFaults  BY <2>1 DEF Fault
  <2> QED  BY <2>1, <2>2, Frame, Zenon DEF JobFails, Stop
<1>4. disk # None => disk' # None  BY DiskStep DEF Constants
<1> QED
    BY <1>2, <1>3, <1>4, ImageStep, CopyTypes, PlacesStep, DiskStep, UndoStep, JobTypes, ZenonT(40) DEF Types

-----------------------------------------------------------------------------
(* The images and the copies that are sent *)

\* Images once taken stay, and so does what a copy of them holds.
LEMMA Kept ==
    ASSUME Constants, Types, [Next]_vars
    PROVE  /\ Len(image) \in Nat /\ Len(image') \in Nat /\ Len(image) <= Len(image')
           /\ \A i \in DOMAIN image : i \in DOMAIN image' /\ image'[i] = image[i]
           /\ \A c \in CopyType : CopyFits(c) => CopyFits(c)' /\ Held(c)' = Held(c)
<1>1. image \in Seq(Images) /\ Len(image) \in Nat  BY DEF Types
<1> USE <1>1
<1>2. CASE UNCHANGED image  BY <1>2 DEF CopyFits, Held
<1>3. CASE startVMCopy
  <2>1. PICK img \in Images : image' = Append(image, img)  BY <1>3 DEF startVMCopy
  <2>2. /\ Len(image') = Len(image) + 1
        /\ \A i \in 1 .. Len(image) : i \in DOMAIN image' /\ image'[i] = image[i]
      BY <2>1
  <2> USE <2>2
  <2>3. ASSUME NEW c \in CopyType, CopyFits(c) PROVE CopyFits(c)' /\ Held(c)' = Held(c)
    <3>1. /\ c.to \in Nat \ {0} /\ c.base \in Nat /\ c.to <= Len(image) /\ c.base < c.to /\ (~ c.full => c.base # 0)
        BY <2>3 DEF CopyType, CopyFits, Moments, Constants
    <3> USE <3>1
    <3>2. \A k \in 1 .. c.to : image'[k] = image[k]  OBVIOUS
    <3>3. image'[c.to] = image[c.to]  BY <3>2
    <3>4. ~ c.full => \A k \in c.base .. c.to - 1 : k \in 1 .. c.to /\ k + 1 \in 1 .. c.to
        BY SMTT(20)
    <3>5. ~ c.full => \A k \in c.base .. c.to - 1 : image'[k] = image[k] /\ image'[k + 1] = image[k + 1]
        BY <3>2, <3>4, Zenon
    <3>6. CASE c.full
      <4>1. Held(c)' = Held(c)  BY <3>3, <3>6, Zenon DEF Held
      <4> QED  BY <4>1 DEF CopyFits
    <3>7. CASE ~ c.full
      <4>1. \A b : (\E k \in c.base .. c.to - 1 : BlockOf(image[k], b) # BlockOf(image[k + 1], b))'
                 <=> (\E k \in c.base .. c.to - 1 : BlockOf(image[k], b) # BlockOf(image[k + 1], b))
          BY <3>5, <3>7, Zenon
      <4>2. Held(c)' = Held(c)  BY <3>3, <3>7, <4>1, Zenon DEF Held
      <4> QED  BY <4>2 DEF CopyFits
    <3> QED  BY <3>6, <3>7
  <2> QED  BY <2>3
<1> QED  BY <1>2, <1>3, Frame, Zenon

\* A call has a copy until it ends.
LEMMA CallPlace ==
    ASSUME Constants, Types, Copies, [Next]_vars
    PROVE  call'.copy # None <=> pc'["copy"] # "idle"
<1>1. call.copy # None <=> pc["copy"] # "idle"  BY DEF Copies
<1> USE <1>1
<1>2. pc \in [Procs -> Places] /\ call.copy \in CopyType \cup {None} /\ copy \in CopyType \cup {None}
    BY DEF Types
<1> USE <1>2
<1>3. CASE /\ ~ SiteLost /\ ~ Begin /\ ~ commitRefused /\ ~ RemoveStaging /\ ~ advanceVMCopy
           /\ \A p \in Procs : ~ Stop(p)
  <2>1. call' = call  BY <1>3, Frame, Zenon
  <2>2. UNCHANGED vars => pc' = pc  BY Zenon DEF vars, procs
  <2>3. pc["copy"] = "idle" <=> pc'["copy"] = "idle"  BY <1>3, <2>2, Moves, ZenonT(40) DEF Next, Procs
  <2> QED  BY <2>1, <2>3, Zenon
<1>4. CASE SiteLost
  <2>1. IF mode = "direct" THEN call' = NoCall ELSE call' = call  BY <1>4 DEF SiteLost
  <2> QED  BY <1>4, <2>1, Moves DEF NoCall
<1>5. CASE Begin  BY <1>5, Moves, Zenon DEF Begin
<1>6. CASE commitRefused
  <2>1. \/ pc'["copy"] = "unstage" /\ call' = call
        \/ pc'["copy"] = "idle" /\ call' = NoCall
      BY <1>6 DEF commitRefused, Goto, Procs
  <2> QED  BY <1>6, <2>1, Moves DEF NoCall
<1>7. CASE RemoveStaging
  <2>1. \/ pc'["copy"] = "report" /\ call' = [call EXCEPT !.copy.staged = FALSE]
        \/ pc'["copy"] = "idle" /\ call' = NoCall
      BY <1>7, Zenon DEF RemoveStaging, Goto, Procs
  <2>2. pc["copy"] = "unstage" /\ call.copy \in CopyType  BY <1>7, Moves
  <2>3. call' = [call EXCEPT !.copy.staged = FALSE] => call'.copy = [call.copy EXCEPT !.staged = FALSE]
      BY DEF Types
  <2>4. [call.copy EXCEPT !.staged = FALSE] \in CopyType  BY <2>2, Zenon DEF CopyType
  <2>5. None \notin CopyType  BY DEF Constants
  <2>6. CASE call' = NoCall /\ pc'["copy"] = "idle"  BY <2>6 DEF NoCall
  <2>7. CASE call'.copy = [call.copy EXCEPT !.staged = FALSE] /\ pc'["copy"] = "report"
      BY <2>4, <2>5, <2>7, Zenon
  <2> QED  BY <2>1, <2>3, <2>6, <2>7
<1>8. CASE advanceVMCopy  BY <1>8, Moves, Zenon DEF advanceVMCopy, NoCall
<1>9. ASSUME NEW p \in Procs, Stop(p) PROVE call'.copy # None <=> pc'["copy"] # "idle"
  <2>1. IF p = "copy" THEN call' = NoCall ELSE call' = call  BY <1>9 DEF Stop
  <2> QED  BY <1>9, <2>1, Moves DEF NoCall, Procs
<1> QED  BY <1>3, <1>4, <1>5, <1>6, <1>7, <1>8, <1>9, Frame, ZenonT(40)

\* A copy, but for the mark that its staging file is gone.
SameCopy(c, d) == c.to = d.to /\ c.base = d.base /\ c.full = d.full

\* What becomes of the copy of the controller and of that of the call.
LEMMA CopyMoves ==
    ASSUME Constants, Types, Copies, [Next]_vars
    PROVE  /\ \/ copy' = None
              \/ copy # None /\ SameCopy(copy', copy) /\ (copy' = copy \/ RemoveStaging)
              \/ startVMCopy /\ copy = None
           /\ \/ call'.copy = None
              \/ call.copy # None /\ SameCopy(call'.copy, call.copy)
              \/ Begin /\ call'.copy = copy /\ copy # None /\ copy' = copy
           /\ call'.copy # None <=> pc'["copy"] # "idle"
<1>1. call \in [copy : CopyType \cup {None}, from : 0 .. Len(image)] /\ copy \in CopyType \cup {None}
    BY DEF Types
<1>2. call'.copy # None <=> pc'["copy"] # "idle"  BY CallPlace
<1> USE <1>2
<1>3. CASE RemoveStaging
  <2> USE <1>3
  <2>1. pc["copy"] = "unstage" /\ call.copy \in CopyType  BY <1>1 DEF RemoveStaging, Copies
  <2>2. SameCopy([call.copy EXCEPT !.staged = FALSE], call.copy)  BY <2>1 DEF CopyType, SameCopy
  <2>3. call' = [call EXCEPT !.copy.staged = FALSE] => call'.copy = [call.copy EXCEPT !.staged = FALSE]
      BY <1>1
  <2>4. SameCopy(copy, copy) /\ SameCopy(call.copy, call.copy)  BY DEF SameCopy
  <2>5. \/ copy = call.copy /\ copy' = [copy EXCEPT !.staged = FALSE] /\ call' = [call EXCEPT !.copy.staged = FALSE]
        \/ call' = NoCall /\ copy' = copy
      BY DEF RemoveStaging
  <2>6. None \notin CopyType  BY DEF Constants
  <2>7. CASE call' = NoCall /\ copy' = copy  BY <2>4, <2>7, Zenon DEF NoCall
  <2>8. CASE /\ copy = call.copy /\ copy' = [copy EXCEPT !.staged = FALSE]
             /\ call'.copy = [call.copy EXCEPT !.staged = FALSE]
      BY <2>1, <2>2, <2>6, <2>8, Zenon
  <2> QED  BY <2>3, <2>5, <2>7, <2>8, SMTT(20)
<1>4. CASE ~ RemoveStaging
  <2>1. copy' = None \/ copy' = copy \/ (startVMCopy /\ copy = None)

          BY <1>4, Frame, Zenon DEF startVMCopy, JobFails, Failed, commitRefused, WrongBase, advanceVMCopy, Applied, policy
  <2>2. call' = NoCall \/ call' = call \/ (Begin /\ call'.copy = copy /\ copy # None /\ copy' = copy)
    <3>1. SiteLost => call' = NoCall \/ call' = call  BY Zenon DEF SiteLost
    <3>2. Begin => call'.copy = copy /\ copy # None /\ copy' = copy  BY DEF Begin, policy
    <3>3. commitRefused => call' = NoCall \/ call' = call  BY DEF commitRefused
    <3>4. \A p \in Procs : Stop(p) => call' = NoCall \/ call' = call  BY Zenon DEF Stop
    <3> QED  BY <1>4, <3>1, <3>2, <3>3, <3>4, Frame, Zenon DEF advanceVMCopy
  <2> QED  BY <2>1, <2>2 DEF SameCopy, NoCall
<1> QED  BY <1>3, <1>4

\* The copy being sent and the call about it stay of moments that were taken,
\* and a call that was given up stays the older one.
LEMMA CopiesStep ==
    ASSUME Constants, IInv, [Next]_vars, Types'
    PROVE  Copies'
<1>1. Types /\ Copies  BY DEF IInv
<1> USE <1>1
<1>2. Len(image) \in Nat /\ Len(image') \in Nat /\ Len(image) <= Len(image')
    BY Kept, Zenon
<1> USE <1>2
<1>3. /\ copy \in CopyType \cup {None} /\ copy' \in CopyType \cup {None}
      /\ call.copy \in CopyType \cup {None} /\ call'.copy \in CopyType \cup {None}
    BY Zenon DEF Types
<1>4. /\ copy # None =>
            copy.to \in Nat /\ copy.to <= Len(image) /\ copy.base < copy.to /\ (~ copy.full => copy.base # 0)
      /\ call.copy # None =>
            /\ call.copy.to \in Nat /\ call.copy.to <= Len(image)
            /\ call.copy.base < call.copy.to /\ (~ call.copy.full => call.copy.base # 0)
    BY <1>3 DEF Copies, CopyFits, CopyType, Moments, Constants
<1> USE <1>4
<1>5. startVMCopy => copy'.to = Len(image) + 1 /\ call' = call /\ CopyFits(copy)'
  <2>1. ASSUME startVMCopy PROVE copy'.to = Len(image) + 1 /\ call' = call /\ CopyFits(copy)'
    <3>1. PICK img \in Images, keeps \in BOOLEAN :
            /\ image' = Append(image, img)
            /\ copy' = [to |-> Len(image) + 1, base |-> list, staged |-> TRUE,
                        full |-> list = 0 \/ sent = 0 \/ ~keeps]
        BY <2>1, Zenon DEF startVMCopy
    <3>2. Len(image') = Len(image) + 1  BY <3>1, SMTT(20) DEF Types
    <3>3. list \in 0 .. Len(image) /\ call' = call  BY <2>1 DEF Types, startVMCopy, procs
    <3>4. copy'.to = Len(image) + 1 /\ copy'.base = list /\ (~ copy'.full => list # 0)
        BY <3>1, Zenon
    <3>5. copy'.to <= Len(image') /\ copy'.base < copy'.to  BY <3>2, <3>3, <3>4, SMTT(20)
    <3> QED  BY <3>3, <3>4, <3>5 DEF CopyFits
  <2> QED  BY <2>1
<1>6. copy' # None => CopyFits(copy)'
    BY <1>5, CopyMoves, SMTT(20) DEF CopyFits, SameCopy
<1>7. call'.copy # None => CopyFits(call.copy)'
    BY CopyMoves DEF CopyFits, SameCopy
<1>8. call'.copy # None <=> pc'["copy"] # "idle"  BY CallPlace, Zenon
<1>9. copy' # None /\ call'.copy # None => call'.copy.to <= copy'.to
    BY <1>5, CopyMoves DEF Copies, SameCopy
<1>10. ASSUME NEW i \in DOMAIN image', NEW j \in DOMAIN image', i <= j
       PROVE  Len(image'[i]) <= Len(image'[j])
  <2> USE <1>10
  <2>1. CASE UNCHANGED image  BY <2>1, Zenon DEF Copies
  <2>2. CASE startVMCopy
    <3>1. PICK img \in Images : /\ image' = Append(image, img)
                                /\ image # <<>> => Len(img) >= Len(image[Len(image)])
        BY <2>2, Zenon DEF startVMCopy
    <3> USE <3>1
    <3>2. /\ Len(image') = Len(image) + 1 /\ image'[Len(image) + 1] = img /\ DOMAIN image = 1 .. Len(image)
          /\ \A x \in 1 .. Len(image) : image'[x] = image[x] /\ image[x] \in Images
          /\ DOMAIN image' = 1 .. Len(image) + 1
      <4>1. image \in Seq(Images) /\ img \in Images  BY Zenon DEF Types
      <4> QED  BY <4>1
    <3> USE <3>2
    <3>3. Len(img) \in Nat /\ \A x \in 1 .. Len(image) : Len(image[x]) \in Nat  BY ImageFacts, Zenon
    <3>4. CASE j <= Len(image)  BY <3>4 DEF Copies
    <3>5. CASE j = Len(image) + 1 /\ i <= Len(image)
      <4> USE <3>5
      <4>1. image # <<>> /\ Len(image) \in 1 .. Len(image) /\ i \in 1 .. Len(image)  OBVIOUS
      <4>2. Len(image[i]) <= Len(image[Len(image)])  BY <4>1, Zenon DEF Copies
      <4> QED  BY <3>3, <4>1, <4>2, SMTT(20)
    <3>6. CASE j = Len(image) + 1 /\ i = Len(image) + 1  BY <3>3, <3>6
    <3> QED  BY <3>4, <3>5, <3>6, SMTT(20)
  <2> QED  BY <2>1, <2>2, Frame, Zenon
<1> QED  BY <1>6, <1>7, <1>8, <1>9, <1>10, Zenon DEF Copies

=============================================================================
