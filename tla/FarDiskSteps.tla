---------------------------- MODULE FarDiskSteps ----------------------------
(***************************************************************************)
(* What a step of FarDisk does to the moment that the disk shows, and to a *)
(* disk that ApplyCopy writes or recover rolls back: the parts of the      *)
(* invariant that a step can disturb, one lemma each.                      *)
(***************************************************************************)
EXTENDS FarDiskTypes

\* Who works on the disk is alone: the files of the disk change only in its own
\* steps.
LEMMA Untouched ==
    ASSUME Constants, IInv, [Next]_vars, NEW p \in Procs, pc'[p] = pc[p],
           pc[p] \in IF p = "copy" THEN Busy ELSE Works
    PROVE  /\ UNCHANGED <<undo, moment>>
           /\ UNCHANGED open
           /\ \/ UNCHANGED disk /\ todo'[p] = todo[p]
              \/ RollBack(p)
              \/ WriteBlocks /\ p = "copy"
           /\ p = "copy" => call' = call
<1>1. /\ pc \in [Procs -> Places] /\ todo \in [Procs -> SUBSET Blocks]
      /\ pc["failover"] \in Works => pc["copy"] \notin Busy
    BY Zenon DEF IInv, Types, Alone
<1> USE <1>1
<1>2. p \in {"copy", "failover"} /\ p = "failover" => pc["copy"] \notin Busy  BY DEF Procs
<1> USE <1>2
<1>3. p = "copy" => pc["failover"] \notin Works  BY Zenon
<1>4. UNCHANGED <<undo, moment>>
  <2>1. RestorePoint \/ pruneUndo \/ writeMomentFile => p = "failover" /\ pc["copy"] \in Busy
      BY Moves, Zenon DEF Busy, Procs
  <2> QED  BY <2>1, Frame, Zenon
<1>5. UNCHANGED open
  <2>1. OpenUndo \/ SaveUndo \/ RestorePoint => p = "failover" /\ pc["copy"] \in Busy
      BY Moves, Zenon DEF Busy, Recovers, Procs
  <2>2. ASSUME NEW q \in Procs, Look(q) \/ RemoveReady(q)
        PROVE  q # p /\ pc[q] \in Recovers
      BY <2>2, Moves, Zenon DEF Recovers, Procs
  <2>3. Recovers \subseteq Busy /\ Recovers \subseteq Works  BY Zenon DEF Busy, Works
  <2> QED  BY <1>3, <2>1, <2>2, <2>3, Frame, Zenon DEF Procs
<1>6. \/ UNCHANGED disk
      \/ RollBack(p)
      \/ WriteBlocks /\ p = "copy"
  <2>1. writeNewDiskFrom \/ Grow => p = "failover" /\ pc["copy"] \in Busy
      BY Moves, Zenon DEF Busy, Recovers, Procs
  <2>2. WriteBlocks => pc["copy"] \in Busy  BY Moves, Zenon DEF Busy
  <2>3. ASSUME NEW q \in Procs, RollBack(q) PROVE  q = p
    <3>1. pc[q] \in Busy /\ pc[q] \in Works  BY <2>3, Moves, Zenon DEF Recovers, Busy, Works
    <3> QED  BY <1>3, <3>1 DEF Procs
  <2> QED  BY <2>1, <2>2, <2>3, Frame, Zenon DEF Procs
<1>7. \/ todo'[p] = todo[p]
      \/ RollBack(p)
      \/ WriteBlocks /\ p = "copy"
  <2>1. SiteLost => todo' = todo \/ (todo'["failover"] = todo["failover"] /\ p = "failover")
    <3>1. SiteLost => todo' = todo \/ (mode = "direct" /\ todo' = [todo EXCEPT !["copy"] = {}])
        BY Zenon DEF SiteLost
    <3>2. SiteLost /\ mode = "direct" => pc'["copy"] = "idle"  BY Moves, Zenon
    <3>3. "idle" \notin Busy  BY DEF Busy, Recovers
    <3> QED  BY <3>1, <3>2, <3>3, Zenon DEF Procs
  <2>2. ASSUME SaveUndo \/ (WriteBlocks /\ p # "copy") PROVE todo'[p] = todo[p]
    <3>1. p = "failover"  BY <2>2, Moves, Zenon DEF Procs
    <3> QED  BY <2>2, <3>1, Zenon DEF SaveUndo, WriteBlocks, Procs
  <2>3. ASSUME NEW q \in Procs, Look(q) \/ Stop(q) \/ (RollBack(q) /\ q # p) PROVE todo'[p] = todo[p]
    <3>1. q # p  BY <2>3, Moves DEF Busy, Recovers, Works
    <3> QED  BY <2>3, <3>1, ZenonT(40) DEF Look, Stop, RollBack
  <2> QED  BY <2>1, <2>2, <2>3, Frame, Zenon DEF Procs
<1>8. p = "copy" => call' = call
  <2>1. ASSUME p = "copy" PROVE ~ Begin /\ ~ commitRefused /\ ~ RemoveStaging /\ ~ advanceVMCopy
      BY <2>1, Moves, Zenon DEF Busy, Recovers
  <2>2. ASSUME SiteLost, p = "copy" PROVE call' = call
    <3>1. mode # "direct"  BY <2>2, Moves DEF Busy, Recovers
    <3> QED  BY <2>2, <3>1, ZenonT(40) DEF SiteLost
  <2>3. ASSUME NEW q \in Procs, Stop(q), p = "copy" PROVE call' = call
    <3>1. q # "copy"  BY <2>3, Moves, ZenonT(40) DEF Busy, Recovers
    <3> QED  BY <2>3, <3>1, Zenon DEF Stop
  <2> QED  BY <2>1, <2>2, <2>3, Frame, Zenon
<1>9. RollBack(p) \/ (WriteBlocks /\ p = "copy") \/ (UNCHANGED disk /\ todo'[p] = todo[p])
    BY <1>6, <1>7
<1> QED  BY <1>4, <1>5, <1>8, <1>9, Zenon

\* Pruning keeps the newest restore point.
LEMMA MomentStep ==
    ASSUME Constants, Types, Copies, [Next]_vars
    PROVE  \/ Moment' = Moment
           \/ RestorePoint /\ undo' # <<>> /\ Moment' = open.to
           \/ writeMomentFile /\ Moment' = call.copy.to
<1>1. undo \in Seq(UndoType) /\ Len(undo) \in Nat  BY DEF Types
<1> USE <1>1
<1>2. CASE RestorePoint
  <2>1. undo' = Append(undo, open)  BY <1>2 DEF RestorePoint
  <2>2. undo' # <<>> /\ Len(undo') = Len(undo) + 1 /\ undo'[Len(undo')] = open  BY <2>1
  <2> QED  BY <1>2, <2>2 DEF Moment
<1>3. CASE pruneUndo
  <2>1. PICK n \in 0 .. Len(undo) - 1 : undo' = SubSeq(undo, n + 1, Len(undo))
      BY <1>3 DEF pruneUndo
  <2>2. Len(undo') = Len(undo) - n /\ undo'[Len(undo')] = undo[Len(undo)]  BY <2>1
  <2>3. undo # <<>> /\ undo' # <<>>
    <3>1. Len(undo) # 0 /\ Len(undo') # 0  BY <2>2
    <3>2. Len(<<>>) = 0  BY Zenon
    <3> QED  BY <3>1, <3>2, Zenon
  <2> QED  BY <2>2, <2>3 DEF Moment
<1>4. CASE ~ RestorePoint /\ ~ pruneUndo
  <2>1. undo' = undo  BY <1>4, Frame, Zenon
  <2>2. writeMomentFile => moment' = moment \/ moment' = call.copy.to  BY Zenon DEF writeMomentFile
  <2> QED  BY <2>1, <2>2, Frame, Zenon DEF Moment
<1> QED  BY <1>2, <1>3, <1>4, Zenon

\* What the controller knows keeps in time with the disk.
LEMMA InTimeStep ==
    ASSUME Constants, IInv, [Next]_vars, ~ RestorePoint, disk # None,
           NEW m \in DOMAIN image, InTime(m)
    PROVE  InTime(m)'
<1>1. Types /\ Copies  BY Zenon DEF IInv
<1> USE <1>1
<1>2. /\ m \in Nat \ {0} /\ m <= Len(image) /\ Len(image) \in Nat /\ pc \in [Procs -> Places]
      /\ list \in Nat /\ copy \in CopyType \cup {None} /\ call.copy \in CopyType \cup {None}
    BY SMTT(20) DEF Types
<1> USE <1>2
<1>3. /\ copy # None => copy.to \in Nat \ {0} /\ copy.base \in Nat
      /\ call.copy # None => call.copy.to \in Nat \ {0} /\ call.copy.base \in Nat
    BY DEF CopyType, Moments, Constants
<1> USE <1>3
<1>4. pc["copy"] # "idle" => call.copy # None  BY Zenon DEF Copies
<1>5. Moment' \in {0, m}
  <2>1. writeMomentFile => call.copy.to = m  BY Moves, Zenon DEF InTime
  <2> QED  BY <2>1, MomentStep, Zenon DEF InTime
<1>6. list' <= m
  <2>1. advanceVMCopy => list' \in {list, 0} \/ (copy = call.copy /\ list' = copy.to /\ call.copy.to = m)
      BY Moves, Zenon DEF advanceVMCopy, Applied, policy, InTime
  <2>2. JobFails \/ commitRefused => list' \in {list, 0}
      BY Zenon DEF JobFails, Failed, commitRefused, WrongBase, policy
  <2>3. list' \in {list, 0, m}  BY <2>1, <2>2, Frame, Zenon
  <2> QED  BY <2>3 DEF InTime
<1>7. copy' # None => copy'.base <= m /\ m <= copy'.to /\ (~ copy'.staged => m = copy'.to)
  <2>1. startVMCopy => copy'.base = list /\ copy'.to = Len(image) + 1 /\ copy'.staged
      BY DEF startVMCopy
  <2>2. RemoveStaging => call.copy.to = m  BY Moves, Zenon DEF InTime
  <2>3. RemoveStaging => copy' = copy \/ copy = call.copy  BY Zenon DEF RemoveStaging
  <2>4. CASE startVMCopy  BY <2>1, <2>4 DEF InTime
  <2>5. CASE copy # None /\ SameCopy(copy', copy) /\ (copy' = copy \/ RemoveStaging)
      BY <2>2, <2>3, <2>5, Zenon DEF InTime, SameCopy
  <2> QED  BY <2>4, <2>5, CopyMoves, Zenon
<1>8. call'.copy # None => call'.copy.base <= m /\ m <= call'.copy.to
    BY CopyMoves, Zenon DEF InTime, SameCopy
<1>9. pc'["copy"] \in {"prune", "record", "unstage", "report"} => m = call'.copy.to
  <2> DEFINE L == {"prune", "record", "unstage", "report"}
  <2>1. ASSUME Begin, pc'["copy"] \in L PROVE m = call'.copy.to
    <3>1. call'.copy = copy /\ copy # None  BY <2>1, Zenon DEF Begin
    <3>2. \/ ~ copy.staged
          \/ Moment = copy.to
        BY <2>1, Zenon DEF Begin, Goto, Procs
    <3> QED  BY <3>1, <3>2, Zenon DEF InTime
  <2>2. ASSUME ~ Begin, pc'["copy"] \in L PROVE m = call.copy.to
    <3>1. commitRefused => Moment = call.copy.to
        BY <2>2, Zenon DEF commitRefused, Goto, Procs
    <3>2. commitRefused => pc["copy"] # "idle"  BY Moves, ZenonT(40)
    <3>3. ~ writeNewDiskFrom  BY DEF writeNewDiskFrom
    <3>4. pc["copy"] \in L \/ commitRefused  BY <2>2, <3>3, Enters, Moves, Zenon
    <3> QED  BY <1>4, <3>1, <3>2, <3>4, Zenon DEF InTime
  <2>3. ASSUME ~ Begin, pc'["copy"] \in L PROVE call'.copy.to = call.copy.to
    <3>1. call'.copy # None  BY <2>3, CallPlace, Zenon
    <3> QED  BY <2>3, <3>1, CopyMoves, Zenon DEF SameCopy
  <2> QED  BY <2>1, <2>2, <2>3, Zenon
<1> QED  BY <1>5, <1>6, <1>7, <1>8, <1>9, Zenon DEF InTime

\* A block that the undo file saves may change on the disk, and so may what is
\* past the end of the disk as it was.
LEMMA JournalKept ==
    ASSUME Constants, Types, disk \in Images, disk' \in Images, NEW m \in DOMAIN image, Journal(m),
           open' = open, image'[m] = image[m],
           \A b \in 1 .. open.size : b \notin DOMAIN open.saved => BlockOf(disk', b) = BlockOf(disk, b)
    PROVE  Journal(m)'
BY Zenon DEF Journal

\* What ApplyCopy has to do with.
LEMMA WriteFacts ==
    ASSUME Constants, IInv, NEW c, c = call.copy, pc["copy"] \in {"save", "grow", "write", "applied"}
    PROVE  /\ image[c.to] \in Images /\ DOMAIN image[c.to] = 1 .. Len(image[c.to]) /\ DOMAIN image[c.to] \subseteq Blocks
           /\ Len(image[c.to]) \in Blocks /\ Len(image[c.to]) \in Int /\ \A b \in DOMAIN image[c.to] : image[c.to][b] \in Values
           /\ disk \in Images /\ DOMAIN disk = 1 .. Len(disk) /\ Len(disk) \in Blocks /\ Len(disk) \in Int
           /\ open \in UndoType /\ open # None /\ open.from \in Nat
<1>1. image[c.to] \in Images /\ DOMAIN image[c.to] \subseteq Blocks /\ disk \in Images
    BY CallFacts, DiskThere, Zenon DEF IInv
<1>2. open \in UndoType /\ open # None  BY SMTT(20) DEF IInv, Types, Writing
<1>3. open.from \in Nat  BY <1>2, UndoFacts, SMTT(20) DEF Constants
<1> QED  BY <1>1, <1>2, <1>3, ImageFacts, SMTT(20)

\* Only the blocks that the copy call has not saved stay on the disk.
LEMMA WritesSafe ==
    ASSUME Constants, IInv, NEW m \in DOMAIN image, ShowsMoment(m), disk # None,
           pc["copy"] \in {"grow", "write"}, Grow \/ WriteBlocks
    PROVE  \A b \in 1 .. open.size : b \notin DOMAIN open.saved => BlockOf(disk', b) = BlockOf(disk, b)
<1> DEFINE t == image[call.copy.to]
<1>1. Types /\ Copies /\ Writing(call.copy) /\ pc["copy"] # "idle"  BY Zenon DEF IInv
<1>2. /\ t \in Images /\ DOMAIN t = 1 .. Len(t) /\ DOMAIN t \subseteq Blocks /\ \A b \in DOMAIN t : t[b] \in Values
      /\ disk \in Images /\ Len(disk) \in Blocks /\ Len(disk) \in Int /\ Len(t) \in Blocks /\ Len(t) \in Int
      /\ open \in UndoType /\ open # None
    BY WriteFacts, Zenon
<1>3. open.ready  BY <1>1, Zenon DEF Writing
<1>4. open.size \in Nat /\ 1 .. open.size \subseteq Blocks
  <2>1. open.size \in Nat /\ open.size \in Blocks  BY <1>2, UndoFacts, Zenon
  <2> QED  BY <2>1 DEF Blocks, Constants
<1>5. open.size <= Len(t)
  <2>1. open.size = Len(image[m])  BY <1>2, <1>3, Zenon DEF ShowsMoment, Ready, Journal
  <2>2. m <= call.copy.to  BY <1>1, Zenon DEF ShowsMoment, InTime, Copies
  <2>3. call.copy.to \in DOMAIN image  BY <1>1, CallFacts, Zenon
  <2> QED  BY <1>1, <2>1, <2>2, <2>3, Zenon DEF Copies
<1> HIDE DEF t
<1>6. CASE Grow
  <2> DEFINE n == Max({Len(disk), Len(t)})
  <2>1. n \in {Len(disk), Len(t)} /\ n >= Len(t)  BY <1>2, MaxTwo, Zenon
  <2>2. disk' = Truncate(disk, n)  BY <1>6, Zenon DEF Grow, t
  <2>3. n \in Blocks /\ n \in Int /\ disk \in Images  BY <1>2, <2>1, Zenon
  <2> HIDE DEF n
  <2>4. \A b : BlockOf(disk', b) = IF b \in 1 .. n THEN BlockOf(disk, b) ELSE 0
      BY <2>2, <2>3, TruncateFacts, Zenon
  <2>5. 1 .. open.size \subseteq 1 .. n
    <3>1. Len(t) \in Int  BY <1>2, Zenon
    <3> QED  BY <1>4, <1>5, <2>1, <2>3, <3>1, SMTT(20)
  <2> QED  BY <2>4, <2>5, Zenon
<1>7. CASE WriteBlocks
  <2>1. CASE disk' = Truncate(disk, Len(t))
    <3>1. \A b : BlockOf(disk', b) = IF b \in 1 .. Len(t) THEN BlockOf(disk, b) ELSE 0
        BY <1>2, <2>1, TruncateFacts, Zenon
    <3>2. Len(t) \in Int  BY <1>2, Zenon
    <3>3. 1 .. open.size \subseteq 1 .. Len(t)  BY <1>4, <1>5, <3>2
    <3> QED  BY <3>1, <3>3, Zenon
  <2>2. ASSUME NEW x \in todo["copy"], disk' = WriteAt(disk, x, t[x])
        PROVE  \A b \in 1 .. open.size : b \notin DOMAIN open.saved => BlockOf(disk', b) = BlockOf(disk, b)
    <3>1. x \in DOMAIN t /\ (x <= open.size => x \in DOMAIN open.saved)
        BY <1>1, <2>2, Zenon DEF Writing, t
    <3>2. x \in Blocks /\ t[x] \in Values /\ disk \in Images  BY <1>2, <3>1, Zenon
    <3>3. \A b \in Blocks : BlockOf(disk', b) = IF b = x THEN t[x] ELSE BlockOf(disk, b)
        BY <2>2, <3>2, WriteAtFacts, SMTT(20)
    <3>4. \A b \in 1 .. open.size : b <= open.size /\ b \in Blocks  BY <1>4
    <3> QED  BY <3>1, <3>3, <3>4, Zenon
  <2> QED  BY <1>7, <2>1, <2>2, Zenon DEF WriteBlocks, t
<1> QED  BY <1>6, <1>7, SMTT(20)

\* recover writes saved blocks only, and cuts the disk to its old size.
LEMMA RollsSafe ==
    ASSUME Constants, IInv, disk # None, NEW p \in Procs, RollBack(p)
    PROVE  /\ \A b \in 1 .. open.size : b \notin DOMAIN open.saved => BlockOf(disk', b) = BlockOf(disk, b)
           /\ \A b \in DOMAIN open.saved \ todo[p] : BlockOf(disk, b) = open.saved[b] => BlockOf(disk', b) = open.saved[b]
           /\ \A b \in todo[p] : b \notin todo'[p] => BlockOf(disk', b) = open.saved[b]
           /\ todo'[p] \subseteq todo[p]
<1>1. /\ disk \in Images /\ open \in UndoType /\ todo[p] \subseteq DOMAIN open.saved /\ pc[p] = "roll"
      /\ todo \in [Procs -> SUBSET Blocks]
  <2>1. pc[p] = "roll"  BY ZenonT(40) DEF RollBack
  <2> QED  BY <2>1, RollFacts DEF IInv, Types
<1> USE <1>1
<1>2. /\ open.size \in Blocks /\ open.size \in Nat /\ DOMAIN open.saved \subseteq Blocks
      /\ \A b \in DOMAIN open.saved : open.saved[b] \in Values /\ b \in 1 .. open.size
      /\ 1 .. open.size \subseteq Blocks
    BY UndoFacts DEF Blocks, Constants
<1> USE <1>2
<1>3. CASE disk' = Truncate(disk, open.size) /\ todo[p] = {} /\ todo' = todo
  <2>1. \A b : BlockOf(disk', b) = IF b \in 1 .. open.size THEN BlockOf(disk, b) ELSE 0
      BY <1>3, TruncateFacts, Zenon
  <2> QED  BY <1>3, <2>1, Zenon
<1>4. ASSUME NEW x \in todo[p], disk' = WriteAt(disk, x, open.saved[x]), todo' = [todo EXCEPT ![p] = @ \ {x}]
      PROVE  /\ \A b \in 1 .. open.size : b \notin DOMAIN open.saved => BlockOf(disk', b) = BlockOf(disk, b)
             /\ \A b \in DOMAIN open.saved \ todo[p] : BlockOf(disk, b) = open.saved[b] => BlockOf(disk', b) = open.saved[b]
             /\ \A b \in todo[p] : b \notin todo'[p] => BlockOf(disk', b) = open.saved[b]
             /\ todo'[p] \subseteq todo[p]
  <2>1. \A b \in Blocks : BlockOf(disk', b) = IF b = x THEN open.saved[x] ELSE BlockOf(disk, b)
      BY <1>4, WriteAtFacts
  <2>2. todo'[p] = todo[p] \ {x}  BY <1>4, ZenonT(40)
  <2> QED  BY <2>1, <2>2, Zenon
<1> QED  BY <1>3, <1>4, Zenon DEF RollBack

\* The disk stays that of one moment, on it or in its undo file, until the next
\* restore point.
LEMMA ContentStep ==
    ASSUME Constants, IInv, [Next]_vars, Types', ~ RestorePoint, disk # None, disk' # None,
           NEW m \in DOMAIN image, ShowsMoment(m)
    PROVE  IF Ready' THEN Journal(m)' ELSE disk' = image'[m]
<1>1. Types /\ Copies /\ Writing(call.copy) /\ Alone  BY Zenon DEF IInv
<1> USE <1>1
<1>2. image'[m] = image[m]  BY Kept
<1> USE <1>2
<1>3. disk \in Images /\ disk' \in Images /\ pc \in [Procs -> Places]  BY Zenon DEF Types
<1> USE <1>3
<1>4. CASE UNCHANGED <<disk, open>>  BY <1>4, Zenon DEF ShowsMoment, Ready, Journal
<1>5. CASE Grow \/ WriteBlocks
  <2> USE <1>5
  <2>1. pc["copy"] \in {"grow", "write"}  BY Moves, Zenon
  <2>2. open' = open /\ Ready  BY <2>1, Zenon DEF Grow, WriteBlocks, Writing, Ready
  <2>3. \A b \in 1 .. open.size : b \notin DOMAIN open.saved => BlockOf(disk', b) = BlockOf(disk, b)
      BY <2>1, WritesSafe, Zenon
  <2>4. Journal(m)'  BY <2>2, <2>3, JournalKept, Zenon DEF ShowsMoment
  <2> QED  BY <2>2, <2>4, Zenon DEF Ready
<1>6. ASSUME NEW p \in Procs, RollBack(p) PROVE IF Ready' THEN Journal(m)' ELSE disk' = image'[m]
  <2> USE <1>6
  <2>1. pc[p] = "roll"  BY Zenon DEF RollBack
  <2>2. open' = open /\ Ready  BY <2>1, RollFacts DEF RollBack, Ready
  <2>3. \A b \in 1 .. open.size : b \notin DOMAIN open.saved => BlockOf(disk', b) = BlockOf(disk, b)
      BY RollsSafe, Zenon
  <2>4. Journal(m)'  BY <2>2, <2>3, JournalKept, Zenon DEF ShowsMoment
  <2> QED  BY <2>2, <2>4, Zenon DEF Ready
<1>7. CASE OpenUndo
  <2>1. open = None  BY <1>7 DEF OpenUndo, ShowsMoment, Rolling, Procs
  <2>2. disk' = disk /\ open'.ready = FALSE  BY <1>7, Zenon DEF OpenUndo, writeUndo
  <2> QED  BY <2>1, <2>2, ZenonT(40) DEF ShowsMoment, Ready
<1>8. CASE SaveUndo
  <2>1. /\ open # None /\ open \in UndoType /\ ~ open.ready /\ open.size = Len(disk)
        /\ open.saved = [b \in Changed(call.copy) \cap DOMAIN disk |-> disk[b]]
      BY <1>8, ZenonT(40) DEF SaveUndo, Writing, Types
  <2> USE <2>1
  <2>2. disk = image[m]  BY DEF ShowsMoment, Ready
  <2>3. disk' = disk /\ open' = [open EXCEPT !.ready = TRUE]  BY <1>8 DEF SaveUndo
  <2> USE <2>3
  <2>4. open'.ready /\ open'.size = open.size /\ open'.saved = open.saved /\ open' # None
    <3>1. open' \in UndoType  BY Zenon DEF UndoType
    <3> QED  BY <3>1, Zenon DEF UndoType, Constants
  <2> USE <2>4
  <2>5. DOMAIN disk = 1 .. Len(disk)  BY ImageFacts
  <2>6. Journal(m)'
    <3>1. open'.size = Len(image'[m])  BY <2>2
    <3>2. \A b \in DOMAIN open'.saved : open'.saved[b] = disk[b]  OBVIOUS
    <3>3. \A b \in 1 .. open'.size : BlockOf(disk', b) = disk[b]  BY <2>5 DEF BlockOf
    <3> QED  BY <2>2, <3>1, <3>2, <3>3, SMTT(20) DEF Journal
  <2> QED  BY <2>6 DEF Ready
<1>9. ASSUME NEW p \in Procs, Look(p) \/ RemoveReady(p) PROVE IF Ready' THEN Journal(m)' ELSE disk' = image'[m]
  <2>1. disk' = disk  BY <1>9, Zenon DEF Look, RemoveReady
  <2>2. open' = open \/ (open' = None /\ (~ Ready \/ pc[p] = "unlink"))
      BY <1>9, Zenon DEF Look, RemoveReady, Ready
  <2>3. pc[p] = "unlink" => disk = image[m]  BY Zenon DEF ShowsMoment, Rolling
  <2> QED  BY <1>4, <2>1, <2>2, <2>3, Zenon DEF ShowsMoment, Ready
<1>10. ~ writeNewDiskFrom  BY Zenon DEF writeNewDiskFrom
<1> QED  BY <1>4, <1>5, <1>6, <1>7, <1>8, <1>9, <1>10, Frame, ZenonT(40)

\* recover ends with the disk of that moment.
LEMMA RollingStep ==
    ASSUME Constants, IInv, [Next]_vars, Types', Alone', ~ RestorePoint, disk # None, disk' # None,
           NEW m \in DOMAIN image, ShowsMoment(m), NEW p \in Procs
    PROVE  Rolling(p, m)'
<1>1. Types /\ Copies /\ Alone  BY DEF IInv
<1>2. image'[m] = image[m] /\ image[m] \in Images
  <2>1. image \in Seq(Images)  BY <1>1, Zenon DEF Types
  <2>2. image[m] \in Images  BY <2>1
  <2> QED  BY <1>1, <2>2, Kept, Zenon
<1> USE <1>1, <1>2
<1>3. disk \in Images /\ disk' \in Images /\ pc \in [Procs -> Places]  BY Zenon DEF Types
<1> USE <1>3
<1>4. {"roll", "unlink", "reseal", "go"} \subseteq Busy /\ {"roll", "unlink", "reseal", "go", "rewind"} \subseteq Works
      /\ "rewind" \notin Busy
    BY DEF Busy, Works, Recovers
<1> USE <1>4
<1>5. p = "copy" \/ p = "failover"  BY DEF Procs
<1> USE <1>5
<1>6. Rolling(p, m)  BY Zenon DEF ShowsMoment
<1> USE <1>6
<1>7. ASSUME pc'[p] = "roll"
      PROVE  /\ Ready' /\ todo'[p] \subseteq DOMAIN open'.saved
             /\ \A b \in DOMAIN open'.saved \ todo'[p] : BlockOf(disk', b) = open'.saved[b]
  <2> USE <1>7
  <2>1. CASE Look(p)  BY <2>1, ZenonT(40) DEF Look, Goto, Ready, Types
  <2>2. CASE pc[p] = "roll"
    <3> USE <2>2
    <3>1. /\ Ready /\ todo[p] \subseteq DOMAIN open.saved
          /\ \A b \in DOMAIN open.saved \ todo[p] : BlockOf(disk, b) = open.saved[b]
        BY Zenon DEF Rolling
    <3> USE <3>1
    <3>2. open' = open /\ ((UNCHANGED disk /\ todo'[p] = todo[p]) \/ RollBack(p) \/ (WriteBlocks /\ p = "copy"))
        BY Untouched, Zenon
    <3>3. ~ (WriteBlocks /\ p = "copy")  BY Moves, Zenon
    <3>4. CASE RollBack(p)
      <4>1. todo'[p] \subseteq todo[p]  BY <3>4, RollsSafe, Zenon
      <4>2. \A b \in DOMAIN open.saved \ todo'[p] : BlockOf(disk', b) = open.saved[b]
          BY <3>4, RollsSafe, Zenon
      <4> QED  BY <3>2, <4>1, <4>2, SMTT(20) DEF Ready
    <3> QED  BY <3>2, <3>3, <3>4, Zenon DEF Ready
  <2> QED  BY <2>1, <2>2, Enters, Zenon
<1>8. ASSUME pc'[p] = "unlink" PROVE Ready' /\ disk' = image'[m]
  <2> USE <1>8
  <2>1. CASE RollBack(p)
    <3>1. pc[p] = "roll" /\ todo[p] = {} /\ disk' = Truncate(disk, open.size) /\ open' = open
        BY <2>1, Zenon DEF RollBack
    <3> USE <3>1
    <3>2. /\ Ready /\ open \in UndoType
          /\ \A b \in DOMAIN open.saved : BlockOf(disk, b) = open.saved[b]
        BY Zenon DEF Rolling, Types, Ready
    <3> USE <3>2
    <3>3. open.size \in Blocks /\ open.size \in Nat  BY UndoFacts, Zenon
    <3>4. /\ Len(disk') = open.size
          /\ \A b \in 1 .. open.size : BlockOf(disk', b) = BlockOf(disk, b)
        BY <3>3, TruncateFacts, Zenon
    <3>5. Journal(m)  BY Zenon DEF ShowsMoment
    <3>6. Len(image[m]) = open.size /\ DOMAIN image[m] = 1 .. open.size
        BY <3>5, ImageFacts, Zenon DEF Journal
    <3>7. \A b \in 1 .. open.size : BlockOf(disk', b) = BlockOf(image[m], b)
        BY <3>4, <3>5, <3>6, Zenon DEF Journal, BlockOf
    <3>8. disk' = image[m]  BY <3>4, <3>6, <3>7, SameImage, Zenon
    <3> QED  BY <3>8, Zenon DEF Ready
  <2>2. CASE pc[p] = "unlink"
    <3> USE <2>2
    <3>1. open' = open /\ disk' = disk
      <4>1. ~ (WriteBlocks /\ p = "copy") /\ ~ RollBack(p)  BY Moves, Zenon
      <4> QED  BY <4>1, Untouched, Zenon
    <3> QED  BY <3>1, Zenon DEF Rolling, Ready
  <2> QED  BY <2>1, <2>2, Enters, Zenon
<1>9. ASSUME pc'[p] \in {"reseal", "go", "rewind"} PROVE open' = None
  <2> USE <1>9
  <2>1. RemoveReady(p) => open' = None  BY Zenon DEF RemoveReady
  <2>2. Look(p) => open' = None  BY Zenon DEF Look, Goto
  <2>3. CASE pc[p] \in {"reseal", "go", "rewind"}
    <3>1. open = None  BY <2>3, Zenon DEF Rolling
    <3>2. CASE pc'[p] = pc[p]
      <4>1. p = "copy" => pc[p] # "rewind"  BY Zenon DEF Alone, Busy, Recovers
      <4> QED  BY <2>3, <3>1, <3>2, <4>1, Untouched, Zenon
    <3>3. CASE reseal(p) \/ (MaterializeVMs /\ p = "failover")
        BY <3>1, <3>3, Zenon DEF reseal, MaterializeVMs, folder
    <3> QED  BY <2>1, <2>2, <3>2, <3>3, Enters, Zenon DEF Alone, Busy, Recovers
  <2>4. pc[p] \in {"reseal", "go", "rewind"} \/ RemoveReady(p) \/ Look(p)
    <3>1. p = "copy" => pc'[p] # "rewind"  BY Zenon DEF Alone, Busy, Recovers
    <3>2. reseal(p) => pc[p] = "reseal"  BY Moves, Zenon
    <3>3. MaterializeVMs => pc["failover"] = "go"  BY Moves, Zenon
    <3> QED  BY <3>1, <3>2, <3>3, Enters, Zenon
  <2> QED  BY <2>1, <2>2, <2>3, <2>4, Zenon
<1> QED  BY <1>7, <1>8, <1>9, Zenon DEF Rolling


\* The steps at which ApplyCopy goes on with copy c.
GoesOn(c) ==
    /\ c = call.copy /\ c = call'.copy /\ c \in CopyType /\ c.to \in DOMAIN image
    /\ Moment' = Moment /\ mode' = mode
    /\ Len(image) \in Nat /\ Len(image') \in Nat /\ Len(image) <= Len(image')
    /\ image'[c.to] = image[c.to] /\ Held(c)' = Held(c)

\* Between opening the undo file and the restore point, a step leaves the
\* call's copy and the images it is of as they are.
LEMMA CopyGoesOn ==
    ASSUME Constants, IInv, [Next]_vars, pc'["copy"] \in {"save", "grow", "write", "applied"}
    PROVE  /\ pc["copy"] \in {"go", "save", "grow", "write", "applied"}
           /\ \E c \in CopyType : GoesOn(c)
<1>1. Types /\ Copies /\ pc \in [Procs -> Places]  BY SMTT(20) DEF IInv, Types
<1>2. pc["copy"] \in {"go", "save", "grow", "write", "applied"}  BY <1>1, Enters, Moves, Zenon
<1>3. call' = call
  <2>1. \A q \in Procs : Stop(q) => call' = call  BY <1>1, Moves, Zenon DEF Procs, Stop
  <2>2. SiteLost => call' = call  BY <1>1, Moves, Zenon DEF SiteLost
  <2>3. ~ Begin /\ ~ commitRefused /\ ~ RemoveStaging /\ ~ advanceVMCopy  BY <1>1, Moves, Zenon
  <2> QED  BY <2>1, <2>2, <2>3, Frame, SMTT(20)
<1>4. call.copy \in CopyType /\ CopyFits(call.copy) /\ call.copy.to \in DOMAIN image
    BY <1>1, <1>2, CallFacts, Zenon
<1>5. ~ RestorePoint /\ ~ writeMomentFile  BY <1>1, Moves, Zenon
<1>6. Moment' = Moment  BY <1>1, <1>5, MomentStep, Zenon
<1>7. PICK c \in CopyType : c = call.copy  BY <1>4
<1> QED  BY <1>1, <1>2, <1>3, <1>4, <1>6, <1>7, Kept, Frame, ZenonT(40) DEF GoesOn

\* The undo file that ApplyCopy opens saves every block that the copy changes.
LEMMA WritingOpen ==
    ASSUME Constants, IInv, NEW c, GoesOn(c), OpenUndo
    PROVE  Writing(c)'
<1>1. Types /\ Copies /\ pc \in [Procs -> Places]  BY SMTT(20) DEF IInv, Types
<1>2. /\ disk # None /\ disk' = disk /\ image' = image /\ open' = writeUndo(c, From) /\ ~ Refuses
      /\ pc["copy"] = "go" /\ pc'["copy"] = "save"
    BY <1>1, Moves, Zenon DEF OpenUndo, GoesOn, source
<1>3. From \in 0 .. Len(image) /\ From \in 0 .. MaxMoments
  <2>1. PICK m \in DOMAIN image : ShowsMoment(m)  BY <1>2, Zenon DEF IInv
  <2>2. Moment \in {0, m}  BY <2>1, Zenon DEF ShowsMoment, InTime
  <2>3. call.from \in 0 .. Len(image) /\ m \in 0 .. Len(image) /\ Len(image) <= MaxMoments /\ Len(image) \in Nat /\ MaxMoments \in Nat
    <3>1. image \in Seq(Images) /\ Len(image) <= MaxMoments /\ call.from \in 0 .. Len(image)
        BY <1>1, Zenon DEF Types
    <3> QED  BY <2>1, <3>1 DEF Constants
  <2> QED  BY <2>2, <2>3 DEF From
<1>4. open' # None
  <2>1. disk \in Images  BY <1>1, <1>2, Zenon DEF Types
  <2>2. open' \in UndoType  BY <1>1, <1>2, <1>3, <2>1, NewUndo, Zenon DEF GoesOn
  <2> QED  BY <2>2, Zenon DEF Constants
<1>5. /\ open'.to = c.to /\ open'.from = From /\ open'.ready = FALSE /\ open'.size = Len(disk)
      /\ open'.saved = [b \in Changed(c) \cap DOMAIN disk |-> disk[b]]
    BY <1>2, Zenon DEF writeUndo
<1>6. Changed(c)' = Changed(c)  BY <1>2, Zenon DEF Changed, GoesOn
<1>7. mode = "receiver" => From = Moment  BY <1>2, Zenon DEF Refuses, From, GoesOn
<1>8. From <= Len(image')  BY <1>2, <1>3 DEF GoesOn
<1> QED  BY <1>2, <1>4, <1>5, <1>6, <1>7, <1>8, Zenon DEF Writing, GoesOn

\* The copy's blocks that are not to be written are on the disk already.
LEMMA WritingSave ==
    ASSUME Constants, IInv, NEW c, GoesOn(c), SaveUndo
    PROVE  Writing(c)'
<1> DEFINE t == image[c.to]
<1>1. Types /\ Copies /\ Writing(c) /\ c = call.copy  BY Zenon DEF IInv, GoesOn
<1>2. /\ disk' = disk /\ open' = [open EXCEPT !.ready = TRUE] /\ pc["copy"] = "save" /\ pc'["copy"] = "grow"
      /\ todo'["copy"] = Changed(c)
    BY <1>1 DEF SaveUndo, Goto, Procs, Types
<1>3. /\ t \in Images /\ DOMAIN t \subseteq Blocks /\ disk \in Images /\ DOMAIN disk = 1 .. Len(disk) /\ Len(disk) \in Int
      /\ open \in UndoType /\ open # None /\ open.from \in Nat
    BY <1>1, <1>2, WriteFacts, Zenon
<1>4. /\ open.to = c.to /\ open.from <= Len(image) /\ (mode = "receiver" => open.from = Moment) /\ ~ open.ready
      /\ open.size = Len(disk) /\ open.saved = [b \in Changed(c) \cap DOMAIN disk |-> disk[b]]
    BY <1>1, <1>2, Zenon DEF Writing
<1>5. /\ open' # None /\ open'.ready /\ open'.to = open.to /\ open'.from = open.from
      /\ open'.size = open.size /\ open'.saved = open.saved
  <2>1. open' \in UndoType  BY <1>2, <1>3, Zenon DEF UndoType
  <2> QED  BY <1>2, <1>3, <2>1, Zenon DEF UndoType, Constants
<1>6. PICK m \in DOMAIN image : ShowsMoment(m)  BY <1>2, DiskThere
<1>7. disk = image[m] /\ c.base <= m /\ m <= c.to
    BY <1>1, <1>2, <1>4, <1>6, ZenonT(40) DEF ShowsMoment, Ready, InTime, Copies
<1>8. Changed(c) \subseteq DOMAIN t  BY <1>1, <1>2, CallFacts, Zenon DEF Changed
<1>9. \A b \in Changed(c) : b <= open.size => b \in DOMAIN open.saved
  <2>1. \A b \in Changed(c) : b \in Blocks  BY <1>3, <1>8, Zenon
  <2>2. Len(disk) \in Int /\ DOMAIN disk = 1 .. Len(disk)  BY <1>3, Zenon
  <2>3. \A b \in Blocks : b <= Len(disk) => b \in DOMAIN disk  BY <2>2 DEF Blocks, Constants
  <2> QED  BY <1>4, <2>1, <2>3, Zenon
<1>10. ASSUME NEW b \in DOMAIN t, b \notin Changed(c) PROVE BlockOf(disk, b) = t[b]
  <2>1. CASE b \in Held(c)  BY <1>10, <2>1, Zenon DEF Changed
  <2>2. CASE b \notin Held(c)
    <3>1. image \in Seq(Images) /\ CopyFits(c) /\ c \in CopyType
        BY <1>1, <1>2, ZenonT(40) DEF Types, Copies, GoesOn
    <3> QED  BY <1>7, <1>10, <2>2, <3>1, NotHeld, Zenon
  <2> QED  BY <2>1, <2>2
<1>11. open'.from <= Len(image')  BY <1>3, <1>4, <1>5, SMTT(20) DEF GoesOn
<1> QED  BY <1>2, <1>4, <1>5, <1>8, <1>9, <1>10, <1>11, ZenonT(40) DEF Writing, GoesOn

\* Growing the disk for a larger copy adds blocks that need no saving.
LEMMA WritingGrow ==
    ASSUME Constants, IInv, NEW c, GoesOn(c), Grow
    PROVE  Writing(c)'
<1> DEFINE t == image[c.to]
           n == Max({Len(disk), Len(t)})
<1>1. Types /\ Writing(c) /\ c = call.copy  BY Zenon DEF IInv, GoesOn
<1>2. disk' = Truncate(disk, n) /\ open' = open /\ todo' = todo /\ pc["copy"] = "grow" /\ pc'["copy"] = "write"
    BY <1>1, Zenon DEF Grow, Goto, Procs, Types
<1>3. /\ disk \in Images /\ DOMAIN t = 1 .. Len(t) /\ open # None /\ open.from \in Nat
      /\ Len(disk) \in Blocks /\ Len(disk) \in Int /\ Len(t) \in Blocks /\ Len(t) \in Int
    BY <1>1, <1>2, WriteFacts, Zenon
<1>4. n \in {Len(disk), Len(t)} /\ n >= Len(t)  BY <1>3, MaxTwo, Zenon
<1>5. n \in Blocks /\ n \in Int  BY <1>3, <1>4, Zenon
<1> HIDE DEF n, t
<1>6. \A b : BlockOf(disk', b) = IF b \in 1 .. n THEN BlockOf(disk, b) ELSE 0
    BY <1>2, <1>3, <1>5, TruncateFacts, Zenon
<1>7. DOMAIN t \subseteq 1 .. n
  <2>1. DOMAIN t = 1 .. Len(t) /\ Len(t) \in Int  BY <1>3, Zenon
  <2>2. n \in Int /\ n >= Len(t)  BY <1>4, <1>5, Zenon
  <2> QED  BY <2>1, <2>2
<1>8. \A b \in DOMAIN t : BlockOf(disk', b) = BlockOf(disk, b)  BY <1>6, <1>7, Zenon
<1>9. /\ open.to = c.to /\ open.from <= Len(image) /\ (mode = "receiver" => open.from = Moment)
      /\ open.ready /\ todo["copy"] \subseteq DOMAIN t
      /\ \A b \in todo["copy"] : b <= open.size => b \in DOMAIN open.saved
      /\ \A b \in DOMAIN t \ todo["copy"] : BlockOf(disk, b) = t[b]
    BY <1>1, <1>2, Zenon DEF Writing, t
<1>10. open.from <= Len(image')  BY <1>3, <1>9, SMTT(20) DEF GoesOn
<1> QED  BY <1>2, <1>3, <1>8, <1>9, <1>10, ZenonT(40) DEF Writing, GoesOn, t

\* A block that ApplyCopy writes was saved before, and is the copy's block
\* then.
LEMMA WritingBlocks ==
    ASSUME Constants, IInv, NEW c, GoesOn(c), WriteBlocks
    PROVE  Writing(c)'
<1> DEFINE t == image[c.to]
<1>1. Types /\ Writing(c) /\ c = call.copy  BY Zenon DEF IInv, GoesOn
<1>2. open' = open /\ pc["copy"] = "write" /\ todo \in [Procs -> SUBSET Blocks] /\ pc \in [Procs -> Places]
    BY <1>1, Zenon DEF WriteBlocks, Types
<1>3. /\ t \in Images /\ disk \in Images /\ DOMAIN t = 1 .. Len(t) /\ DOMAIN t \subseteq Blocks /\ Len(t) \in Blocks
      /\ \A b \in DOMAIN t : t[b] \in Values
      /\ open # None /\ open.from \in Nat
    BY <1>1, <1>2, WriteFacts, Zenon
<1>4. /\ open.to = c.to /\ open.from <= Len(image) /\ (mode = "receiver" => open.from = Moment)
      /\ open.ready /\ todo["copy"] \subseteq DOMAIN t
      /\ \A b \in todo["copy"] : b <= open.size => b \in DOMAIN open.saved
      /\ \A b \in DOMAIN t \ todo["copy"] : BlockOf(disk, b) = t[b]
    BY <1>1, <1>2, ZenonT(40) DEF Writing
<1>5. open.from <= Len(image')  BY <1>3, <1>4 DEF GoesOn
<1> HIDE DEF t
<1>6. ASSUME NEW x \in todo["copy"], disk' = WriteAt(disk, x, t[x]), pc' = pc,
             todo' = [todo EXCEPT !["copy"] = @ \ {x}]
      PROVE  Writing(c)'
  <2>1. \A b \in Blocks : BlockOf(disk', b) = IF b = x THEN t[x] ELSE BlockOf(disk, b)
      BY <1>3, <1>4, <1>6, WriteAtFacts, SMTT(20)
  <2>2. todo'["copy"] = todo["copy"] \ {x}  BY <1>2, <1>6, Zenon DEF Procs
  <2>3. \A b \in DOMAIN t \ todo'["copy"] : BlockOf(disk', b) = t[b]
      BY <1>3, <1>4, <2>1, <2>2, Zenon
  <2> QED  BY <1>2, <1>3, <1>4, <1>5, <1>6, <2>2, <2>3, ZenonT(40) DEF Writing, GoesOn, t
<1>7. ASSUME todo["copy"] = {}, disk' = Truncate(disk, Len(t)), pc'["copy"] = "applied"
      PROVE  Writing(c)'
  <2>1. /\ disk' \in Images /\ Len(disk') = Len(t)
        /\ \A b \in 1 .. Len(t) : BlockOf(disk', b) = BlockOf(disk, b)
      BY <1>3, <1>7, TruncateFacts, Zenon
  <2>2. \A b \in 1 .. Len(t) : BlockOf(disk', b) = BlockOf(t, b)
      BY <1>3, <1>4, <1>7, <2>1, Zenon DEF BlockOf
  <2>3. disk' = t  BY <1>3, <2>1, <2>2, SameImage, Zenon
  <2> QED  BY <1>2, <1>3, <1>4, <1>5, <1>7, <2>3, Zenon DEF Writing, GoesOn, t
<1> QED  BY <1>1, <1>2, <1>6, <1>7, Zenon DEF WriteBlocks, Goto, Procs, t

\* ApplyCopy writes no block that is not saved, and ends with the disk of the
\* copy's moment.
LEMMA WritingStep ==
    ASSUME Constants, IInv, [Next]_vars
    PROVE  Writing(call.copy)'
<1>1. Types /\ Writing(call.copy) /\ pc \in [Procs -> Places]  BY SMTT(20) DEF IInv, Types
<1>2. CASE pc'["copy"] \notin {"save", "grow", "write", "applied"}  BY <1>2, Zenon DEF Writing
<1>3. CASE pc'["copy"] \in {"save", "grow", "write", "applied"}
  <2>1. PICK c \in CopyType : GoesOn(c)  BY <1>3, CopyGoesOn, Zenon
  <2>2. CASE OpenUndo \/ SaveUndo \/ Grow \/ WriteBlocks
      BY <2>1, <2>2, WritingOpen, WritingSave, WritingGrow, WritingBlocks, ZenonT(40) DEF GoesOn
  <2>3. CASE ~ OpenUndo /\ ~ SaveUndo /\ ~ Grow /\ ~ WriteBlocks
    <3>1. pc'["copy"] = pc["copy"]  BY <1>1, <1>3, <2>3, Enters
    <3>2. pc["copy"] \in Busy /\ "copy" \in Procs /\ ~ RollBack("copy")
        BY <1>1, <1>3, <3>1, Moves, Zenon DEF Busy, Procs
    <3>3. UNCHANGED <<open, disk>> /\ todo'["copy"] = todo["copy"]
        BY <2>3, <3>1, <3>2, Untouched, Zenon
    <3>4. Changed(c)' = Changed(c)  BY <2>1, <3>3, ZenonT(40) DEF Changed, GoesOn
    <3>5. open.from <= Len(image')  BY <1>1, <1>3, <2>1, <3>1, WriteFacts DEF Writing, GoesOn
    <3>6. Writing(c)  BY <1>1, <2>1, Zenon DEF GoesOn
    <3>7. Writing(c)'  BY <1>3, <2>1, <3>1, <3>3, <3>4, <3>5, <3>6, Zenon DEF Writing, GoesOn
    <3> QED  BY <2>1, <3>7, ZenonT(40) DEF GoesOn
  <2> QED  BY <2>2, <2>3
<1> QED  BY <1>2, <1>3, Zenon
=============================================================================
