---------------------------- MODULE FarDiskProofs ---------------------------
(***************************************************************************)
(* Theorems about FarDisk for disks of any size, any contents, any number  *)
(* of copies and of stopped calls: the undo file takes the disk back to    *)
(* one moment of the source disk, whatever blocks were written, and a      *)
(* failover uses the disk of the moment that it chose.                     *)
(***************************************************************************)
EXTENDS FarDiskSteps

\* A new restore point leads from the moment that the newest one shows to that
\* of the copy.
LEMMA ChainStep ==
    ASSUME Constants, IInv, [Next]_vars, Types'
    PROVE  Chain'
<1>1. Types /\ Copies /\ Chain /\ Writing(call.copy) /\ UNCHANGED mode  BY Frame DEF IInv
<1> USE <1>1
<1>2. /\ Len(image) \in Nat /\ Len(image') \in Nat /\ Len(image) <= Len(image')
      /\ \A i \in 1 .. Len(image) : image'[i] = image[i]
  <2>1. DOMAIN image = 1 .. Len(image)  BY DEF Types
  <2> QED  BY <2>1, Kept
<1> USE <1>2
<1>3. undo \in Seq(UndoType) /\ Len(undo) \in Nat /\ DOMAIN undo = 1 .. Len(undo)
  <2>1. undo \in Seq(UndoType)  BY Zenon DEF Types
  <2> QED  BY <2>1
<1> USE <1>3
<1>4. \A i \in DOMAIN undo : undo[i].to \in Nat \ {0} /\ undo[i].from \in Nat
  <2>1. \A i \in DOMAIN undo : undo[i] \in UndoType  OBVIOUS
  <2>2. \A u \in UndoType : u.to \in Nat \ {0} /\ u.from \in Nat
      BY UndoFacts DEF Moments, Constants
  <2> QED  BY <2>1, <2>2
<1>5. \A i \in DOMAIN undo :
         /\ undo[i].ready /\ undo[i].to <= Len(image) /\ undo[i].from <= Len(image)
         /\ undo[i].to \in 1 .. Len(image) /\ (undo[i].from # 0 => undo[i].from \in 1 .. Len(image))
    BY <1>4 DEF Chain
<1>6. \A i \in DOMAIN undo : mode = "receiver" /\ undo[i].from # 0 =>
          applyUndo(undo[i], image'[undo[i].to]) = image'[undo[i].from]
    BY <1>5, Zenon DEF Chain
<1>7. \A i, j \in DOMAIN undo : mode = "receiver" /\ j = i + 1 => undo[j].from = undo[i].to
    BY Zenon DEF Chain
<1>8. CASE UNCHANGED undo  BY <1>4, <1>5, <1>6, <1>7, <1>8, SMTT(20) DEF Chain
<1>9. CASE pruneUndo
  <2>1. PICK n \in 0 .. Len(undo) - 1 : undo' = SubSeq(undo, n + 1, Len(undo))
      BY <1>9 DEF pruneUndo
  <2>2. /\ DOMAIN undo' = 1 .. Len(undo) - n
        /\ \A i \in 1 .. Len(undo) - n : undo'[i] = undo[i + n] /\ i + n \in DOMAIN undo
      BY <2>1, SMTT(20)
  <2> USE <2>2
  <2>3. ASSUME NEW i \in DOMAIN undo'
        PROVE  /\ undo'[i].ready /\ undo'[i].to <= Len(image') /\ undo'[i].from <= Len(image')
               /\ mode = "receiver" /\ undo'[i].from # 0 =>
                      applyUndo(undo'[i], image'[undo'[i].to]) = image'[undo'[i].from]
    <3>1. PICK k \in DOMAIN undo : undo'[i] = undo[k]  BY Zenon
    <3> QED  BY <1>4, <1>5, <1>6, <3>1, SMTT(20)
  <2>4. ASSUME NEW i \in DOMAIN undo', NEW j \in DOMAIN undo', mode = "receiver", j = i + 1
        PROVE  undo'[j].from = undo'[i].to
    <3>1. undo'[i] = undo[i + n] /\ undo'[j] = undo[j + n] /\ i + n \in DOMAIN undo /\ j + n \in DOMAIN undo
        OBVIOUS
    <3>2. j + n = (i + n) + 1  BY <2>1, <2>4
    <3>3. PICK k \in DOMAIN undo, l \in DOMAIN undo : undo'[i] = undo[k] /\ undo'[j] = undo[l] /\ l = k + 1
        BY <3>1, <3>2, Zenon
    <3> QED  BY <1>7, <2>4, <3>3, Zenon
  <2> QED  BY <2>3, <2>4, Zenon DEF Chain
<1>10. CASE RestorePoint
  <2>1. undo' = Append(undo, open) /\ pc["copy"] = "applied"  BY <1>10, ZenonT(40) DEF RestorePoint
  <2> USE <2>1
  <2>2. /\ open # None /\ open \in UndoType /\ open.to = call.copy.to /\ open.from <= Len(image)
        /\ (mode = "receiver" => open.from = Moment) /\ open.ready /\ disk = image[call.copy.to]
      BY Zenon DEF Writing, Types
  <2> USE <2>2
  <2>3. /\ DOMAIN undo' = 1 .. Len(undo) + 1 /\ undo'[Len(undo) + 1] = open
        /\ \A i \in DOMAIN undo : undo'[i] = undo[i]
      OBVIOUS
  <2> USE <2>3
  <2>4. call.copy.to \in 1 .. Len(image)
    <3>1. call.copy.to \in DOMAIN image  BY CallFacts, Zenon
    <3>2. DOMAIN image = 1 .. Len(image)
      <4>1. image \in Seq(Images)  BY Zenon DEF Types
      <4> QED  BY <4>1
    <3> QED  BY <3>1, <3>2, Zenon
  <2>5. ASSUME mode = "receiver", open.from # 0
        PROVE  applyUndo(open, image[open.to]) = image[open.from] /\ open.from \in 1 .. Len(image)
    <3>1. disk # None /\ \E m \in DOMAIN image : ShowsMoment(m)  BY DiskThere, Zenon
    <3>2. PICK m \in DOMAIN image : ShowsMoment(m)  BY <3>1, Zenon
    <3>3. Moment = m /\ Journal(m) /\ Ready  BY <2>5, <3>2, Zenon DEF ShowsMoment, InTime, Ready
    <3>4. applyUndo(open, disk) = image[m]  BY <3>1, <3>3, JournalRolls, ZenonT(40)
    <3>5. DOMAIN image = 1 .. Len(image)
      <4>1. image \in Seq(Images)  BY Zenon DEF Types
      <4> QED  BY <4>1
    <3> QED  BY <2>5, <3>3, <3>4, <3>5, ZenonT(40)
  <2>6. ASSUME mode = "receiver", undo # <<>> PROVE open.from = undo[Len(undo)].to
      BY <2>6, Zenon DEF Moment
  <2>7. open.from \in Nat /\ open.to \in 1 .. Len(image)
    <3>1. open.from \in 0 .. MaxMoments  BY UndoFacts, Zenon
    <3>2. open.from \in Nat  BY <3>1 DEF Constants
    <3> QED  BY <2>4, <3>2, Zenon
  <2>8. \A i \in DOMAIN undo' :
           /\ undo'[i].ready /\ undo'[i].to <= Len(image') /\ undo'[i].from <= Len(image')
           /\ mode = "receiver" /\ undo'[i].from # 0 =>
                  applyUndo(undo'[i], image'[undo'[i].to]) = image'[undo'[i].from]
    <3>1. \A i \in DOMAIN undo' : i \in DOMAIN undo \/ i = Len(undo) + 1  OBVIOUS
    <3>2. \A i \in DOMAIN undo :
             /\ undo'[i].ready /\ undo'[i].to <= Len(image') /\ undo'[i].from <= Len(image')
             /\ mode = "receiver" /\ undo'[i].from # 0 =>
                    applyUndo(undo'[i], image'[undo'[i].to]) = image'[undo'[i].from]
        BY <1>4, <1>5, <1>6, SMTT(20)
    <3>3. /\ open.ready /\ open.to <= Len(image') /\ open.from <= Len(image')
          /\ mode = "receiver" /\ open.from # 0 => applyUndo(open, image'[open.to]) = image'[open.from]
      <4>1. open.to <= Len(image') /\ open.from <= Len(image')  BY <2>7
      <4>2. image'[open.to] = image[open.to]  BY <2>7, Zenon
      <4>3. mode = "receiver" /\ open.from # 0 =>
               applyUndo(open, image[open.to]) = image[open.from] /\ image'[open.from] = image[open.from]
          BY <2>5, Zenon
      <4> QED  BY <4>1, <4>2, <4>3, Zenon
    <3> QED  BY <3>1, <3>2, <3>3, SMTT(20)
  <2>9. ASSUME NEW i \in DOMAIN undo', NEW j \in DOMAIN undo', mode = "receiver", j = i + 1
        PROVE  undo'[j].from = undo'[i].to
    <3> USE <2>9
    <3>1. CASE j \in DOMAIN undo
      <4>1. i \in DOMAIN undo  BY <3>1
      <4> QED  BY <1>7, <3>1, <4>1
    <3>2. CASE j = Len(undo) + 1
      <4>1. i = Len(undo) /\ i \in DOMAIN undo  BY <3>2, SMTT(20)
      <4>2. undo # <<>>  BY <4>1, SMTT(20)
      <4> QED  BY <2>6, <3>2, <4>1, <4>2, ZenonT(40)
    <3> QED  BY <3>1, <3>2
  <2> QED  BY <2>8, <2>9 DEF Chain
<1> QED  BY <1>8, <1>9, <1>10, Frame, ZenonT(40)

\* While the failover Job works on the disk nothing else changes its files.
LEMMA JobAlone ==
    ASSUME Constants, IInv, [Next]_vars, pc["failover"] \in Works
    PROVE  UNCHANGED <<undo, moment>> /\ Moment' = Moment
<1>1. pc \in [Procs -> Places] /\ pc["copy"] \notin Busy  BY Zenon DEF IInv, Types, Alone
<1>2. ~ RestorePoint /\ ~ pruneUndo /\ ~ writeMomentFile  BY <1>1, Moves DEF Busy
<1> QED  BY <1>2, Frame, SMTT(20) DEF Moment

\* With no open undo file, and a moment known, the disk is that of the moment.
LEMMA DiskIsMoment ==
    ASSUME Constants, IInv, pc["failover"] = "go", Moment # 0
    PROVE  disk \in Images /\ disk = image[Moment]
<1>1. disk # None /\ disk \in Images /\ \E m \in DOMAIN image : ShowsMoment(m)  BY DiskThere
<1>2. PICK m \in DOMAIN image : ShowsMoment(m)  BY <1>1, Zenon
<1>3. open = None /\ Moment = m  BY <1>2 DEF ShowsMoment, Rolling, InTime, Procs
<1> QED  BY <1>1, <1>2, <1>3, SMTT(20) DEF ShowsMoment, Ready

\* The failover Job goes back through the restore points one by one.
LEMMA JobStep ==
    ASSUME Constants, IInv, [Next]_vars, Types'
    PROVE  JobPlace'
<1>1. Types /\ Chain /\ JobPlace /\ Alone  BY DEF IInv
<1> USE <1>1
<1>2. /\ pc \in [Procs -> Places] /\ Len(image) \in Nat /\ DOMAIN image = 1 .. Len(image)
      /\ undo \in Seq(UndoType) /\ Len(undo) \in Nat /\ DOMAIN undo = 1 .. Len(undo)
      /\ job \in [at : 0 .. Len(image), rewind : BOOLEAN, stop : Nat, next : Nat, img : Images \cup {None}]
  <2>1. image \in Seq(Images) /\ undo \in Seq(UndoType)  BY DEF Types
  <2> USE <2>1
  <2>2. pc \in [Procs -> Places]  BY Zenon DEF Types
  <2>3. job \in [at : 0 .. Len(image), rewind : BOOLEAN, stop : Nat, next : Nat, img : Images \cup {None}]
      BY DEF Types
  <2>4. Len(image) \in Nat /\ DOMAIN image = 1 .. Len(image)  OBVIOUS
  <2>5. Len(undo) \in Nat /\ DOMAIN undo = 1 .. Len(undo)  OBVIOUS
  <2> QED  BY <2>2, <2>3, <2>4, <2>5, SMTT(20)
<1> USE <1>2
<1>3. \A i \in 1 .. Len(image) : image'[i] = image[i]  BY Kept, Zenon
<1> USE <1>3
<1>4. \A i \in DOMAIN undo :
         /\ undo[i].to \in 1 .. Len(image)
         /\ undo[i].from \in 0 .. Len(image)
         /\ mode = "receiver" /\ undo[i].from # 0 => applyUndo(undo[i], image[undo[i].to]) = image[undo[i].from]
         /\ undo[i] \in UndoType
  <2>1. \A i \in DOMAIN undo : undo[i] \in UndoType  OBVIOUS
  <2>2. \A u \in UndoType : u.to \in Nat \ {0} /\ u.from \in Nat
      BY UndoFacts DEF Moments, Constants
  <2>3. \A i \in DOMAIN undo : undo[i].to <= Len(image) /\ undo[i].from <= Len(image)
      BY Zenon DEF Chain
  <2>4. \A i \in DOMAIN undo : mode = "receiver" /\ undo[i].from # 0 =>
            applyUndo(undo[i], image[undo[i].to]) = image[undo[i].from]
      BY Zenon DEF Chain
  <2> QED  BY <2>1, <2>2, <2>3, <2>4, SMTT(20)
<1> USE <1>4
<1>5. UNCHANGED mode  BY Frame, Zenon
<1> USE <1>5
<1>6. Moment \in 0 .. Len(image)
  <2>1. CASE undo = <<>>  BY <2>1, Zenon DEF Moment, Types
  <2>2. CASE undo # <<>>
    <3>1. Len(undo) \in DOMAIN undo  BY <2>2
    <3> QED  BY <2>2, <3>1, SMTT(20) DEF Moment
  <2> QED  BY <2>1, <2>2, Zenon
<1>7. CASE ResolveVMs
  <2> USE <1>7
  <2>1. pc'["failover"] \in {"recover", "used"} /\ UNCHANGED <<undo, moment, image>> /\ Moment' = Moment
      BY Moves, ZenonT(40) DEF ResolveVMs, folder, source, Moment
  <2>2. CASE Moment = 0
    <3>1. pc'["failover"] = "used" /\ job'.at = 0  BY <2>2 DEF ResolveVMs, Goto, NoJob, Procs
    <3> QED  BY <3>1 DEF JobPlace, Works, Recovers
  <2>3. CASE Moment # 0
    <3> USE <2>3
    <3>1. PICK last \in Moments :
             LET common == {m \in Shows : m <= last}
             IN  common # {} /\ job' = [NoJob EXCEPT !.at = Max(common), !.rewind = Max(common) # Moment]
        BY Zenon DEF ResolveVMs
    <3> DEFINE common == {m \in Shows : m <= last}
    <3>2. disk # None  BY Zenon DEF ResolveVMs
    <3>3. Max(common) \in common /\ Max(common) # 0  BY <3>1, <3>2, ShownMoments, Zenon
    <3>4. job'.at = Max(common) /\ job'.rewind = (Max(common) # Moment)  BY <3>1, SMTT(20) DEF NoJob
    <3>5. Max(common) \in Shows  BY <3>3, Zenon
    <3> HIDE DEF common
    <3>6. Max(common) # Moment => \E i \in DOMAIN undo : undo[i].from = Max(common)
        BY <3>5 DEF Shows
    <3>7. pc'["failover"] = "recover"  BY Zenon DEF ResolveVMs, Goto, Procs
    <3> QED  BY <2>1, <3>3, <3>4, <3>6, <3>7, ZenonT(40) DEF JobPlace
  <2> QED  BY <2>2, <2>3, SMTT(20)
<1>8. ASSUME pc["failover"] \in Works
      PROVE  /\ job.at \in 1 .. Len(image) /\ UNCHANGED <<undo, moment>> /\ Moment' = Moment
             /\ IF job.rewind THEN \E i \in DOMAIN undo : undo[i].from = job.at ELSE job.at = Moment
    BY <1>8, JobAlone DEF JobPlace
<1>9. CASE MaterializeVMs
  <2> USE <1>9
  <2>1. pc["failover"] = "go" /\ pc["failover"] \in Works  BY Moves, Zenon DEF Works, Recovers
  <2> USE <2>1
  <2>2. CASE ~ job.rewind
    <3>1. job' = [job EXCEPT !.img = disk] /\ pc'["failover"] = "used"
        BY <2>2 DEF MaterializeVMs, Goto, Procs
    <3>2. job'.at = job.at /\ job'.img = disk  BY <3>1, Zenon
    <3>3. Moment # 0 /\ job.at = Moment  BY <1>8, <2>2, SMTT(20)
    <3>4. disk = image[job.at]  BY <3>3, DiskIsMoment, SMTT(20)
    <3> QED  BY <1>8, <3>1, <3>2, <3>4, ZenonT(40) DEF JobPlace, Works, Recovers
  <2>3. CASE job.rewind
    <3> USE <2>3
    <3> DEFINE S == {i \in DOMAIN undo : undo[i].from = job.at}
    <3>1. /\ job' = [job EXCEPT !.img = disk, !.next = Len(undo), !.stop = Max(S)]
          /\ pc'["failover"] = "rewind"
        BY Zenon DEF MaterializeVMs, Goto, Procs
    <3>2. Max(S) \in S /\ Max(S) \in Nat  BY StopPoint, ZenonT(40)
    <3>3. Max(S) \in DOMAIN undo /\ undo[Max(S)].from = job.at  BY <3>2
    <3> USE <3>3
    <3> HIDE DEF S
    <3>4. /\ job'.at = job.at /\ job'.rewind = job.rewind /\ job'.img = disk /\ job'.next = Len(undo) /\ job'.stop = Max(S)
        BY <3>1, Zenon
    <3> USE <3>4
    <3>5. undo # <<>>  OBVIOUS
    <3>6. Moment # 0  BY <3>5, MomentType, Zenon
    <3>7. disk \in Images /\ disk = image[Moment]  BY <3>6, DiskIsMoment, Zenon
    <3>8. UNCHANGED <<undo, moment>> /\ Moment' = Moment /\ job.at \in 1 .. Len(image)
        BY <1>8, Zenon
    <3>9. image'[Moment] = image[Moment]  BY <1>6, <3>6, SMTT(20)
    <3>10. pc'["failover"] \in Works => job'.at # 0 /\ \E i \in DOMAIN undo' : undo'[i].from = job'.at
        BY <3>8, SMTT(20)
    <3>11. job'.stop - 1 <= job'.next  BY SMTT(20)
    <3>12. /\ job'.stop \in DOMAIN undo' /\ undo'[job'.stop].from = job'.at
           /\ job'.next <= Len(undo') /\ job'.img \in Images
           /\ job'.next = Len(undo') /\ job'.img = image'[Moment']
        BY <3>7, <3>8, <3>9, SMTT(20)
    <3> QED  BY <3>1, <3>10, <3>11, <3>12, ZenonT(40) DEF JobPlace
  <2> QED  BY <2>2, <2>3, Zenon
<1>10. CASE Rewind
  <2> USE <1>10
  <2>1. pc["failover"] = "rewind" /\ pc["failover"] \in Works  BY Moves, Zenon DEF Works
  <2> USE <2>1
  <2>2. /\ job.stop \in DOMAIN undo /\ undo[job.stop].from = job.at
        /\ job.stop - 1 <= job.next /\ job.next <= Len(undo) /\ job.img \in Images
        /\ mode = "receiver" =>
              job.img = image[IF job.next = Len(undo) THEN Moment ELSE undo[job.next + 1].from]
      BY Zenon DEF JobPlace
  <2> USE <2>2
  <2>3. UNCHANGED <<undo, moment, image>> /\ Moment' = Moment /\ job.at \in 1 .. Len(image)
      BY <1>8, Zenon DEF Rewind, source
  <2> USE <2>3
  <2>4. job.next \in Nat /\ job.stop \in Nat  BY Zenon
  <2> USE <2>4
  <2>5. CASE job.next >= job.stop
    <3> USE <2>5
    <3>1. job' = [job EXCEPT !.img = applyUndo(undo[job.next], job.img), !.next = job.next - 1] /\ pc' = pc
        BY Zenon DEF Rewind
    <3>2. /\ job'.at = job.at /\ job'.rewind = job.rewind /\ job'.stop = job.stop
          /\ job'.img = applyUndo(undo[job.next], job.img) /\ job'.next = job.next - 1
        BY <3>1, Zenon
    <3> USE <3>2
    <3>3. job.next \in DOMAIN undo  OBVIOUS
    <3> USE <3>3
    <3>4. job'.img \in Images  BY RolledType, ZenonT(40)
    <3>5. ASSUME mode = "receiver" PROVE job'.img = image[undo[job.next].from]
      <4> USE <3>5
      <4>1. job.img = image[undo[job.next].to]
        <5>1. CASE job.next = Len(undo)
          <6>1. undo # <<>>  BY <5>1
          <6> QED  BY <5>1, <6>1, Zenon DEF Moment
        <5>2. CASE job.next # Len(undo)
          <6>1. job.next + 1 \in DOMAIN undo  BY <5>2
          <6>2. undo[job.next + 1].from = undo[job.next].to  BY <6>1, Zenon DEF Chain
          <6> QED  BY <5>2, <6>2, ZenonT(40)
        <5> QED  BY <5>1, <5>2, Zenon
      <4>2. undo[job.next].from # 0
        <5>1. CASE job.next = job.stop  BY <5>1, SMTT(20)
        <5>2. CASE job.next # job.stop
          <6>1. job.next - 1 \in DOMAIN undo /\ job.next = (job.next - 1) + 1  BY <5>2
          <6>2. undo[job.next].from = undo[job.next - 1].to  BY <6>1, ZenonT(40) DEF Chain
          <6> QED  BY <6>1, <6>2, SMTT(20)
        <5> QED  BY <5>1, <5>2, ZenonT(40)
      <4> QED  BY <4>1, <4>2, Zenon
    <3>6. job'.next # Len(undo) /\ job'.next + 1 = job.next /\ job'.stop - 1 <= job'.next /\ job'.next <= Len(undo)
        OBVIOUS
    <3>7. IF job.rewind THEN \E i \in DOMAIN undo : undo[i].from = job.at ELSE job.at = Moment
        BY <1>8, Zenon
    <3> QED  BY <3>1, <3>4, <3>5, <3>6, <3>7, ZenonT(40) DEF JobPlace
  <2>6. CASE ~ (job.next >= job.stop)
    <3>1. job' = job /\ pc'["failover"] = "used"  BY <2>6, Zenon DEF Rewind, Goto, Procs
    <3>2. job.next # Len(undo) /\ job.next + 1 = job.stop  BY <2>6
    <3>3. mode = "receiver" => job.img = image[job.at]  BY <3>2, Zenon
    <3> QED  BY <3>1, <3>3, Zenon DEF JobPlace, Works, Recovers
  <2> QED  BY <2>5, <2>6, Zenon
<1>11. CASE ~ ResolveVMs /\ ~ MaterializeVMs /\ ~ Rewind
  <2> USE <1>11
  <2>1. pc'["failover"] \in Works \cup {"used"} => job' = job
    <3>1. ASSUME NEW q \in Procs, Stop(q), pc'["failover"] \in Works \cup {"used"} PROVE job' = job
      <4>1. q # "failover"  BY <3>1, Moves, Zenon DEF Works, Recovers
      <4> QED  BY <3>1, <4>1 DEF Stop, Procs
    <3> QED  BY <3>1, Frame, Zenon
  <2>2. pc'["failover"] \in Works => pc["failover"] \in Works
      BY Enters, Moves, Zenon DEF Works, Recovers, Procs
  <2>3. pc'["failover"] \in {"rewind", "used"} => pc["failover"] = pc'["failover"]
      BY Enters
  <2>4. CASE pc'["failover"] \in Works
    <3>1. job' = job /\ pc["failover"] \in Works  BY <2>1, <2>2, <2>4, Zenon
    <3> USE <3>1
    <3>2. /\ job.at \in 1 .. Len(image) /\ UNCHANGED <<undo, moment>> /\ Moment' = Moment
          /\ IF job.rewind THEN \E i \in DOMAIN undo : undo[i].from = job.at ELSE job.at = Moment
        BY <1>8, Zenon
    <3>3. pc'["failover"] # "used"  BY <2>4, Zenon DEF Works, Recovers
    <3>4. ASSUME pc'["failover"] = "rewind"
          PROVE  /\ job.stop \in DOMAIN undo /\ undo[job.stop].from = job.at
                 /\ job.stop - 1 <= job.next /\ job.next <= Len(undo) /\ job.img \in Images
                 /\ mode = "receiver" =>
                       job.img = image'[IF job.next = Len(undo) THEN Moment ELSE undo[job.next + 1].from]
      <4>1. /\ job.stop \in DOMAIN undo /\ undo[job.stop].from = job.at
            /\ job.stop - 1 <= job.next /\ job.next <= Len(undo) /\ job.img \in Images
            /\ mode = "receiver" =>
                  job.img = image[IF job.next = Len(undo) THEN Moment ELSE undo[job.next + 1].from]
          BY <2>3, <3>4, Zenon DEF JobPlace
      <4>2. image' = image
        <5>1. ~ up  BY Zenon DEF Alone
        <5> QED  BY <5>1, Frame, Zenon DEF startVMCopy
      <4> QED  BY <4>1, <4>2, Zenon
    <3> QED  BY <3>2, <3>3, <3>4, Zenon DEF JobPlace
  <2>5. CASE pc'["failover"] = "used"
    <3>1. job' = job /\ pc["failover"] = "used"  BY <2>1, <2>3, <2>5, Zenon
    <3>2. mode = "receiver" /\ job.at # 0 => job.img = image[job.at]  BY <3>1, Zenon DEF JobPlace
    <3>3. job.at # 0 => image'[job.at] = image[job.at]  OBVIOUS
    <3> QED  BY <2>5, <3>1, <3>2, <3>3, Zenon DEF JobPlace, Works, Recovers
  <2>6. CASE pc'["failover"] \notin Works /\ pc'["failover"] # "used"
      BY <2>6, Zenon DEF JobPlace, Works
  <2> QED  BY <2>4, <2>5, <2>6, SMTT(20)
<1> QED  BY <1>7, <1>9, <1>10, <1>11, SMTT(20)

\* The first copy is a full one.
LEMMA FirstDisk ==
    ASSUME Constants, IInv, [Next]_vars, disk = None, Types'
    PROVE  /\ disk' = None => NoDisk'
           /\ disk' # None => \E m \in DOMAIN image' : ShowsMoment(m)'
<1>1. Types /\ Copies /\ Alone /\ NoDisk  BY Zenon DEF IInv
<1> USE <1>1
<1>2. /\ pc \in [Procs -> Places] /\ pc["copy"] \in {"idle", "recover", "go"} /\ pc["failover"] = "idle"
      /\ open = None /\ undo = <<>> /\ moment = 0 /\ list = 0 /\ copy \in CopyType \cup {None}
      /\ copy # None => copy.full /\ copy.staged /\ copy.base = 0
      /\ call.copy # None => call.copy.full
    BY DEF NoDisk, Types
<1> USE <1>2
<1>3. CASE writeNewDiskFrom
  <2>1. /\ pc["copy"] = "go" /\ pc'["copy"] = "record" /\ pc'["failover"] = "idle"
        /\ UNCHANGED <<mode, up, image, sent, list, copy, undo, open, moment, call>>
        /\ disk' = [b \in DOMAIN image[call.copy.to] |-> IF b \in Held(call.copy) THEN image[call.copy.to][b] ELSE 0]
      BY <1>3, Moves, Zenon DEF writeNewDiskFrom, source, policy
  <2> USE <2>1
  <2>2. /\ call.copy \in CopyType /\ CopyFits(call.copy) /\ call.copy.to \in DOMAIN image /\ image[call.copy.to] \in Images
        /\ call.copy # None
      BY CallFacts, Zenon DEF Copies
  <2> USE <2>2
  <2>3. PICK m \in DOMAIN image : m = call.copy.to  BY Zenon
  <2> USE <2>3
  <2>4. call.copy.full /\ Held(call.copy) = DOMAIN image[m]  BY Zenon DEF Held
  <2>5. disk' = image[m]
    <3>1. PICK n \in Blocks : image[m] \in [1 .. n -> Values]  BY Zenon DEF Images
    <3>2. image[m] = [b \in DOMAIN image[m] |-> image[m][b]]  BY <3>1, Zenon
    <3> QED  BY <2>4, <3>2, Zenon
  <2>6. m \in Nat \ {0} /\ call.copy.base \in Nat /\ call.copy.base <= m
      BY DEF CopyType, CopyFits, Moments, Constants
  <2>7. copy # None => m <= copy.to  BY Zenon DEF Copies
  <2>8. InTime(m)'
    <3>1. Moment' = 0  BY Zenon DEF Moment
    <3> QED  BY <2>6, <2>7, <3>1, SMTT(20) DEF InTime
  <2>9. \A p \in Procs : Rolling(p, m)'  BY DEF Rolling, Procs
  <2>10. ShowsMoment(m)'  BY <2>5, <2>8, <2>9, Zenon DEF ShowsMoment, Ready
  <2>11. disk' # None
    <3>1. disk' \in Images  BY <2>5, Zenon
    <3> QED  BY <3>1, Zenon DEF Constants
  <2> QED  BY <2>10, <2>11, Zenon
<1>4. CASE ~ writeNewDiskFrom
  <2>1. pc["copy"] = "go" => ~ Refuses
    <3>1. pc["copy"] = "go" => call.copy # None  BY DEF Copies
    <3> QED  BY <3>1, Zenon DEF Refuses
  <2>2. /\ ~ commitRefused /\ ~ OpenUndo /\ ~ SaveUndo /\ ~ Grow /\ ~ WriteBlocks /\ ~ RestorePoint /\ ~ pruneUndo
        /\ ~ writeMomentFile /\ ~ RemoveStaging /\ ~ advanceVMCopy /\ ~ ResolveVMs /\ ~ MaterializeVMs /\ ~ Rewind
        /\ \A p \in Procs : ~ RollBack(p) /\ ~ RemoveReady(p) /\ ~ reseal(p)
    <3>1. ~ commitRefused  BY <2>1, Moves, Zenon DEF commitRefused
    <3>2. ~ OpenUndo /\ ~ ResolveVMs  BY DEF OpenUndo, ResolveVMs
    <3> QED  BY <3>1, <3>2, Moves, Zenon DEF Procs
  <2> USE <2>2
  <2>3. UNCHANGED <<disk, undo, moment>>  BY <1>4, Frame, Zenon
  <2>4. open' = None /\ list' = 0
    <3>1. \A p \in Procs : Look(p) => open' = None  BY Zenon DEF Look
    <3>2. JobFails => list' \in {list, 0}  BY Zenon DEF JobFails, Failed
    <3> QED  BY <3>1, <3>2, Frame, Zenon
  <2>5. copy' # None => copy'.full /\ copy'.staged /\ copy'.base = 0
    <3>1. ASSUME startVMCopy PROVE copy'.full /\ copy'.staged /\ copy'.base = 0
      <4>1. PICK keeps \in BOOLEAN :
               copy' = [to |-> Len(image) + 1, base |-> list, staged |-> TRUE,
                        full |-> list = 0 \/ sent = 0 \/ ~keeps]
          BY <3>1, Zenon DEF startVMCopy
      <4>2. (list = 0 \/ sent = 0 \/ ~keeps) = TRUE  OBVIOUS
      <4> QED  BY <4>1, <4>2, Zenon
    <3>2. JobFails => copy' = None  BY Zenon DEF JobFails, Failed
    <3> QED  BY <3>1, <3>2, Frame, Zenon
  <2>6. call'.copy # None => call'.copy.full  BY CopyMoves, Zenon DEF SameCopy
  <2>7. pc'["copy"] \in {"idle", "recover", "go"} /\ pc'["failover"] = "idle"
    <3>1. Begin => pc'["copy"] = "recover"  BY Zenon DEF Begin, Goto, Procs
    <3>2. UNCHANGED vars => pc' = pc  BY Zenon DEF vars, procs
    <3>3. \A p \in Procs : Look(p) => p = "copy" /\ pc'["copy"] = "go"
        BY Zenon DEF Look, Goto, Procs
    <3> QED  BY <1>4, <3>1, <3>2, <3>3, Moves, ZenonT(40) DEF Next, Procs
  <2> QED  BY <2>3, <2>4, <2>5, <2>6, <2>7, ZenonT(40) DEF NoDisk
<1> QED  BY <1>3, <1>4, Zenon

\* The disk of one moment becomes that of the next one at a restore point.
LEMMA ShowsStep ==
    ASSUME Constants, IInv, [Next]_vars, disk # None, disk' # None, Types', Alone', Copies'
    PROVE  \E m \in DOMAIN image' : ShowsMoment(m)'
<1>1. Types /\ Copies /\ Writing(call.copy) /\ Alone  BY Zenon DEF IInv
<1> USE <1>1
<1>2. PICK m \in DOMAIN image : ShowsMoment(m)  BY Zenon DEF IInv
<1> USE <1>2
<1>3. pc \in [Procs -> Places] /\ disk \in Images  BY DEF Types
<1>4. m \in DOMAIN image'  BY Kept, Zenon
<1>5. CASE ~ RestorePoint
  <2> USE <1>5
  <2>1. InTime(m)'  BY InTimeStep, Zenon DEF ShowsMoment
  <2>2. IF Ready' THEN Journal(m)' ELSE disk' = image'[m]  BY ContentStep, Zenon
  <2>3. \A p \in Procs : Rolling(p, m)'  BY RollingStep, Zenon
  <2>4. ShowsMoment(m)'  BY <2>1, <2>2, <2>3, ZenonT(40) DEF ShowsMoment
  <2> QED  BY <1>4, <2>4, Zenon
<1>6. CASE RestorePoint
  <2>1. /\ pc["copy"] = "applied" /\ pc'["copy"] = "prune" /\ pc'["failover"] = pc["failover"]
        /\ UNCHANGED <<image, list, copy, disk, moment, call>> /\ open' = None
      BY <1>3, <1>6, Moves, Zenon DEF RestorePoint, source, policy
  <2> USE <2>1
  <2>2. open.to = call.copy.to /\ disk = image[call.copy.to]  BY Zenon DEF Writing
  <2>3. call.copy \in CopyType /\ call.copy # None /\ call.copy.to \in DOMAIN image /\ CopyFits(call.copy)
      BY CallFacts, Zenon DEF Copies
  <2> USE <2>3
  <2>4. PICK n \in DOMAIN image : n = call.copy.to  BY Zenon
  <2> USE <2>4
  <2>5. /\ n \in Nat /\ call.copy.base \in Nat /\ call.copy.base <= n /\ m \in Nat /\ m <= n /\ list \in Nat
    <3>1. n \in Nat /\ call.copy.base \in Nat /\ call.copy.base <= n
        BY SMTT(20) DEF CopyType, CopyFits, Moments, Constants
    <3>2. m \in Nat /\ list \in Nat
      <4>1. image \in Seq(Images) /\ list \in 0 .. Len(image)  BY Zenon DEF Types
      <4> QED  BY <4>1
    <3> QED  BY <3>1, <3>2, ZenonT(40) DEF ShowsMoment, InTime
  <2> USE <2>5
  <2>6. Moment' = n
    <3>1. undo \in Seq(UndoType)  BY Zenon DEF Types
    <3>2. undo' = Append(undo, open)  BY <1>6, Zenon DEF RestorePoint
    <3>3. undo' # <<>> /\ undo'[Len(undo')] = open  BY <3>1, <3>2, SMTT(20)
    <3> QED  BY <2>2, <3>3, Zenon DEF Moment
  <2>7. copy # None => copy.base <= n /\ n <= copy.to /\ (~ copy.staged => n = copy.to)
    <3>1. copy # None => copy.to \in Nat /\ copy.base \in Nat
      <4>1. copy \in CopyType \cup {None}  BY DEF Types
      <4> QED  BY <4>1, SMTT(20) DEF CopyType, Moments, Constants
    <3>2. copy # None => copy.base <= m /\ (~ copy.staged => m = copy.to)
        BY Zenon DEF ShowsMoment, InTime
    <3>3. copy # None => n <= copy.to  BY Zenon DEF Copies
    <3> QED  BY <3>1, <3>2, <3>3, SMTT(20)
  <2>8. list <= n
    <3>1. list <= m  BY Zenon DEF ShowsMoment, InTime
    <3> QED  BY <3>1
  <2>9. InTime(n)'  BY <2>6, <2>7, <2>8 DEF InTime
  <2>10. ASSUME NEW p \in Procs PROVE Rolling(p, n)'
    <3>1. pc["failover"] \notin Works  BY Zenon DEF Alone, Busy
    <3> QED  BY <3>1, Zenon DEF Rolling, Procs, Works, Recovers
  <2>11. ShowsMoment(n)'  BY <2>2, <2>9, <2>10, Zenon DEF ShowsMoment, Ready
  <2> QED  BY <2>11
<1> QED  BY <1>5, <1>6, SMTT(20)

-----------------------------------------------------------------------------
(* The theorems *)

\* Nothing was sent yet: the invariant holds at first.
LEMMA InitHolds ==
    ASSUME Constants, Init
    PROVE  IInv
<1>1. Types
  <2>1. image \in Seq(Images) /\ Len(image) = 0 /\ undo \in Seq(UndoType)  BY DEF Init
  <2> USE <2>1
  <2>2. pc \in [Procs -> Places] /\ todo \in [Procs -> SUBSET Blocks]  BY DEF Init, Places
  <2>3. call \in [copy : CopyType \cup {None}, from : 0 .. Len(image)]  BY DEF Init, NoCall
  <2>4. job \in [at : 0 .. Len(image), rewind : BOOLEAN, stop : Nat, next : Nat, img : Images \cup {None}]
      BY DEF Init, NoJob
  <2>5. Len(image) <= MaxMoments /\ 0 \in 0 .. Len(image) /\ 0 \in 0 .. MaxFaults  BY DEF Constants
  <2> QED  BY <2>2, <2>3, <2>4, <2>5, Zenon DEF Init, Types
<1>2. pc["copy"] = "idle" /\ pc["failover"] = "idle" /\ \A p \in Procs : todo[p] = {}
    BY DEF Init, Procs
<1> USE <1>2
<1>3. Alone  BY SMTT(20) DEF Alone, Busy, Works, Recovers
<1>4. Copies  BY SMTT(20) DEF Init, Copies, NoCall
<1>5. Writing(call.copy)  BY SMTT(20) DEF Writing
<1>6. Chain /\ NoDisk  BY SMTT(20) DEF Init, Chain, NoDisk, NoCall
<1>7. JobPlace  BY DEF JobPlace, Works, Recovers
<1> QED  BY <1>1, <1>3, <1>4, <1>5, <1>6, <1>7, ZenonT(40) DEF IInv, Init

\* No step of a copy, of a recovery or of a failover breaks the invariant, unless
\* it is a failover planned while a copy call is at work.
LEMMA StepHolds ==
    ASSUME Constants, IInv, [Next]_vars, Guarded'
    PROVE  IInv'
<1>1. Alone'  BY AloneStep
<1> USE <1>1
<1>2. Types' /\ (disk # None => disk' # None)  BY TypesStep
<1> USE <1>2
<1>3. Copies'  BY CopiesStep
<1> USE <1>3
<1>4. Writing(call.copy)'  BY WritingStep
<1>5. Chain' /\ JobPlace'  BY ChainStep, JobStep
<1>6. /\ disk' = None => NoDisk'
      /\ disk' # None => \E m \in DOMAIN image' : ShowsMoment(m)'
    BY FirstDisk, ShowsStep, SMTT(20)
<1> QED  BY <1>4, <1>5, <1>6, SMTT(20) DEF IInv

\* The assumption on the constants is what the lemmas need.
LEMMA ConstantsHold == Constants
BY FarAssumption DEF Constants

\* The inductive invariant gives every variable its type.
LEMMA IInvTyped ==
    ASSUME Constants, IInv
    PROVE  TypeOK
<1>1. Types /\ Alone /\ Chain  BY Zenon DEF IInv
<1>2. \A u \in UndoType : UndoOK(u)
  <2> SUFFICES ASSUME NEW u \in UndoType PROVE UndoOK(u)  OBVIOUS
  <2>1. u \in [ready : BOOLEAN, from : 0 .. MaxMoments, to : Moments, size : Blocks, saved : Saves]
        /\ DOMAIN u.saved \subseteq 1 .. u.size
      BY Zenon DEF UndoType
  <2>2. PICK D \in SUBSET Blocks : u.saved \in [D -> Values]  BY <2>1, Zenon DEF Saves
  <2>3. \A b \in DOMAIN u.saved : u.saved[b] \in Values  BY <2>2, Zenon
  <2>4. DOMAIN u = {"ready", "from", "to", "size", "saved"}  BY <2>1
  <2>5. u.ready \in BOOLEAN /\ u.from \in 0 .. MaxMoments /\ u.to \in Moments /\ u.size \in Blocks
      BY <2>1, Zenon
  <2> QED  BY <2>1, <2>3, <2>4, <2>5, Zenon DEF UndoOK
<1>3. \A i \in DOMAIN undo : UndoOK(undo[i]) /\ undo[i].ready
  <2>1. undo \in Seq(UndoType)  BY <1>1, Zenon DEF Types
  <2>2. \A i \in DOMAIN undo : undo[i] \in UndoType  BY <2>1
  <2> QED  BY <1>1, <1>2, <2>2, Zenon DEF Chain
<1>4. open # None => UndoOK(open)  BY <1>1, <1>2, Zenon DEF Types
<1>5. call.copy \in CopyType \cup {None} /\ call.from \in 0 .. Len(image)  BY <1>1, Zenon DEF Types
<1>6. job.at \in 0 .. Len(image) /\ job.rewind \in BOOLEAN /\ job.img \in Images \cup {None}
    BY <1>1, Zenon DEF Types
<1> QED  BY <1>1, <1>3, <1>4, <1>5, <1>6, ZenonT(40) DEF Types, Alone, TypeOK

\* The invariant lasts until a failover passes the lease of a call at work, and
\* what was passed stays on record.
GInv == Guarded => IInv
LEMMA GuardedStep ==
    ASSUME Constants, GInv, [Next]_vars
    PROVE  GInv'
<1>1. passed \subseteq passed'
  <2>1. ResolveVMs => passed \subseteq passed'  BY DEF ResolveVMs
  <2> QED  BY <2>1, Frame, Zenon
<1>2. Guarded' => Guarded  BY <1>1 DEF Guarded
<1> QED  BY <1>2, StepHolds DEF GInv

\* At every moment of a copy, of its recovery and of a failover, through any
\* number of stopped calls, the far site's disk rolled back from the undo file
\* is the source disk of one moment, and of the moment on record; until a
\* failover is planned while a copy call is at work.
THEOREM NeverMixedAlways == Spec => []NeverMixed
<1> USE ConstantsHold
<1>1. Init => GInv  BY InitHolds DEF GInv
<1>2. GInv /\ [Next]_vars => GInv'  BY GuardedStep
<1>3. IInv => TypeOK  BY IInvTyped, SMTT(20)
<1>4. ASSUME IInv, disk # None
      PROVE  IF Moment # 0 THEN Settled = image[Moment] ELSE \E m \in DOMAIN image : Settled = image[m]
  <2> USE <1>4
  <2>1. PICK m \in DOMAIN image : ShowsMoment(m)  BY SMTT(20) DEF IInv
  <2> USE <2>1
  <2>2. Moment \in {0, m}  BY DEF ShowsMoment, InTime
  <2>3. Settled = image[m]
    <3>1. CASE Ready
      <4> USE <3>1
      <4>1. Types /\ Journal(m)  BY DEF IInv, ShowsMoment
      <4>2. applyUndo(open, disk) = image[m]  BY <4>1, JournalRolls, SMTT(20)
      <4> QED  BY <4>2, SMTT(20) DEF Settled, Ready
    <3>2. CASE ~ Ready  BY <3>2 DEF Settled, Ready, ShowsMoment
    <3> QED  BY <3>1, <3>2, SMTT(20)
  <2> QED  BY <2>2, <2>3, SMTT(20)
<1>5. GInv => NeverMixed  BY <1>3, <1>4, ZenonT(40) DEF NeverMixed, GInv
<1> QED  BY <1>1, <1>2, <1>5, PTL DEF Spec

\* A failover through the receiver's folder hands the VM the source disk of the
\* very moment it chose, however many restore points it goes back through and
\* whatever was stopped before it, unless a failover was planned while a copy
\* call was at work: past its expired lease, or with --force past a live one.
THEOREM FailoverRightAlways == Spec => []FailoverRight
<1> USE ConstantsHold
<1>1. Init => GInv  BY InitHolds DEF GInv
<1>2. GInv /\ [Next]_vars => GInv'  BY GuardedStep
<1>3. GInv => FailoverRight  BY DEF GInv, IInv, JobPlace, FailoverRight, HandsOver
<1> QED  BY <1>1, <1>2, <1>3, PTL DEF Spec

=============================================================================
