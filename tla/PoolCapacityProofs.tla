------------------------- MODULE PoolCapacityProofs -------------------------
(***************************************************************************)
(* Proofs about PoolCapacity for any number of volumes, snapshots and      *)
(* shares, and any sizes.                                                  *)
(***************************************************************************)
EXTENDS PoolCapacity, TLAPS, FiniteSetTheorems

-----------------------------------------------------------------------------
(* What the tallies are *)

\* The gigabytes charged to a share by finitely many CRs are finitely many.
LEMMA BlocksFinite ==
    ASSUME NEW D, IsFiniteSet(D), NEW crs, DOMAIN crs = D, NEW s
    PROVE  IsFiniteSet(Blocks(crs, s))
<1>1. IsFiniteSet(1 .. MaxGB)
  BY FS_Interval, CapacityAssumption
<1>2. IsFiniteSet(D \X (1 .. MaxGB))
  BY <1>1, FS_Product, Zenon
<1>3. Blocks(crs, s) \subseteq D \X (1 .. MaxGB)
  BY DEF Blocks
<1> QED
  BY <1>2, <1>3, FS_Subset

\* A tally is a natural number.
LEMMA TallyNat ==
    ASSUME NEW D, IsFiniteSet(D), NEW crs, DOMAIN crs = D, NEW s
    PROVE  Tally(crs, s) \in Nat
BY BlocksFinite, FS_CardinalityType DEF Tally

\* A count is a natural number.
LEMMA CountNat ==
    ASSUME NEW D, IsFiniteSet(D), NEW crs, DOMAIN crs = D, NEW s
    PROVE  Count(crs, s) \in Nat
<1> DEFINE S == {v \in DOMAIN crs : crs[v].share = s /\ crs[v].gb > 0}
<1>1. IsFiniteSet(S)
  BY FS_Subset
<1> QED
  BY <1>1, FS_CardinalityType DEF Count

\* The recount of SubVolumes and Snapshots is a possible pool status.
LEMMA RecountType ==
    ASSUME NEW v \in [Volumes -> VolCR], NEW c \in [Snaps -> SnapCR]
    PROVE  Recount(v, c) \in [Shares -> Book]
<1>1. DOMAIN Charges(c) = Snaps /\ DOMAIN v = Volumes
  BY DEF Charges
<1>2. ASSUME NEW s \in Shares
      PROVE Tally(v, s) + Tally(Charges(c), s) \in Int /\ Count(v, s) \in Int
  <2>1. Tally(v, s) \in Nat /\ Count(v, s) \in Nat
    BY <1>1, TallyNat, CountNat, CapacityAssumption
  <2>2. Tally(Charges(c), s) \in Nat
    BY <1>1, TallyNat, CapacityAssumption
  <2> QED  BY <2>1, <2>2
<1> QED
  BY <1>2 DEF Recount, Book

-----------------------------------------------------------------------------
(* The inductive invariant *)

\* What each call under Manager.mu holds in its record.
CallOK ==
    /\ mu.op = "none" <=> mu.pc = "idle"
    /\ mu.op \in {"book", "unbook"} => mu.pc = "save"
    /\ mu.op = "reserve" => mu.name \in Volumes /\ mu.delta \in 1 .. MaxGB /\ mu.pvcs = 1
    /\ mu.op \in {"dealloc", "expand"} =>
          mu.name \in Volumes /\ mu.share = mu.was.share /\ mu.was.gb > 0
    /\ mu.op = "dealloc" => mu.delta = -mu.was.gb /\ mu.pvcs = -1
    /\ mu.op = "expand" =>
          mu.delta > 0 /\ mu.was.gb + mu.delta \in 1 .. MaxGB /\ mu.pvcs = 0
    /\ mu.op \in {"book", "unbook"} =>
          /\ mu.name \in Snaps /\ mu.pvcs = 0
          /\ snapCall[mu.name].pc = mu.op /\ mu.share = snapCall[mu.name].share
          /\ mu.delta = IF mu.op = "book" THEN SnapCharge(mu.name) ELSE -SnapCharge(mu.name)

\* A copy with the latest resourceVersion is the pool's status.
CopiesCurrent ==
    /\ "cache" \in current => poolCache = pool
    /\ "mu" \in current => muCopy = pool
    /\ "rec" \in current /\ rec.pc \in {"volumes", "snaps"} => rec.books = pool

\* A call that takes space has checked on its copy that there is room.
RoomChecked ==
    mu.op \in {"reserve", "expand", "book"} => muCopy[mu.share].alloc + mu.delta <= TotalGB

-----------------------------------------------------------------------------
(* Type correctness *)

\* A snapshot's charge is a size.
LEMMA ChargeType ==
    ASSUME NEW c \in SnapCR
    PROVE  snapshotChargeGB(c) \in 0 .. MaxGB
BY CapacityAssumption DEF snapshotChargeGB, instantChargeGB, SnapCR

\* So is the charge of a snapshot call.
LEMMA SnapChargeType ==
    ASSUME TypeOK, NEW n \in Snaps
    PROVE  SnapCharge(n) \in 0 .. MaxGB
BY ChargeType DEF TypeOK, SnapCharge, SnapCR, SnapCallType

\* The values that stand for "nothing" have their types.
LEMMA NothingType ==
    /\ NoBooks \in [Shares -> Book]
    /\ NoVol \in VolCR /\ NoSnap \in SnapCR
    /\ 1 \in Shares
BY CapacityAssumption DEF NoBooks, Book, NoVol, VolCR, NoSnap, SnapCR, Shares

\* A snapshot call that moves on, or is over, has its type.
LEMMA SnapCallStep ==
    ASSUME TypeOK, NEW n \in Snaps, NEW p \in {"idle", "book", "create", "unbook"}
    PROVE  [snapCall[n] EXCEPT !.pc = p] \in SnapCallType /\ IdleSnap \in SnapCallType
BY NothingType, CapacityAssumption DEF TypeOK, SnapCallType, IdleSnap

Typed == TypeOK /\ CallOK

\* The initial state has the right types.
LEMMA InitTyped == Init => Typed
BY NothingType, CapacityAssumption
   DEF Init, Typed, TypeOK, CallOK, NoCall, IdleSnap, IdlePass, CallType, SnapCallType, PassType, Holders

\* The record of a call is right on its own (the part of CallOK about mu alone).
GoodCall(c) ==
    /\ c \in CallType
    /\ c.op # "none" /\ c.pc # "idle"
    /\ c.op \in {"book", "unbook"} => c.pc = "save" /\ c.name \in Snaps /\ c.pvcs = 0
    /\ c.op = "reserve" => c.name \in Volumes /\ c.delta \in 1 .. MaxGB /\ c.pvcs = 1
    /\ c.op \in {"dealloc", "expand"} =>
          c.name \in Volumes /\ c.share = c.was.share /\ c.was.gb > 0
    /\ c.op = "dealloc" => c.delta = -c.was.gb /\ c.pvcs = -1
    /\ c.op = "expand" => c.delta > 0 /\ c.was.gb + c.delta \in 1 .. MaxGB /\ c.pvcs = 0

\* BeginCall with a good record keeps the types.
LEMMA BeginTyped ==
    ASSUME TypeOK, NEW c, GoodCall(c), BeginCall(c), UNCHANGED <<sv, snap, snapCall>>,
           calls' \in 0 .. MaxCalls, clean' \in BOOLEAN
    PROVE  TypeOK'
<1>1. rec' \in PassType
  BY Zenon DEF TypeOK, BeginCall, PassType
<1>2. mu' \in CallType
  BY DEF BeginCall, GoodCall
<1>3. current' \subseteq Holders
  BY DEF BeginCall, Holders, TypeOK
<1> QED
  BY <1>1, <1>2, <1>3 DEF BeginCall, TypeOK

\* Every step keeps the types, and the record of the call under Manager.mu.
LEMMA NextTyped == Typed /\ [Next]_vars => Typed'
<1> SUFFICES ASSUME Typed, [Next]_vars PROVE Typed'
  OBVIOUS
<1> USE NothingType, CapacityAssumption
<1>1. CASE VolumeCall
  <2>0. calls' \in 0 .. MaxCalls
    BY <1>1 DEF VolumeCall, Typed, TypeOK
  <2>a. ASSUME NEW v \in Volumes, NEW gb \in Sizes, NEW s \in Shares, NEW l \in SUBSET Volumes,
               Reserve(v, gb, s, l), clean' \in BOOLEAN
        PROVE Typed'
    <3> DEFINE c == [op |-> "reserve", pc |-> "cr", name |-> v, share |-> s, delta |-> gb,
                     pvcs |-> 1, was |-> NoVol, locks |-> l]
    <3>1. GoodCall(c) /\ c.op = "reserve"
      BY DEF GoodCall, CallType
    <3>2. TypeOK'
      BY <3>1, <2>0, <2>a, BeginTyped DEF Reserve, Typed
    <3>3. mu' = c
      BY <2>a DEF Reserve, BeginCall
    <3> QED
      BY <3>1, <3>2, <3>3 DEF Typed, CallOK, GoodCall
  <2>1. ASSUME NEW v \in Volumes, NEW gb \in Sizes, Allocate(v, gb) PROVE Typed'
    <3>1. clean' \in BOOLEAN
      BY <2>1 DEF Allocate, StaysClean
    <3>2. PICK s \in Shares : Reserve(v, gb, s, {})
      BY <2>1 DEF Allocate, selectShare
    <3> QED
      BY <3>1, <3>2, <2>a
  <2>2. ASSUME NEW v \in Volumes, NEW gb \in Sizes, NEW n \in Snaps, RestoreSnapshot(v, n, gb) PROVE Typed'
    <3>1. clean' \in BOOLEAN
      BY <2>2 DEF RestoreSnapshot, StaysClean
    <3>2. PICK s \in Shares : Reserve(v, gb, s, {v})
      BY <2>2 DEF RestoreSnapshot, selectShare
    <3> QED
      BY <3>1, <3>2, <2>a
  <2>3. ASSUME NEW v \in Volumes, NEW gb \in Sizes, NEW w \in Volumes, CloneVolume(v, w, gb) PROVE Typed'
    <3>1. clean' \in BOOLEAN
      BY <2>3 DEF CloneVolume, StaysClean
    <3>2. PICK s \in Shares : Reserve(v, gb, s, {w})
      BY <2>3 DEF CloneVolume, selectShareForClone, selectShare, Typed, TypeOK, VolCR
    <3> QED
      BY <3>1, <3>2, <2>a
  <2>4. ASSUME NEW v \in Volumes, NEW gb \in Sizes, Expand(v, gb) PROVE Typed'
    <3> DEFINE c == [op |-> "expand", pc |-> "cr", name |-> v, share |-> svCache[v].share,
                     delta |-> gb - svCache[v].gb, pvcs |-> 0, was |-> svCache[v], locks |-> {}]
    <3>1. clean' \in BOOLEAN
      BY <2>4 DEF Expand, StaysClean
    <3>2. svCache[v] \in VolCR /\ svCache[v].gb > 0 /\ gb > svCache[v].gb
      BY <2>4 DEF Expand, Typed, TypeOK
    <3>a. gb \in Nat /\ gb <= MaxGB /\ svCache[v].gb \in Nat /\ MaxGB \in Nat
      BY <3>2 DEF VolCR
    <3>b. gb - svCache[v].gb > 0 /\ svCache[v].gb + (gb - svCache[v].gb) \in 1 .. MaxGB
      BY <3>2, <3>a
    <3>c. c \in CallType
      BY <3>2, <3>a DEF CallType, VolCR
    <3>3. GoodCall(c) /\ c.op = "expand"
      BY <3>2, <3>b, <3>c, Zenon DEF GoodCall
    <3>4. BeginCall(c) /\ UNCHANGED <<sv, snap, snapCall>>
      BY <2>4 DEF Expand
    <3>5. TypeOK'
      BY <3>1, <3>3, <3>4, <2>0, BeginTyped DEF Typed
    <3>6. mu' = c
      BY <3>4, Zenon DEF BeginCall
    <3> QED
      BY <3>3, <3>5, <3>6, Zenon DEF Typed, CallOK, GoodCall
  <2>5. ASSUME NEW v \in Volumes, Deallocate(v) PROVE Typed'
    <3> DEFINE c == [op |-> "dealloc", pc |-> "cr", name |-> v, share |-> svCache[v].share,
                     delta |-> -svCache[v].gb, pvcs |-> -1, was |-> svCache[v], locks |-> {v}]
    <3>1. clean' \in BOOLEAN
      BY <2>5 DEF Deallocate, StaysClean
    <3>2. svCache[v] \in VolCR /\ svCache[v].gb > 0
      BY <2>5, Zenon DEF Deallocate, Typed, TypeOK
    <3>3. GoodCall(c) /\ c.op = "dealloc"
      BY <3>2 DEF GoodCall, CallType, VolCR
    <3>4. BeginCall(c) /\ UNCHANGED <<sv, snap, snapCall>>
      BY <2>5 DEF Deallocate
    <3>5. TypeOK'
      BY <3>1, <3>3, <3>4, <2>0, BeginTyped DEF Typed
    <3>6. mu' = c
      BY <3>4 DEF BeginCall
    <3> QED
      BY <3>3, <3>5, <3>6 DEF Typed, CallOK, GoodCall
  <2> QED
    BY <1>1, <2>1, <2>2, <2>3, <2>4, <2>5 DEF VolumeCall
<1>2. CASE SnapshotCall
  <2>0. calls' \in 0 .. MaxCalls
    BY <1>2 DEF SnapshotCall, Typed, TypeOK
  <2>1. ASSUME NEW n \in Snaps, NEW i \in BOOLEAN, CreateSnapshot(n, i) PROVE Typed'
    <3>1. snapCall[n].pc = "idle"
      BY <2>1 DEF CreateSnapshot, VolumeLocked
    <3>2. snapCall' \in [Snaps -> SnapCallType]
      BY <2>1 DEF CreateSnapshot, Typed, TypeOK, SnapCallType, VolCR
    <3>3. \A x \in Snaps \ {n} : snapCall'[x] = snapCall[x]
      BY <2>1 DEF CreateSnapshot, Typed, TypeOK
    <3>4. mu.op \in {"book", "unbook"} => mu.name # n
      BY <3>1 DEF Typed, CallOK
    <3> QED
      BY <3>2, <3>3, <3>4, <2>0, <2>1, Zenon DEF CreateSnapshot, Typed, TypeOK, CallOK, SnapCharge
  <2>2. ASSUME NEW n \in Snaps, DeleteSnapshot(n) PROVE Typed'
    <3>1. snapCall[n].pc = "idle"
      BY <2>2 DEF DeleteSnapshot, VolumeLocked
    <3>2. snapCall' \in [Snaps -> SnapCallType]
      BY <2>2 DEF DeleteSnapshot, Typed, TypeOK, SnapCallType, SnapCR
    <3>3. \A x \in Snaps \ {n} : snapCall'[x] = snapCall[x]
      BY <2>2 DEF DeleteSnapshot, Typed, TypeOK
    <3>4. mu.op \in {"book", "unbook"} => mu.name # n
      BY <3>1 DEF Typed, CallOK
    <3>5. rec' \in PassType /\ snap' \in [Snaps -> SnapCR]
      BY <2>2, Zenon DEF DeleteSnapshot, Typed, TypeOK, PassType
    <3>6. clean' \in BOOLEAN
      BY <2>2 DEF DeleteSnapshot
    <3> QED
      BY <3>2, <3>3, <3>4, <3>5, <3>6, <2>0, <2>2 DEF DeleteSnapshot, Typed, TypeOK, CallOK, SnapCharge
  <2> QED
    BY <1>2, <2>1, <2>2 DEF SnapshotCall
<1>3. CASE SnapshotStep
  <2>0. calls' \in 0 .. MaxCalls
    BY <1>3, Zenon DEF SnapshotStep, Typed, TypeOK
  <2>1. ASSUME NEW n \in Snaps, bookShare(n) PROVE Typed'
    <3> DEFINE c == [op |-> "book", pc |-> "save", name |-> n, share |-> snapCall[n].share,
                     delta |-> SnapCharge(n), pvcs |-> 0, was |-> NoVol, locks |-> {}]
    <3>1. clean' \in BOOLEAN
      BY <2>1 DEF bookShare, StaysClean
    <3>2. SnapCharge(n) \in Int /\ snapCall[n].share \in Shares /\ snapCall[n].pc = "book"
      BY <2>1, SnapChargeType DEF bookShare, Typed, TypeOK, SnapCallType
    <3>a. c \in CallType
      BY <3>2 DEF CallType
    <3>3. GoodCall(c)
      BY <3>a, Zenon DEF GoodCall
    <3>4. BeginCall(c) /\ UNCHANGED <<sv, snap, snapCall>>
      BY <2>1 DEF bookShare
    <3>5. TypeOK'
      BY <3>1, <3>3, <3>4, <2>0, BeginTyped DEF Typed
    <3>6. mu' = c /\ snapCall' = snapCall
      BY <3>4, Zenon DEF BeginCall
    <3> QED
      BY <3>2, <3>5, <3>6 DEF Typed, CallOK, SnapCharge
  <2>2. ASSUME NEW n \in Snaps, unbookShare(n) PROVE Typed'
    <3> DEFINE c == [op |-> "unbook", pc |-> "save", name |-> n, share |-> snapCall[n].share,
                     delta |-> -SnapCharge(n), pvcs |-> 0, was |-> NoVol, locks |-> {}]
    <3>1. clean' \in BOOLEAN
      BY <2>2 DEF unbookShare, StaysClean
    <3>2. SnapCharge(n) \in Int /\ snapCall[n].share \in Shares /\ snapCall[n].pc = "unbook"
      BY <2>2, SnapChargeType DEF unbookShare, Typed, TypeOK, SnapCallType
    <3>a. c \in CallType
      BY <3>2 DEF CallType
    <3>3. GoodCall(c)
      BY <3>a, Zenon DEF GoodCall
    <3>4. BeginCall(c) /\ UNCHANGED <<sv, snap, snapCall>>
      BY <2>2 DEF unbookShare
    <3>5. TypeOK'
      BY <3>1, <3>3, <3>4, <2>0, BeginTyped DEF Typed
    <3>6. mu' = c /\ snapCall' = snapCall
      BY <3>4, Zenon DEF BeginCall
    <3> QED
      BY <3>2, <3>5, <3>6, Zenon DEF Typed, CallOK, SnapCharge
  <2>3. ASSUME NEW n \in Snaps, bookRefused(n) PROVE Typed'
    <3>1. mu.op = "none" /\ mu' = mu
      BY <2>3 DEF bookRefused, MuFree
    <3>2. snapCall' \in [Snaps -> SnapCallType]
      BY <2>3 DEF bookRefused, IdleSnap, Typed, TypeOK, SnapCallType
    <3> QED
      BY <3>1, <3>2, <2>0, <2>3 DEF bookRefused, Typed, TypeOK, CallOK
  <2>4. ASSUME NEW n \in Snaps, CreateSnapshotCR(n) PROVE Typed'
    <3>1. snapCall[n].pc = "create" /\ mu' = mu
      BY <2>4 DEF CreateSnapshotCR
    <3>2. snapCall' \in [Snaps -> SnapCallType]
      <4>1. \/ snapCall' = [snapCall EXCEPT ![n] = IdleSnap]
            \/ snapCall' = [snapCall EXCEPT ![n] = [snapCall[n] EXCEPT !.pc = "unbook"]]
        BY <2>4 DEF CreateSnapshotCR, Typed, TypeOK
      <4>2. [snapCall[n] EXCEPT !.pc = "unbook"] \in SnapCallType /\ IdleSnap \in SnapCallType
        BY SnapCallStep, Zenon DEF Typed
      <4>3. snapCall \in [Snaps -> SnapCallType]
        BY DEF Typed, TypeOK
      <4> QED
        BY <4>1, <4>2, <4>3
    <3>3. \A x \in Snaps \ {n} : snapCall'[x] = snapCall[x]
      BY <2>4 DEF CreateSnapshotCR, Typed, TypeOK
    <3>4. mu.op \in {"book", "unbook"} => mu.name # n
      BY <3>1 DEF Typed, CallOK
    <3>5. snap' \in [Snaps -> SnapCR]
      BY <2>4 DEF CreateSnapshotCR, Typed, TypeOK, SnapCallType, SnapCR
    <3>6. faults' \in 0 .. MaxFaults
      BY <2>4 DEF CreateSnapshotCR, Refused, Fault, Typed, TypeOK
    <3> QED
      BY <3>1, <3>2, <3>3, <3>4, <3>5, <3>6, <2>0, <2>4
      DEF CreateSnapshotCR, Typed, TypeOK, CallOK, SnapCharge
  <2> QED
    BY <1>3, <2>1, <2>2, <2>3, <2>4 DEF SnapshotStep
<1>4. CASE ManagerStep
  <2>0. calls' \in 0 .. MaxCalls
    BY <1>4 DEF ManagerStep, Typed, TypeOK
  <2>1. NoCall \in CallType /\ NoCall.op = "none" /\ NoCall.pc = "idle"
    BY DEF NoCall, CallType
  <2>2. ASSUME CreateSubVolume \/ DeleteSubVolume \/ UpdateSubVolume PROVE Typed'
    <3>1. sv' \in [Volumes -> VolCR]
      <4>1. CASE CreateSubVolume
        <5>1. mu.op = "reserve" => [share |-> mu.share, gb |-> mu.delta] \in VolCR
          BY DEF Typed, TypeOK, CallOK, CallType, VolCR
        <5> QED
          BY <4>1, <5>1 DEF CreateSubVolume, Typed, TypeOK
      <4>2. CASE DeleteSubVolume
        BY <4>2 DEF DeleteSubVolume, Typed, TypeOK
      <4>3. CASE UpdateSubVolume
        <5>1. mu.op = "expand" => mu.name \in Volumes /\ mu.was.gb + mu.delta \in 0 .. MaxGB
          BY DEF Typed, CallOK
        <5>2. mu.op = "expand" => [sv[mu.name] EXCEPT !.gb = mu.was.gb + mu.delta] \in VolCR
          BY <5>1 DEF Typed, TypeOK, VolCR
        <5>3. sv' = sv \/ sv' = [sv EXCEPT ![mu.name] = [sv[mu.name] EXCEPT !.gb = mu.was.gb + mu.delta]]
          BY <4>3, <5>1 DEF UpdateSubVolume, Typed, TypeOK
        <5>4. mu.op = "expand"
          BY <4>3 DEF UpdateSubVolume
        <5> QED
          BY <5>2, <5>3, <5>4 DEF Typed, TypeOK
      <4> QED
        BY <2>2, <4>1, <4>2, <4>3
    <3>2. faults' \in 0 .. MaxFaults
      BY <2>2 DEF CreateSubVolume, DeleteSubVolume, UpdateSubVolume, Refused, Fault, Typed, TypeOK
    <3>3. /\ UNCHANGED <<pool, snap, poolCache, svCache, snapCache, snapCall, rec, clean>>
          /\ current' \subseteq current
          /\ muCopy' \in {muCopy, NoBooks}
          /\ mu.op \in {"reserve", "dealloc", "expand"}
          /\ mu' = NoCall \/ mu' = [mu EXCEPT !.pc = "save"]
      BY <2>2 DEF CreateSubVolume, DeleteSubVolume, UpdateSubVolume, EndCall
    <3>4. TypeOK'
      BY <2>0, <2>1, <3>1, <3>2, <3>3 DEF Typed, TypeOK, CallType
    <3>5. CASE mu' = NoCall
      BY <2>1, <3>4, <3>5 DEF Typed, CallOK
    <3>6. CASE mu' = [mu EXCEPT !.pc = "save"]
      BY <3>3, <3>4, <3>6, ZenonT(40) DEF Typed, TypeOK, CallOK, CallType
    <3> QED
      BY <3>3, <3>5, <3>6
  <2>3. ASSUME SaveStatus \/ LoseStatus PROVE Typed'
    <3>1. snapCall' \in [Snaps -> SnapCallType]
      <4>1. snapCall' = SnapAfter(TRUE) \/ snapCall' = SnapAfter(FALSE)
        BY <2>3, Zenon DEF SaveStatus, LoseStatus
      <4>2. \/ snapCall' = snapCall
            \/ mu.name \in Snaps /\ snapCall' = [snapCall EXCEPT ![mu.name] = IdleSnap]
            \/ mu.name \in Snaps /\ snapCall' = [snapCall EXCEPT ![mu.name] = [snapCall[mu.name] EXCEPT !.pc = "create"]]
        BY <4>1 DEF SnapAfter, Typed, TypeOK, CallOK
      <4>3. mu.name \in Snaps => /\ [snapCall[mu.name] EXCEPT !.pc = "create"] \in SnapCallType
                                 /\ IdleSnap \in SnapCallType
        BY SnapCallStep, Zenon DEF Typed
      <4>4. snapCall \in [Snaps -> SnapCallType]
        BY DEF Typed, TypeOK
      <4> QED
        BY <4>2, <4>3, <4>4
    <3>2. faults' \in 0 .. MaxFaults
      <4>1. UNCHANGED faults \/ Fault
        BY <2>3, Zenon DEF SaveStatus, LoseStatus, Refused
      <4> QED
        BY <4>1 DEF Fault, Typed, TypeOK
    <3>3. clean' \in BOOLEAN
      BY <2>3, Zenon DEF SaveStatus, LoseStatus, Typed, TypeOK
    <3>4. pool' \in [Shares -> Book]
      <4>1. pool' = pool \/ pool' = Charged(muCopy, mu.share, mu.delta, mu.pvcs)
        BY <2>3, Zenon DEF SaveStatus, LoseStatus
      <4>2. mu.share \in Shares /\ mu.delta \in Int /\ mu.pvcs \in Int /\ muCopy \in [Shares -> Book]
        BY DEF Typed, TypeOK, CallType
      <4>3. [alloc |-> muCopy[mu.share].alloc + mu.delta, pvc |-> muCopy[mu.share].pvc + mu.pvcs] \in Book
        BY <4>2 DEF Book
      <4> QED
        BY <4>1, <4>2, <4>3 DEF Charged, Typed, TypeOK
    <3>5. /\ UNCHANGED <<sv, snap, poolCache, svCache, snapCache, rec>>
          /\ current' \subseteq current
          /\ muCopy' = NoBooks
          /\ mu' = NoCall
      BY <2>3, Zenon DEF SaveStatus, LoseStatus, EndCall
    <3>6. TypeOK'
      BY <2>0, <2>1, <3>1, <3>2, <3>3, <3>4, <3>5 DEF Typed, TypeOK
    <3> QED
      BY <2>1, <3>5, <3>6 DEF Typed, CallOK
  <2> QED
    BY <1>4, <2>2, <2>3 DEF ManagerStep
<1>5. CASE Pass
  <2>0. calls' \in 0 .. MaxCalls
    BY <1>5 DEF Pass, Typed, TypeOK
  <2>1. UNCHANGED <<sv, snap, poolCache, svCache, snapCache, mu, muCopy, snapCall>>
    BY <1>5, Zenon DEF Pass, Reconcile, ListSubVolumes, ListSnapshots, ListFails, SavePass
  <2>2. CallOK'
    BY <2>1 DEF Typed, CallOK, SnapCharge
  <2>3. faults' \in 0 .. MaxFaults
    BY <1>5 DEF Pass, Reconcile, ListSubVolumes, ListSnapshots, ListFails, SavePass, Refused, Fault, Typed, TypeOK
  <2>4. clean' \in BOOLEAN
    BY <1>5, Zenon DEF Pass, Reconcile, ListSubVolumes, ListSnapshots, ListFails, SavePass, Typed, TypeOK, PassType
  <2>5. IdlePass \in PassType
    BY DEF IdlePass, PassType
  <2>6. rec' \in PassType
    <3>1. CASE Reconcile
      BY <2>5, <3>1, Zenon DEF Reconcile, Typed, TypeOK, PassType
    <3>2. CASE ListSubVolumes
      BY <3>2, Zenon DEF ListSubVolumes, Typed, TypeOK, PassType
    <3>3. CASE ListSnapshots
      <4>1. Recount(rec.vols, snapCache) \in [Shares -> Book]
        BY RecountType DEF Typed, TypeOK, PassType
      <4> QED
        BY <3>3, <4>1, Zenon DEF ListSnapshots, Typed, TypeOK, PassType
    <3>4. CASE ListFails
      BY <3>4, Zenon DEF ListFails, Typed, TypeOK, PassType
    <3>5. CASE SavePass
      BY <2>5, <3>5 DEF SavePass
    <3> QED
      BY <1>5, <3>1, <3>2, <3>3, <3>4, <3>5 DEF Pass
  <2>7. pool' \in [Shares -> Book] /\ current' \subseteq Holders
    BY <1>5 DEF Pass, Reconcile, ListSubVolumes, ListSnapshots, ListFails, SavePass, Typed, TypeOK, PassType, Holders
  <2> QED
    BY <2>0, <2>1, <2>2, <2>3, <2>4, <2>6, <2>7 DEF Typed, TypeOK
<1>6. CASE OtherWrite \/ SyncPool \/ SyncVolumes \/ SyncSnaps \/ UNCHANGED vars
  <2>a. CASE OtherWrite
    <3>1. CallOK'
      BY <2>a DEF OtherWrite, Typed, CallOK, SnapCharge
    <3>2. TypeOK'
      BY <2>a DEF OtherWrite, Typed, TypeOK
    <3> QED
      BY <3>1, <3>2, Zenon DEF Typed
  <2>b. CASE SyncPool
    <3>1. CallOK'
      BY <2>b, Zenon DEF SyncPool, Typed, CallOK, SnapCharge
    <3>2. TypeOK'
      BY <2>b, Zenon DEF SyncPool, Typed, TypeOK, Holders
    <3> QED
      BY <3>1, <3>2 DEF Typed
  <2>c. CASE SyncVolumes
    <3>1. CallOK'
      BY <2>c DEF SyncVolumes, Typed, CallOK, SnapCharge
    <3>2. TypeOK'
      BY <2>c, Zenon DEF SyncVolumes, Typed, TypeOK
    <3> QED
      BY <3>1, <3>2 DEF Typed
  <2>d. CASE SyncSnaps
    <3>1. CallOK'
      BY <2>d DEF SyncSnaps, Typed, CallOK, SnapCharge
    <3>2. TypeOK'
      BY <2>d DEF SyncSnaps, Typed, TypeOK
    <3> QED
      BY <3>1, <3>2 DEF Typed
  <2>e. CASE UNCHANGED vars
    BY <2>e, ZenonT(40) DEF vars, Typed, TypeOK, CallOK, SnapCharge
  <2> QED
    BY <1>6, <2>a, <2>b, <2>c, <2>d, <2>e
<1>7. CASE Restart
  <2>1. NoCall \in CallType /\ NoCall.op = "none" /\ NoCall.pc = "idle"
    BY DEF NoCall, CallType
  <2>2. IdlePass \in PassType /\ IdleSnap \in SnapCallType
    BY DEF IdlePass, PassType, IdleSnap, SnapCallType
  <2>3. clean' \in BOOLEAN /\ faults' \in 0 .. MaxFaults
    BY <1>7 DEF Restart, Fault, Typed, TypeOK
  <2>4. TypeOK'
    BY <1>7, <2>1, <2>2, <2>3 DEF Restart, Typed, TypeOK, Holders
  <2> QED
    BY <1>7, <2>1, <2>4 DEF Restart, Typed, CallOK
<1> QED
  BY <1>1, <1>2, <1>3, <1>4, <1>5, <1>6, <1>7 DEF Next

\* TypeOK: every variable keeps its type, whatever is stale, lost or restarted.
THEOREM TypeCorrect == Spec => []TypeOK
<1>1. Init => Typed
  BY InitTyped
<1>2. Typed /\ [Next]_vars => Typed'
  BY NextTyped
<1>3. Typed => TypeOK
  BY DEF Typed
<1> QED
  BY <1>1, <1>2, <1>3, PTL DEF Spec

-----------------------------------------------------------------------------
(* Optimistic concurrency: an accepted update was computed from the latest *)
(* status.                                                                 *)

\* Every call on a volume starts by taking Manager.mu and reading the pool.
LEMMA VolumeCallBegins == VolumeCall => \E c : BeginCall(c)
<1> SUFFICES ASSUME VolumeCall PROVE \E c : BeginCall(c)
  OBVIOUS
<1>a. ASSUME NEW v, NEW gb, NEW s, NEW l, Reserve(v, gb, s, l) PROVE \E c : BeginCall(c)
  BY <1>a DEF Reserve
<1>1. ASSUME NEW v, NEW gb, Allocate(v, gb) PROVE \E c : BeginCall(c)
  BY <1>a, <1>1 DEF Allocate
<1>2. ASSUME NEW v, NEW gb, NEW n, RestoreSnapshot(v, n, gb) PROVE \E c : BeginCall(c)
  BY <1>a, <1>2 DEF RestoreSnapshot
<1>3. ASSUME NEW v, NEW gb, NEW w, CloneVolume(v, w, gb) PROVE \E c : BeginCall(c)
  BY <1>a, <1>3, Zenon DEF CloneVolume
<1>4. ASSUME NEW v, NEW gb, Expand(v, gb) PROVE \E c : BeginCall(c)
  BY <1>4, Zenon DEF Expand
<1>5. ASSUME NEW v, Deallocate(v) PROVE \E c : BeginCall(c)
  BY <1>5 DEF Deallocate
<1> QED
  BY <1>1, <1>2, <1>3, <1>4, <1>5 DEF VolumeCall

\* Every step keeps the copies that count as current equal to the pool's status.
LEMMA CopiesStep == Typed /\ CopiesCurrent /\ [Next]_vars => CopiesCurrent'
<1> SUFFICES ASSUME Typed, CopiesCurrent, [Next]_vars PROVE CopiesCurrent'
  OBVIOUS
<1> USE DEF CopiesCurrent
<1>a. ASSUME NEW c, BeginCall(c) PROVE CopiesCurrent'
  BY <1>a DEF BeginCall, Typed, TypeOK, PassType
<1>1. CASE VolumeCall
  BY <1>1, <1>a, VolumeCallBegins
<1>2. CASE SnapshotCall
  BY <1>2 DEF SnapshotCall, CreateSnapshot, DeleteSnapshot, Typed, TypeOK, PassType
<1>3. CASE SnapshotStep
  BY <1>3, <1>a, Zenon DEF SnapshotStep, bookShare, bookRefused, CreateSnapshotCR, unbookShare
<1>4. CASE ManagerStep
  BY <1>4, Zenon DEF ManagerStep, CreateSubVolume, DeleteSubVolume, UpdateSubVolume, SaveStatus, LoseStatus, EndCall
<1>5. CASE Pass
  BY <1>5, ZenonT(40) DEF Pass, Reconcile, ListSubVolumes, ListSnapshots, ListFails, SavePass, IdlePass,
     Typed, TypeOK, PassType
<1>6. CASE OtherWrite \/ SyncPool \/ SyncVolumes \/ SyncSnaps \/ Restart \/ UNCHANGED vars
  BY <1>6, Zenon DEF OtherWrite, SyncPool, SyncVolumes, SyncSnaps, Restart, vars
<1> QED
  BY <1>1, <1>2, <1>3, <1>4, <1>5, <1>6 DEF Next

\* Every step keeps that a call which takes space has found room on its copy.
LEMMA RoomStep == Typed /\ RoomChecked /\ [Next]_vars => RoomChecked'
<1> SUFFICES ASSUME Typed, RoomChecked, [Next]_vars PROVE RoomChecked'
  OBVIOUS
<1> USE DEF RoomChecked
<1>0. poolCache \in [Shares -> Book] /\ TotalGB \in Int
  BY CapacityAssumption DEF Typed, TypeOK
<1>a. ASSUME NEW v, NEW gb \in Sizes, NEW s \in Shares, NEW l, Reserve(v, gb, s, l),
             Free(poolCache, s) >= gb
      PROVE RoomChecked'
  BY <1>0, <1>a, CapacityAssumption DEF Reserve, BeginCall, Free, Book
<1>1. CASE VolumeCall
  <2>1. ASSUME NEW v \in Volumes, NEW gb \in Sizes, Allocate(v, gb) PROVE RoomChecked'
    BY <2>1, <1>a, Zenon DEF Allocate, selectShare
  <2>2. ASSUME NEW v \in Volumes, NEW gb \in Sizes, NEW n \in Snaps, RestoreSnapshot(v, n, gb)
        PROVE RoomChecked'
    BY <2>2, <1>a DEF RestoreSnapshot, selectShare
  <2>3. ASSUME NEW v \in Volumes, NEW gb \in Sizes, NEW w \in Volumes, CloneVolume(v, w, gb)
        PROVE RoomChecked'
    <3>1. svCache[w].share \in Shares
      BY Zenon DEF Typed, TypeOK, VolCR
    <3>2. PICK s \in Shares : Reserve(v, gb, s, {w}) /\ Free(poolCache, s) >= gb
      BY <2>3, <3>1 DEF CloneVolume, selectShareForClone, selectShare
    <3> QED
      BY <3>2, <1>a
  <2>4. ASSUME NEW v \in Volumes, NEW gb \in Sizes, Expand(v, gb) PROVE RoomChecked'
    <3>1. svCache[v].share \in Shares /\ svCache[v].gb \in Int /\ gb \in Int
      BY CapacityAssumption DEF Typed, TypeOK, VolCR
    <3> QED
      BY <1>0, <2>4, <3>1 DEF Expand, BeginCall, Free, Book
  <2>5. ASSUME NEW v \in Volumes, Deallocate(v) PROVE RoomChecked'
    BY <2>5 DEF Deallocate, BeginCall
  <2> QED
    BY <1>1, <2>1, <2>2, <2>3, <2>4, <2>5, Zenon DEF VolumeCall
<1>2. CASE SnapshotCall
  BY <1>2 DEF SnapshotCall, CreateSnapshot, DeleteSnapshot
<1>3. CASE SnapshotStep
  <2>1. ASSUME NEW n \in Snaps, bookShare(n) PROVE RoomChecked'
    <3>1. SnapCharge(n) \in Int /\ snapCall[n].share \in Shares
      BY SnapChargeType DEF Typed, TypeOK, SnapCallType
    <3> QED
      BY <1>0, <2>1, <3>1 DEF bookShare, BeginCall, Free, Book
  <2>2. ASSUME NEW n \in Snaps, unbookShare(n) PROVE RoomChecked'
    BY <2>2 DEF unbookShare, BeginCall
  <2>3. ASSUME NEW n \in Snaps, bookRefused(n) \/ CreateSnapshotCR(n) PROVE RoomChecked'
    BY <2>3 DEF bookRefused, CreateSnapshotCR
  <2> QED
    BY <1>3, <2>1, <2>2, <2>3 DEF SnapshotStep
<1>4. CASE ManagerStep
  <2>1. mu' = NoCall \/ (mu' = [mu EXCEPT !.pc = "save"] /\ muCopy' = muCopy)
    BY <1>4, ZenonT(40) DEF ManagerStep, CreateSubVolume, DeleteSubVolume, UpdateSubVolume, SaveStatus, LoseStatus, EndCall
  <2>2. CASE mu' = NoCall
    BY <2>2 DEF NoCall
  <2>3. CASE mu' = [mu EXCEPT !.pc = "save"] /\ muCopy' = muCopy
    BY <2>3 DEF Typed, TypeOK, CallType
  <2> QED
    BY <2>1, <2>2, <2>3
<1>5. CASE Pass
  BY <1>5 DEF Pass, Reconcile, ListSubVolumes, ListSnapshots, ListFails, SavePass
<1>6. CASE OtherWrite \/ SyncPool \/ SyncVolumes \/ SyncSnaps \/ UNCHANGED vars
  <2>1. mu' = mu /\ muCopy' = muCopy
    BY <1>6, Zenon DEF OtherWrite, SyncPool, SyncVolumes, SyncSnaps, vars
  <2> QED
    BY <2>1, Zenon
<1>7. CASE Restart
  <2>1. mu'.op = "none"
    BY <1>7 DEF Restart, NoCall
  <2> QED
    BY <2>1, Zenon
<1> QED
  BY <1>1, <1>2, <1>3, <1>4, <1>5, <1>6, <1>7, Zenon DEF Next

\* ManagerUpdateFits: a status update of the Manager (Allocate, CloneVolume,
\* reserveRestore, Expand, bookShare) never raises AllocatedGB above the size of
\* the share, with any staleness of the cache and any interleaving of passes.
THEOREM UpdateFits == Spec => ManagerUpdateFits
<1> DEFINE Inv == Typed /\ CopiesCurrent /\ RoomChecked
<1>1. Init => Inv
  <2> SUFFICES ASSUME Init PROVE Inv
    OBVIOUS
  <2>1. CopiesCurrent
    BY Zenon DEF Init, CopiesCurrent, IdlePass
  <2>2. RoomChecked
    BY DEF Init, RoomChecked, NoCall
  <2> QED
    BY <2>1, <2>2, InitTyped
<1>2. Inv /\ [Next]_vars => Inv'
  BY NextTyped, CopiesStep, RoomStep
<1>3. Inv /\ [Next]_vars =>
        [\A s \in Shares : mu.pc = "save" /\ mu'.pc = "idle" /\ pool'[s].alloc > pool[s].alloc
                              => pool'[s].alloc <= TotalGB]_vars
  <2> SUFFICES ASSUME Inv, [Next]_vars, NEW s \in Shares,
                      mu.pc = "save", mu'.pc = "idle", pool'[s].alloc > pool[s].alloc
               PROVE  pool'[s].alloc <= TotalGB
    OBVIOUS
  <2>0. pool \in [Shares -> Book] /\ mu \in CallType /\ muCopy \in [Shares -> Book]
    BY DEF Typed, TypeOK
  <2>1. CASE SaveStatus
    <3>1. muCopy = pool
      BY <2>1, Zenon DEF SaveStatus, CopiesCurrent
    <3>2. s = mu.share /\ pool'[s].alloc = pool[s].alloc + mu.delta
      BY <2>0, <2>1, <3>1 DEF SaveStatus, Charged, Book, CallType
    <3>3. mu.delta > 0
      BY <2>0, <3>2 DEF Book, CallType
    <3>4. mu.op \in {"reserve", "expand", "book"}
      <4>1. mu.op # "none" 
        BY Zenon DEF Typed, CallOK
      <4>2. mu.op # "dealloc"
        BY <2>0, <3>3 DEF Typed, CallOK, CallType, VolCR
      <4>3. mu.op # "unbook"
        BY <2>0, <3>3, SnapChargeType DEF Typed, CallOK
      <4> QED
        BY <2>0, <4>1, <4>2, <4>3, Zenon DEF CallType
    <3> QED
      BY <3>1, <3>2, <3>4 DEF RoomChecked
  <2>2. CASE ~SaveStatus
    <3>1. CASE VolumeCall \/ SnapshotCall \/ SnapshotStep
      <4>a. ASSUME NEW c, BeginCall(c) PROVE pool' = pool
        BY <4>a DEF BeginCall
      <4>1. CASE VolumeCall
        <5>1. MuFree
          BY <4>1, VolumeCallBegins DEF BeginCall
        <5> QED
          BY <5>1 DEF MuFree, Typed, CallOK
      <4>2. CASE SnapshotCall
        <5>1. pool' = pool
          BY <4>2 DEF SnapshotCall, CreateSnapshot, DeleteSnapshot
        <5> QED
          BY <2>0, <5>1 DEF Book
      <4>3. CASE SnapshotStep
        <5>1. pool' = pool
          BY <4>a, <4>3, Zenon DEF SnapshotStep, bookShare, bookRefused, CreateSnapshotCR, unbookShare
        <5> QED
          BY <2>0, <5>1 DEF Book
      <4> QED
        BY <3>1, <4>1, <4>2, <4>3
    <3>2. CASE ManagerStep
      <4>1. pool' = pool
        BY <2>2, <3>2, Zenon DEF ManagerStep, CreateSubVolume, DeleteSubVolume, UpdateSubVolume, LoseStatus
      <4> QED
        BY <2>0, <4>1 DEF Book
    <3>3. CASE Pass
      <4>1. mu' = mu
        BY <3>3, Zenon DEF Pass, Reconcile, ListSubVolumes, ListSnapshots, ListFails, SavePass
      <4> QED
        BY <4>1
    <3>4. CASE OtherWrite \/ SyncPool \/ SyncVolumes \/ SyncSnaps \/ Restart \/ UNCHANGED vars
      <4>1. pool' = pool
        BY <3>4 DEF OtherWrite, SyncPool, SyncVolumes, SyncSnaps, Restart, vars
      <4> QED
        BY <2>0, <4>1 DEF Book
    <3> QED
      BY <3>1, <3>2, <3>3, <3>4 DEF Next
  <2> QED
    BY <2>1, <2>2
<1> QED
  BY <1>1, <1>2, <1>3, PTL DEF Spec, ManagerUpdateFits
=============================================================================
