-------------------------- MODULE PoolReadsProofs --------------------------
(***************************************************************************)
(* The inductive invariant behind the accounts of PoolCapacity: how a      *)
(* write of one CR changes the tallies, what the calls in flight and the   *)
(* recount have read, that no step invalidates it, and what the writes of  *)
(* SubVolume CRs do to the accounts.                                       *)
(***************************************************************************)
EXTENDS PoolCapacityProofs

-----------------------------------------------------------------------------
(* How a write of one CR changes the tallies *)

ChargeRec == [share : Shares, gb : 0 .. MaxGB]

\* The gigabytes of one CR on a share.
OwnGB(c, s) == IF c.share = s THEN c.gb ELSE 0

\* A gigabyte range of one name has as many elements as gigabytes.
LEMMA StackCard ==
    ASSUME NEW x, NEW k \in 0 .. MaxGB
    PROVE  IsFiniteSet({x} \X (1 .. k)) /\ Cardinality({x} \X (1 .. k)) = k
<1>1. IsFiniteSet({x}) /\ Cardinality({x}) = 1
  BY FS_Singleton
<1>2. IsFiniteSet(1 .. k) /\ Cardinality(1 .. k) = k
  BY FS_Interval, CapacityAssumption
<1>3. IsFiniteSet({x} \X (1 .. k))
  BY <1>1, <1>2, FS_Product
<1>4. Cardinality({x} \X (1 .. k)) = 1 * k
  BY <1>1, <1>2, FS_Product
<1> QED
  BY <1>3, <1>4, CapacityAssumption

\* The tally of a share is that of the other CRs and the CR's own gigabytes.
LEMMA TallySplit ==
    ASSUME NEW D, IsFiniteSet(D), NEW crs \in [D -> ChargeRec], NEW x \in D, NEW s \in Shares
    PROVE  Tally(crs, s) =
              Cardinality({b \in (D \ {x}) \X (1 .. MaxGB) : crs[b[1]].share = s /\ b[2] <= crs[b[1]].gb})
              + OwnGB(crs[x], s)
<1> DEFINE O == {b \in (D \ {x}) \X (1 .. MaxGB) : crs[b[1]].share = s /\ b[2] <= crs[b[1]].gb}
           k == OwnGB(crs[x], s)
           X == {x} \X (1 .. k)
<1>1. k \in 0 .. MaxGB
  BY CapacityAssumption DEF OwnGB, ChargeRec
<1>2. IsFiniteSet(X) /\ Cardinality(X) = k
  BY <1>1, StackCard, Zenon
<1>3. DOMAIN crs = D
  OBVIOUS
<1>4. IsFiniteSet(Blocks(crs, s))
  BY <1>3, BlocksFinite
<1>5. Blocks(crs, s) = O \cup X
  <2>1. ASSUME NEW b \in Blocks(crs, s) PROVE b \in O \cup X
    BY <1>1, <1>3, <2>1, CapacityAssumption DEF Blocks, OwnGB, ChargeRec
  <2>2. ASSUME NEW b \in O PROVE b \in Blocks(crs, s)
    BY <1>3, <2>2 DEF Blocks
  <2>3. ASSUME NEW b \in X PROVE b \in Blocks(crs, s)
    BY <1>1, <1>3, <2>3, CapacityAssumption DEF Blocks, OwnGB, ChargeRec
  <2> QED
    BY <2>1, <2>2, <2>3
<1>6. O \cap X = {}
  OBVIOUS
<1>7. IsFiniteSet(O)
  BY <1>4, <1>5, FS_Subset
<1>8. Cardinality(O \cup X) = Cardinality(O) + Cardinality(X) - Cardinality(O \cap X)
  BY <1>2, <1>7, FS_Union
<1>9. Cardinality(O \cap X) = 0 /\ Cardinality(O) \in Nat
  BY <1>6, <1>7, FS_EmptySet, FS_CardinalityType, Zenon
<1> QED
  BY <1>1, <1>2, <1>5, <1>8, <1>9 DEF Tally

\* Writing one CR changes a share's tally by the CR's gigabytes there.
LEMMA TallyUpdate ==
    ASSUME NEW D, IsFiniteSet(D), NEW crs \in [D -> ChargeRec], NEW x \in D, NEW c \in ChargeRec,
           NEW s \in Shares
    PROVE  Tally([crs EXCEPT ![x] = c], s) = Tally(crs, s) - OwnGB(crs[x], s) + OwnGB(c, s)
<1> DEFINE new == [crs EXCEPT ![x] = c]
           O(f) == {b \in (D \ {x}) \X (1 .. MaxGB) : f[b[1]].share = s /\ b[2] <= f[b[1]].gb}
<1>1. new \in [D -> ChargeRec] /\ new[x] = c
  OBVIOUS
<1>2. Tally(new, s) = Cardinality(O(new)) + OwnGB(new[x], s)
  <2> HIDE DEF new
  <2> QED  BY <1>1, TallySplit
<1>3. Tally(crs, s) = Cardinality(O(crs)) + OwnGB(crs[x], s)
  BY TallySplit
<1>4. O(new) = O(crs)
  OBVIOUS
<1>5. Tally(crs, s) \in Nat
  BY TallyNat
<1>6. OwnGB(crs[x], s) \in Nat /\ OwnGB(c, s) \in Nat
  BY CapacityAssumption DEF OwnGB, ChargeRec
<1>7. IsFiniteSet(O(crs))
  <2>1. O(crs) \subseteq Blocks(crs, s)
    BY DEF Blocks
  <2> QED
    BY <2>1, BlocksFinite, FS_Subset
<1>8. Cardinality(O(crs)) \in Nat
  BY <1>7, FS_CardinalityType
<1>9. Tally(new, s) = Tally(crs, s) - OwnGB(crs[x], s) + OwnGB(c, s)
  <2> HIDE DEF new, O
  <2> QED  BY <1>1, <1>2, <1>3, <1>4, <1>5, <1>6, <1>8
<1> QED
  BY <1>9

\* CRs without gigabytes have an empty tally.
LEMMA TallyZero ==
    ASSUME NEW D, NEW crs \in [D -> ChargeRec], \A x \in D : crs[x].gb = 0, NEW s
    PROVE  Tally(crs, s) = 0
<1>1. Blocks(crs, s) = {}
  BY CapacityAssumption DEF Blocks
<1> QED
  BY <1>1, FS_EmptySet DEF Tally

\* One for a CR with gigabytes on the share, as Count counts it.
OwnPVC(c, s) == IF c.share = s /\ c.gb > 0 THEN 1 ELSE 0

\* Writing one CR changes a share's count by the CR.
LEMMA CountUpdate ==
    ASSUME NEW D, IsFiniteSet(D), NEW crs \in [D -> ChargeRec], NEW x \in D, NEW c \in ChargeRec,
           NEW s \in Shares
    PROVE  Count([crs EXCEPT ![x] = c], s) = Count(crs, s) - OwnPVC(crs[x], s) + OwnPVC(c, s)
<1> DEFINE On(f) == {v \in D : f[v].share = s /\ f[v].gb > 0}
           new == [crs EXCEPT ![x] = c]
           O == {v \in D \ {x} : crs[v].share = s /\ crs[v].gb > 0}
<1>1. IsFiniteSet(O) /\ x \notin O
  BY FS_Subset
<1>2. Cardinality(O) \in Nat
  BY <1>1, FS_CardinalityType
<1>3. Cardinality(O \cup {x}) = Cardinality(O) + 1
  BY <1>1, FS_AddElement, Zenon
<1>4. On(crs) = IF OwnPVC(crs[x], s) = 1 THEN O \cup {x} ELSE O
  BY DEF OwnPVC
<1>5. On(new) = IF OwnPVC(c, s) = 1 THEN O \cup {x} ELSE O
  BY DEF OwnPVC
<1>6. Count(crs, s) = Cardinality(On(crs)) /\ Count(new, s) = Cardinality(On(new))
  BY DEF Count
<1>7. OwnPVC(crs[x], s) \in {0, 1} /\ OwnPVC(c, s) \in {0, 1}
  BY DEF OwnPVC
<1>8. Count(new, s) = Count(crs, s) - OwnPVC(crs[x], s) + OwnPVC(c, s)
  <2> HIDE DEF On, new, O
  <2> QED  BY <1>2, <1>3, <1>4, <1>5, <1>6, <1>7
<1> QED
  BY <1>8

-----------------------------------------------------------------------------
(* The same, for the variables *)

\* A write of one SubVolume CR.
LEMMA VolumeWrite ==
    ASSUME TypeOK, NEW v \in Volumes, NEW c \in VolCR, sv' = [sv EXCEPT ![v] = c], NEW s \in Shares
    PROVE  /\ Tally(sv, s)' = Tally(sv, s) - OwnGB(sv[v], s) + OwnGB(c, s)
           /\ Count(sv, s)' = Count(sv, s) - OwnPVC(sv[v], s) + OwnPVC(c, s)
<1>0. IsFiniteSet(Volumes)
  BY CapacityAssumption
<1>1. sv \in [Volumes -> ChargeRec] /\ c \in ChargeRec
  BY DEF TypeOK, VolCR, ChargeRec
<1>2. Tally([sv EXCEPT ![v] = c], s) = Tally(sv, s) - OwnGB(sv[v], s) + OwnGB(c, s)
  BY <1>0, <1>1, TallyUpdate, ZenonT(40)
<1>3. Count([sv EXCEPT ![v] = c], s) = Count(sv, s) - OwnPVC(sv[v], s) + OwnPVC(c, s)
  BY <1>0, <1>1, CountUpdate, ZenonT(40)
<1>4. Tally(sv, s)' = Tally(sv', s) /\ Count(sv, s)' = Count(sv', s)
  BY DEF Tally, Blocks, Count
<1> QED
  BY <1>2, <1>3, <1>4

SnapOwn(c) == [share |-> c.share, gb |-> snapshotChargeGB(c)]

\* The charges of the Snapshot CRs, one by one.
LEMMA ChargesType ==
    ASSUME NEW f \in [Snaps -> SnapCR]
    PROVE  /\ Charges(f) \in [Snaps -> ChargeRec]
           /\ Charges(f) = [n \in Snaps |-> SnapOwn(f[n])]
           /\ \A c \in SnapCR : SnapOwn(c) \in ChargeRec
<1>1. \A c \in SnapCR : SnapOwn(c) \in ChargeRec
  BY ChargeType DEF SnapOwn, ChargeRec, SnapCR
<1>2. Charges(f) = [n \in Snaps |-> SnapOwn(f[n])]
  BY DEF Charges, SnapOwn
<1> QED
  BY <1>1, <1>2

\* A write of one Snapshot CR.
LEMMA SnapshotWrite ==
    ASSUME TypeOK, NEW n \in Snaps, NEW c \in SnapCR, snap' = [snap EXCEPT ![n] = c], NEW s \in Shares
    PROVE  Tally(Charges(snap), s)' = Tally(Charges(snap), s) - OwnGB(SnapOwn(snap[n]), s) + OwnGB(SnapOwn(c), s)
<1>0. snap \in [Snaps -> SnapCR] /\ snap' \in [Snaps -> SnapCR]
  BY DEF TypeOK
<1>1. Charges(snap) \in [Snaps -> ChargeRec] /\ SnapOwn(c) \in ChargeRec
      /\ Charges(snap)[n] = SnapOwn(snap[n])
  BY <1>0, ChargesType
<1>2. Charges(snap') = [Charges(snap) EXCEPT ![n] = SnapOwn(c)]
  <2>1. Charges(snap') = [x \in Snaps |-> SnapOwn(snap'[x])]
    BY <1>0, ChargesType, Zenon
  <2>2. Charges(snap) = [x \in Snaps |-> SnapOwn(snap[x])]
    BY <1>0, ChargesType
  <2> QED
    BY <1>0, <2>1, <2>2
<1>3. Tally([Charges(snap) EXCEPT ![n] = SnapOwn(c)], s)
        = Tally(Charges(snap), s) - OwnGB(SnapOwn(snap[n]), s) + OwnGB(SnapOwn(c), s)
  <2>1. IsFiniteSet(Snaps)
    BY CapacityAssumption
  <2>2. Tally([Charges(snap) EXCEPT ![n] = SnapOwn(c)], s)
          = Tally(Charges(snap), s) - OwnGB(Charges(snap)[n], s) + OwnGB(SnapOwn(c), s)
    BY <1>1, <2>1, TallyUpdate, ZenonT(40)
  <2> QED
    BY <1>1, <2>2
<1>4. Tally(Charges(snap), s)' = Tally(Charges(snap'), s)
  BY DEF Tally, Blocks, Charges, snapshotChargeGB, instantChargeGB
<1> QED
  BY <1>2, <1>3, <1>4

\* What a snapshot call holds in the pool's status that no CR stands for.
CallOwn(r) ==
    [share |-> r.share,
     gb |-> IF r.pc \in {"create", "unbook"}
            THEN snapshotChargeGB([share |-> r.share, size |-> r.size, instant |-> r.instant]) ELSE 0]

\* Booked, one by one.
LEMMA BookedType ==
    ASSUME TypeOK
    PROVE  /\ Booked = [n \in Snaps |-> CallOwn(snapCall[n])]
           /\ Booked \in [Snaps -> ChargeRec]
           /\ \A r \in SnapCallType : CallOwn(r) \in ChargeRec
<1>1. ASSUME NEW r \in SnapCallType PROVE CallOwn(r) \in ChargeRec
  <2>1. [share |-> r.share, size |-> r.size, instant |-> r.instant] \in SnapCR
    BY DEF SnapCallType, SnapCR
  <2>2. snapshotChargeGB([share |-> r.share, size |-> r.size, instant |-> r.instant]) \in 0 .. MaxGB
    BY <2>1, ChargeType
  <2> QED
    BY <2>2, CapacityAssumption DEF CallOwn, ChargeRec, SnapCallType
<1>2. Booked = [n \in Snaps |-> CallOwn(snapCall[n])]
  BY DEF Booked, CallOwn, MidSnap, SnapCharge
<1>3. snapCall \in [Snaps -> SnapCallType]
  BY DEF TypeOK
<1> QED
  BY <1>1, <1>2, <1>3

\* A step of one snapshot call.
LEMMA CallWrite ==
    ASSUME TypeOK, TypeOK', NEW n \in Snaps, NEW r \in SnapCallType,
           snapCall' = [snapCall EXCEPT ![n] = r], NEW s \in Shares
    PROVE  Tally(Booked, s)' = Tally(Booked, s) - OwnGB(CallOwn(snapCall[n]), s) + OwnGB(CallOwn(r), s)
<1>1. /\ Booked = [x \in Snaps |-> CallOwn(snapCall[x])]
      /\ Booked \in [Snaps -> ChargeRec] /\ CallOwn(r) \in ChargeRec
  BY BookedType
<1>2. Booked' = [x \in Snaps |-> CallOwn(snapCall'[x])]
  BY DEF Booked, CallOwn, MidSnap, SnapCharge, snapshotChargeGB, instantChargeGB
<1>3. Booked' = [Booked EXCEPT ![n] = CallOwn(r)] /\ Booked[n] = CallOwn(snapCall[n])
  BY <1>1, <1>2 DEF TypeOK
<1>4. Tally([Booked EXCEPT ![n] = CallOwn(r)], s)
        = Tally(Booked, s) - OwnGB(CallOwn(snapCall[n]), s) + OwnGB(CallOwn(r), s)
  BY <1>1, <1>3, TallyUpdate, CapacityAssumption
<1>5. Tally(Booked, s)' = Tally(Booked', s)
  BY DEF Tally, Blocks
<1> QED
  BY <1>3, <1>4, <1>5

\* Every tally of the state is a natural number.
LEMMA TalliesNat ==
    ASSUME TypeOK, NEW s \in Shares
    PROVE  /\ Tally(sv, s) \in Nat /\ Count(sv, s) \in Nat
           /\ Tally(Charges(snap), s) \in Nat /\ Tally(Booked, s) \in Nat
<1>1. DOMAIN sv = Volumes /\ DOMAIN Charges(snap) = Snaps /\ DOMAIN Booked = Snaps
  BY DEF TypeOK, Charges, Booked
<1> QED
  BY <1>1, TallyNat, CountNat, CapacityAssumption

-----------------------------------------------------------------------------
(* The inductive invariant *)

\* An undisturbed pass counts what the API server has.
PassExact ==
    rec.pc # "idle" /\ (clean \/ rec.clean) =>
        /\ ~InFlight
        /\ rec.pc = "snaps" => rec.vols = sv
        /\ rec.pc = "save" =>
              \/ rec.books = Recount(sv, snap)
              \/ ~rec.clean /\ ("rec" \in current => rec.books = pool)

\* An undisturbed call works on what the API server has.
ReadsExact ==
    clean /\ mu.op # "none" =>
        /\ muCopy = pool
        /\ mu.pc = "cr" /\ mu.op \in {"dealloc", "expand"} => sv[mu.name] = mu.was

\* The space an undisturbed snapshot call has booked is within its share.
BookedFits ==
    clean => \A n \in Snaps : snapCall[n].pc = "create" => pool[snapCall[n].share].alloc <= TotalGB

IInv == TypeOK /\ CallOK /\ CopiesCurrent /\ RoomChecked /\ PassExact /\ ReadsExact /\ BookedFits /\ BooksExact

\* A begun call makes a running pass inexact, and the accounts with it; it
\* keeps them only with a current copy.
LEMMA BeginDisturbs ==
    ASSUME IInv, NEW c, BeginCall(c), NEW b, StaysClean(b)
    PROVE  /\ mu.op = "none" /\ mu.pc = "idle" /\ mu' = c
           /\ UNCHANGED <<pool, rec.pc>> /\ ~rec'.clean
           /\ clean' => clean /\ rec.pc = "idle" /\ b = TRUE /\ muCopy' = pool
<1>1. mu.op = "none" /\ mu' = c /\ pool' = pool /\ muCopy' = poolCache
  BY DEF BeginCall, MuFree
<1>2. mu.pc = "idle"
  BY <1>1 DEF IInv, CallOK
<1>3. rec'.pc = rec.pc /\ ~rec'.clean
  BY DEF BeginCall, IInv, TypeOK, PassType
<1>4. clean' => clean /\ rec.pc = "idle" /\ "cache" \in current /\ b = TRUE
  BY Zenon DEF StaysClean
<1>5. "cache" \in current => poolCache = pool
  BY DEF IInv, CopiesCurrent
<1> QED
  BY <1>1, <1>2, <1>3, <1>4, <1>5

\* How every call of the Manager that takes Manager.mu begins.
Begins ==
    \E c \in CallType, b \in BOOLEAN :
        /\ BeginCall(c) /\ StaysClean(b) /\ UNCHANGED <<sv, snap, snapCall>>
        /\ c.pc = "cr" \/ c.op \in {"book", "unbook"}
        /\ c.op \in {"dealloc", "expand"} => (b => sv[c.name] = c.was)

\* The calls on volumes and the two halves of a snapshot call begin this way.
LEMMA CallsBegin ==
    ASSUME IInv, Typed', VolumeCall \/ \E n \in Snaps : bookShare(n) \/ unbookShare(n)
    PROVE  Begins
<1>0. mu' \in CallType
  BY DEF Typed, TypeOK
<1>a. ASSUME NEW v, NEW gb, NEW s, NEW l, Reserve(v, gb, s, l), StaysClean(TRUE) PROVE Begins
  BY <1>0, <1>a, Zenon DEF Reserve, BeginCall, Begins
<1>1. ASSUME NEW v, NEW gb, Allocate(v, gb) PROVE Begins
  BY <1>a, <1>1, Zenon DEF Allocate
<1>2. ASSUME NEW v, NEW gb, NEW n, RestoreSnapshot(v, n, gb) PROVE Begins
  BY <1>a, <1>2, Zenon DEF RestoreSnapshot
<1>3. ASSUME NEW v, NEW gb, NEW w, CloneVolume(v, w, gb) PROVE Begins
  BY <1>a, <1>3, Zenon DEF CloneVolume
<1>4. ASSUME NEW v, NEW gb, Expand(v, gb) PROVE Begins
  <2> DEFINE b == svCache[v] = sv[v]
  <2>1. BeginCall(mu') /\ StaysClean(b) /\ UNCHANGED <<sv, snap, snapCall>>
    BY <1>4 DEF Expand, BeginCall
  <2>2. mu'.pc = "cr" /\ mu'.op = "expand" /\ mu'.name = v /\ mu'.was = svCache[v]
    BY <1>4 DEF Expand, BeginCall
  <2> QED
    BY <1>0, <2>1, <2>2, Zenon DEF Begins
<1>5. ASSUME NEW v, Deallocate(v) PROVE Begins
  <2> DEFINE b == svCache[v] = sv[v]
  <2>1. BeginCall(mu') /\ StaysClean(b) /\ UNCHANGED <<sv, snap, snapCall>>
    BY <1>5 DEF Deallocate, BeginCall
  <2>2. mu'.pc = "cr" /\ mu'.op = "dealloc" /\ mu'.name = v /\ mu'.was = svCache[v]
    BY <1>5 DEF Deallocate, BeginCall
  <2> QED
    BY <1>0, <2>1, <2>2, Zenon DEF Begins
<1>6. ASSUME NEW n \in Snaps, bookShare(n) PROVE Begins
  BY <1>0, <1>6, Zenon DEF bookShare, BeginCall, Begins
<1>7. ASSUME NEW n \in Snaps, unbookShare(n) PROVE Begins
  BY <1>0, <1>7, Zenon DEF unbookShare, BeginCall, Begins
<1> QED
  BY <1>1, <1>2, <1>3, <1>4, <1>5, <1>6, <1>7 DEF VolumeCall

\* The status update ends the call, accepted or not, and disturbs or keeps.
LEMMA SaveFrame ==
    ASSUME IInv, SaveStatus \/ LoseStatus
    PROVE  /\ mu.pc = "save" /\ mu.op # "none" /\ mu' = NoCall
           /\ UNCHANGED <<rec, sv, snap>>
           /\ clean' => clean
<1>0. clean \in BOOLEAN
  BY DEF IInv, TypeOK
<1>1. mu.pc = "save" /\ mu' = NoCall /\ UNCHANGED <<rec, sv, snap>>
  BY Zenon DEF SaveStatus, LoseStatus, EndCall
<1>2. CASE SaveStatus
  <2>1. clean' = clean \/ clean' = (clean /\ mu.op # "book")
    BY <1>2, Zenon DEF SaveStatus
  <2> QED
    BY <1>0, <1>1, <2>1 DEF IInv, CallOK
<1>3. CASE LoseStatus
  <2>1. clean' = (clean /\ mu.op = "book")
    BY <1>3 DEF LoseStatus
  <2> QED
    BY <1>0, <1>1, <2>1 DEF IInv, CallOK
<1> QED
  BY <1>2, <1>3

\* Every step keeps an undisturbed pass exact.
LEMMA PassStep == IInv /\ Typed' /\ [Next]_vars => PassExact'
<1> SUFFICES ASSUME IInv, Typed', [Next]_vars, rec'.pc # "idle", clean' \/ rec'.clean PROVE
        /\ ~InFlight'
        /\ rec'.pc = "snaps" => rec'.vols = sv'
        /\ rec'.pc = "save" =>
              \/ rec'.books = Recount(sv, snap)'
              \/ ~rec'.clean /\ ("rec" \in current' => rec'.books = pool')
  BY DEF PassExact
<1> DEFINE Goal == /\ ~InFlight'
                   /\ rec'.pc = "snaps" => rec'.vols = sv'
                   /\ rec'.pc = "save" =>
                         \/ rec'.books = Recount(sv, snap)'
                         \/ ~rec'.clean /\ ("rec" \in current' => rec'.books = pool')
<1>0. rec.pc # "idle" /\ (clean \/ rec.clean) =>
        /\ ~InFlight
        /\ rec.pc = "snaps" => rec.vols = sv
        /\ rec.pc = "save" =>
              \/ rec.books = Recount(sv, snap)
              \/ ~rec.clean /\ ("rec" \in current => rec.books = pool)
  BY DEF IInv, PassExact
<1>c. Recount(sv, snap)' = Recount(sv', snap')
  BY DEF Recount, Tally, Blocks, Count, Charges, snapshotChargeGB, instantChargeGB
<1>a. ASSUME Begins PROVE FALSE
  <2>1. PICK c \in CallType, b \in BOOLEAN : BeginCall(c) /\ StaysClean(b)
    BY <1>a DEF Begins
  <2> QED
    BY <2>1, BeginDisturbs, Zenon
<1>b. ASSUME UNCHANGED <<rec, sv, snap, pool>>, clean' => clean, current' \subseteq current \cup {"cache"},
             InFlight' => InFlight
      PROVE Goal
  BY <1>0, <1>b, <1>c
<1>1. CASE VolumeCall
  BY <1>1, <1>a, CallsBegin
<1>2. CASE SnapshotCall
  <2>1. ASSUME NEW n \in Snaps, NEW i \in BOOLEAN, CreateSnapshot(n, i) PROVE Goal
    <3>1. \A x \in Snaps : MidSnap(x)' => MidSnap(x)
      BY <2>1 DEF CreateSnapshot, MidSnap, IInv, TypeOK
    <3>2. InFlight' => InFlight
      BY <3>1, <2>1, Zenon DEF InFlight, MuFree, CreateSnapshot
    <3>3. UNCHANGED <<rec, sv, snap, pool, clean, current>>
      BY <2>1 DEF CreateSnapshot
    <3> QED
      BY <3>2, <3>3, <1>b
  <2>2. ASSUME NEW n \in Snaps, DeleteSnapshot(n) PROVE FALSE
    BY <2>2, Zenon DEF DeleteSnapshot, IInv, TypeOK, PassType
  <2> QED
    BY <1>2, <2>1, <2>2 DEF SnapshotCall
<1>3. CASE SnapshotStep
  <2>1. ASSUME NEW n \in Snaps, bookRefused(n) PROVE Goal
    <3>1. \A x \in Snaps : MidSnap(x)' => MidSnap(x)
      BY <2>1 DEF bookRefused, MidSnap, IdleSnap, IInv, TypeOK
    <3>2. InFlight' => InFlight
      BY <3>1, <2>1 DEF InFlight, MuFree, bookRefused
    <3>3. UNCHANGED <<rec, sv, snap, pool, clean, current>>
      BY <2>1 DEF bookRefused
    <3> QED
      BY <3>2, <3>3, <1>b
  <2>2. ASSUME NEW n \in Snaps, CreateSnapshotCR(n) PROVE FALSE
    <3>1. InFlight /\ rec' = rec /\ clean' = clean
      BY <2>2 DEF CreateSnapshotCR, InFlight, MidSnap
    <3> QED
      BY <1>0, <3>1
  <2>3. ASSUME NEW n \in Snaps, bookShare(n) \/ unbookShare(n) PROVE FALSE
    BY <2>3, <1>a, CallsBegin
  <2> QED
    BY <1>3, <2>1, <2>2, <2>3 DEF SnapshotStep
<1>4. CASE ManagerStep
  <2>1. rec' = rec /\ (clean' => clean) /\ mu.pc # "idle"
    <3>1. CASE CreateSubVolume \/ DeleteSubVolume \/ UpdateSubVolume
      BY <3>1 DEF CreateSubVolume, DeleteSubVolume, UpdateSubVolume
    <3>2. CASE SaveStatus \/ LoseStatus
      BY <3>2, SaveFrame
    <3> QED
      BY <1>4, <3>1, <3>2 DEF ManagerStep
  <2>2. InFlight
    BY <2>1 DEF InFlight, MuFree, IInv, CallOK
  <2> QED
    BY <1>0, <2>1, <2>2
<1>5. CASE Pass
  <2>0. InFlight' = InFlight /\ sv' = sv /\ snap' = snap
    BY <1>5 DEF Pass, Reconcile, ListSubVolumes, ListSnapshots, ListFails, SavePass, InFlight, MuFree, MidSnap
  <2>1. CASE Reconcile
    BY <2>0, <2>1, Zenon DEF Reconcile, IdlePass
  <2>2. CASE ListSubVolumes
    <3>1. /\ rec.pc = "volumes" /\ rec'.pc = "snaps" /\ rec'.vols = svCache
          /\ rec'.clean => rec.clean /\ svCache = sv
          /\ clean' => clean /\ svCache = sv
      BY <2>2, Zenon DEF ListSubVolumes, IInv, TypeOK, PassType
    <3> QED
      BY <1>0, <2>0, <3>1
  <2>3. CASE ListSnapshots
    <3>1. /\ rec.pc = "snaps" /\ rec'.pc = "save" /\ rec'.books = Recount(rec.vols, snapCache)
          /\ rec'.clean => rec.clean /\ snapCache = snap
          /\ clean' => clean /\ snapCache = snap
      BY <2>3, Zenon DEF ListSnapshots, IInv, TypeOK, PassType
    <3> QED
      BY <1>0, <1>c, <2>0, <3>1
  <2>4. CASE ListFails
    <3>1. /\ rec.pc \in {"volumes", "snaps"} /\ rec'.pc = "save" /\ ~rec'.clean /\ rec'.books = rec.books
          /\ clean' = clean /\ current' = current /\ pool' = pool
      BY <2>4 DEF ListFails, IInv, TypeOK, PassType
    <3>2. "rec" \in current => rec.books = pool
      BY <3>1 DEF IInv, CopiesCurrent
    <3> QED
      BY <1>0, <2>0, <3>1, <3>2
  <2>5. CASE SavePass
    BY <2>5 DEF SavePass, IdlePass
  <2> QED
    BY <1>5, <2>1, <2>2, <2>3, <2>4, <2>5, ZenonT(40) DEF Pass
<1>6. CASE OtherWrite \/ SyncPool \/ SyncVolumes \/ SyncSnaps \/ UNCHANGED vars
  <2>1. /\ UNCHANGED <<rec, sv, snap, pool, clean>> /\ current' \subseteq current \cup {"cache"}
        /\ UNCHANGED <<mu, snapCall>>
    BY <1>6 DEF OtherWrite, SyncPool, SyncVolumes, SyncSnaps, vars
  <2>2. InFlight' = InFlight
    BY <2>1 DEF InFlight, MuFree, MidSnap
  <2> QED
    BY <1>b, <2>1, <2>2
<1>7. CASE Restart
  BY <1>7 DEF Restart, IdlePass
<1> QED
  BY <1>1, <1>2, <1>3, <1>4, <1>5, <1>6, <1>7, ZenonT(40) DEF Next

\* A pass that is about to save and counts as exact meets no call in flight.
LEMMA SaveAlone ==
    ASSUME IInv, SavePass, clean'
    PROVE  \/ ~InFlight /\ pool' = Recount(sv, snap)
           \/ clean /\ pool' = pool
<1>1. rec.pc = "save" /\ (clean' => clean \/ rec.clean)
  BY Zenon DEF SavePass
<1>2. "rec" \in current => pool' = rec.books \/ (pool' = pool /\ clean' = clean)
  BY Zenon DEF SavePass
<1>3. "rec" \notin current => pool' = pool /\ clean' = clean
  BY Zenon DEF SavePass
<1>4. /\ ~InFlight
      /\ \/ rec.books = Recount(sv, snap)
         \/ ~rec.clean /\ ("rec" \in current => rec.books = pool)
  BY <1>1 DEF IInv, PassExact
<1> QED
  BY <1>1, <1>2, <1>3, <1>4, Zenon

\* Every step keeps that an undisturbed call works on what the API server has.
LEMMA ReadsStep == IInv /\ Typed' /\ [Next]_vars => ReadsExact'
<1> SUFFICES ASSUME IInv, Typed', [Next]_vars, clean', mu'.op # "none" PROVE
        muCopy' = pool' /\ (mu'.pc = "cr" /\ mu'.op \in {"dealloc", "expand"} => sv'[mu'.name] = mu'.was)
  BY DEF ReadsExact
<1> DEFINE Goal == /\ muCopy' = pool'
                   /\ mu'.pc = "cr" /\ mu'.op \in {"dealloc", "expand"} => sv'[mu'.name] = mu'.was
<1>0. clean /\ mu.op # "none" =>
        muCopy = pool /\ (mu.pc = "cr" /\ mu.op \in {"dealloc", "expand"} => sv[mu.name] = mu.was)
  BY DEF IInv, ReadsExact
<1>a. ASSUME Begins PROVE Goal
  <2>1. PICK c \in CallType, b \in BOOLEAN :
           /\ BeginCall(c) /\ StaysClean(b) /\ sv' = sv
           /\ c.op \in {"dealloc", "expand"} => (b => sv[c.name] = c.was)
    BY <1>a DEF Begins
  <2>2. mu' = c /\ pool' = pool /\ b = TRUE /\ muCopy' = pool
    BY <2>1, BeginDisturbs, Zenon
  <2> QED
    BY <2>1, <2>2
<1>b. ASSUME UNCHANGED <<mu, muCopy, pool, sv>>, clean PROVE Goal
  BY <1>0, <1>b
<1>1. CASE VolumeCall
  BY <1>1, <1>a, CallsBegin
<1>2. CASE SnapshotCall
  <2>1. UNCHANGED <<mu, muCopy, pool, sv>> /\ clean
    BY <1>2, Zenon DEF SnapshotCall, CreateSnapshot, DeleteSnapshot
  <2> QED
    BY <1>b, <2>1
<1>3. CASE SnapshotStep
  <2>1. CASE \E n \in Snaps : bookShare(n) \/ unbookShare(n)
    BY <2>1, <1>a, CallsBegin
  <2>2. CASE \E n \in Snaps : bookRefused(n) \/ CreateSnapshotCR(n)
    <3>1. UNCHANGED <<mu, muCopy, pool, sv>> /\ clean
      BY <2>2, Zenon DEF bookRefused, CreateSnapshotCR
    <3> QED
      BY <1>b, <3>1
  <2> QED
    BY <1>3, <2>1, <2>2 DEF SnapshotStep
<1>4. CASE ManagerStep
  <2>1. CASE CreateSubVolume \/ DeleteSubVolume \/ UpdateSubVolume
    <3>1. mu' = NoCall \/ (mu' = [mu EXCEPT !.pc = "save"] /\ muCopy' = muCopy)
      BY <2>1, Zenon DEF CreateSubVolume, DeleteSubVolume, UpdateSubVolume, EndCall
    <3>2. mu.pc = "cr" /\ pool' = pool /\ clean' = clean
      BY <2>1, Zenon DEF CreateSubVolume, DeleteSubVolume, UpdateSubVolume
    <3>3. NoCall.op = "none"
      BY Zenon DEF NoCall
    <3>4. mu.op # "none" /\ mu \in CallType
      BY <3>2 DEF IInv, CallOK, TypeOK
    <3> QED
      BY <1>0, <3>1, <3>2, <3>3, <3>4 DEF CallType
  <2>2. CASE SaveStatus \/ LoseStatus
    BY <2>2, SaveFrame DEF NoCall
  <2> QED
    BY <1>4, <2>1, <2>2 DEF ManagerStep
<1>5. CASE Pass
  <2>0. UNCHANGED <<mu, muCopy, sv>>
    BY <1>5, Zenon DEF Pass, Reconcile, ListSubVolumes, ListSnapshots, ListFails, SavePass
  <2>1. CASE Reconcile \/ ListSubVolumes \/ ListSnapshots \/ ListFails
    <3>1. pool' = pool /\ clean
      BY <2>1, Zenon DEF Reconcile, ListSubVolumes, ListSnapshots, ListFails
    <3> QED
      BY <1>b, <2>0, <3>1
  <2>2. CASE SavePass
    <3>1. InFlight
      BY <2>0 DEF InFlight, MuFree
    <3> QED
      BY <1>b, <2>0, <2>2, <3>1, SaveAlone
  <2> QED
    BY <1>5, <2>1, <2>2 DEF Pass
<1>6. CASE OtherWrite \/ SyncPool \/ SyncVolumes \/ SyncSnaps \/ UNCHANGED vars
  <2>1. UNCHANGED <<mu, muCopy, pool, sv>> /\ clean
    BY <1>6, Zenon DEF OtherWrite, SyncPool, SyncVolumes, SyncSnaps, vars
  <2> QED
    BY <1>b, <2>1
<1>7. CASE Restart
  BY <1>7 DEF Restart, NoCall
<1> QED
  BY <1>1, <1>2, <1>3, <1>4, <1>5, <1>6, <1>7, ZenonT(40) DEF Next

\* What an accepted status update does to each share.
LEMMA SaveBooks ==
    ASSUME IInv, SaveStatus, clean, NEW s \in Shares
    PROVE  /\ pool'[s].alloc = pool[s].alloc + (IF s = mu.share THEN mu.delta ELSE 0)
           /\ pool'[s].pvc = pool[s].pvc + (IF s = mu.share THEN mu.pvcs ELSE 0)
           /\ mu.op \in {"reserve", "expand", "book"} => pool[mu.share].alloc + mu.delta <= TotalGB
<1>1. muCopy = pool /\ mu.pc = "save" /\ pool' = Charged(muCopy, mu.share, mu.delta, mu.pvcs)
  <2>1. mu.pc = "save" /\ "mu" \in current /\ pool' = Charged(muCopy, mu.share, mu.delta, mu.pvcs)
    BY DEF SaveStatus
  <2> QED
    BY <2>1 DEF IInv, CopiesCurrent
<1>2. pool \in [Shares -> Book] /\ mu.share \in Shares /\ mu.delta \in Int /\ mu.pvcs \in Int
  BY DEF IInv, TypeOK, CallType
<1>3. mu.op \in {"reserve", "expand", "book"} => pool[mu.share].alloc + mu.delta <= TotalGB
  BY <1>1 DEF IInv, RoomChecked
<1>4. pool'[s] = IF s = mu.share
                 THEN [alloc |-> pool[s].alloc + mu.delta, pvc |-> pool[s].pvc + mu.pvcs] ELSE pool[s]
  BY <1>1, <1>2 DEF Charged
<1> QED
  BY <1>2, <1>3, <1>4 DEF Book

\* Every step keeps the space booked by undisturbed calls within their shares.
LEMMA BookedStep == IInv /\ Typed' /\ [Next]_vars => BookedFits'
<1> SUFFICES ASSUME IInv, Typed', [Next]_vars, clean', NEW n \in Snaps, snapCall'[n].pc = "create"
             PROVE  pool'[snapCall'[n].share].alloc <= TotalGB
  BY DEF BookedFits
<1> DEFINE Goal == pool'[snapCall'[n].share].alloc <= TotalGB
<1>b. ASSUME pool' = pool, snapCall'[n] = snapCall[n], clean PROVE Goal
  BY <1>b DEF IInv, BookedFits
<1>a. ASSUME Begins PROVE Goal
  <2>1. PICK c \in CallType, b \in BOOLEAN : BeginCall(c) /\ StaysClean(b) /\ snapCall' = snapCall
    BY <1>a DEF Begins
  <2>2. pool' = pool /\ clean
    BY <2>1, BeginDisturbs, Zenon
  <2> QED
    BY <1>b, <2>1, <2>2
<1>1. CASE VolumeCall
  BY <1>1, <1>a, CallsBegin, Zenon
<1>2. CASE SnapshotCall
  <2>0. snapCall \in [Snaps -> SnapCallType]
    BY DEF IInv, TypeOK
  <2>1. ASSUME NEW x \in Snaps, NEW i \in BOOLEAN, CreateSnapshot(x, i) PROVE Goal
    <3>1. pool' = pool /\ clean /\ snapCall'[n] = snapCall[n]
      BY <2>0, <2>1 DEF CreateSnapshot
    <3> QED
      BY <1>b, <3>1, Zenon
  <2>2. ASSUME NEW x \in Snaps, DeleteSnapshot(x) PROVE Goal
    <3>1. pool' = pool /\ clean /\ snapCall'[n] = snapCall[n]
      BY <2>0, <2>2, ZenonT(40) DEF DeleteSnapshot
    <3> QED
      BY <1>b, <3>1
  <2> QED
    BY <1>2, <2>1, <2>2 DEF SnapshotCall
<1>3. CASE SnapshotStep
  <2>1. CASE \E x \in Snaps : bookShare(x) \/ unbookShare(x)
    BY <2>1, <1>a, CallsBegin, Zenon
  <2>0. snapCall \in [Snaps -> SnapCallType]
    BY DEF IInv, TypeOK
  <2>2. ASSUME NEW x \in Snaps, bookRefused(x) PROVE Goal
    <3>1. pool' = pool /\ clean /\ snapCall'[n] = snapCall[n]
      BY <2>0, <2>2 DEF bookRefused, IdleSnap
    <3> QED
      BY <1>b, <3>1
  <2>3. ASSUME NEW x \in Snaps, CreateSnapshotCR(x) PROVE Goal
    <3>1. pool' = pool /\ clean
      BY <2>3 DEF CreateSnapshotCR
    <3>2. \/ snapCall' = [snapCall EXCEPT ![x] = IdleSnap]
          \/ snapCall' = [snapCall EXCEPT ![x].pc = "unbook"]
      BY <2>3 DEF CreateSnapshotCR
    <3>3. snapCall'[n] = snapCall[n]
      BY <2>0, <3>2 DEF IdleSnap, SnapCallType
    <3> QED
      BY <1>b, <3>1, <3>3
  <2> QED
    BY <1>3, <2>1, <2>2, <2>3 DEF SnapshotStep
<1>4. CASE ManagerStep
  <2>1. CASE CreateSubVolume \/ DeleteSubVolume \/ UpdateSubVolume
    <3>1. pool' = pool /\ clean /\ snapCall' = snapCall
      BY <2>1, Zenon DEF CreateSubVolume, DeleteSubVolume, UpdateSubVolume
    <3> QED
      BY <1>b, <3>1
  <2>2. CASE SaveStatus
    <3>0. clean /\ mu.pc = "save" /\ (snapCall' = SnapAfter(TRUE) \/ snapCall' = SnapAfter(FALSE))
      BY <2>2, Zenon DEF SaveStatus
    <3>1. \/ snapCall'[n] = snapCall[n]
          \/ mu.op = "book" /\ mu.name = n /\ snapCall'[n] = [snapCall[n] EXCEPT !.pc = "create"]
      BY <3>0 DEF SnapAfter, IdleSnap, IInv, TypeOK
    <3> DEFINE sh == snapCall[n].share
    <3>2. sh \in Shares /\ snapCall'[n].share = sh
      BY <3>1 DEF IInv, TypeOK, SnapCallType
    <3>3. pool'[sh].alloc = pool[sh].alloc + (IF sh = mu.share THEN mu.delta ELSE 0)
      BY <2>2, <3>0, <3>2, SaveBooks
    <3>4. mu.op \in {"reserve", "expand", "book"} => pool[mu.share].alloc + mu.delta <= TotalGB
      BY <2>2, <3>0, <3>2, SaveBooks
    <3>5. mu.op \in {"dealloc", "unbook"} => mu.delta <= 0
      <4>1. mu.op = "unbook" => mu.name \in Snaps /\ mu.delta = -SnapCharge(mu.name)
        BY DEF IInv, CallOK
      <4>2. mu.name \in Snaps => SnapCharge(mu.name) \in 0 .. MaxGB
        BY SnapChargeType DEF IInv
      <4>3. mu.op = "dealloc" => mu.delta = -mu.was.gb /\ mu.was.gb \in 0 .. MaxGB
        BY Zenon DEF IInv, CallOK, TypeOK, CallType, VolCR
      <4> QED
        BY <4>1, <4>2, <4>3, CapacityAssumption
    <3>6. mu.op \in {"dealloc", "unbook", "reserve", "expand", "book"} /\ mu.delta \in Int
      BY <3>0, Zenon DEF IInv, TypeOK, CallType, CallOK
    <3>7. pool[sh].alloc \in Int /\ TotalGB \in Int
      BY <3>2, CapacityAssumption DEF IInv, TypeOK, Book
    <3>8. snapCall'[n] = snapCall[n] => pool[sh].alloc <= TotalGB
      BY <3>0 DEF IInv, BookedFits
    <3>9. mu.op = "book" /\ mu.name = n => sh = mu.share
      BY DEF IInv, CallOK
    <3> QED
      BY <3>1, <3>2, <3>3, <3>4, <3>5, <3>6, <3>7, <3>8, <3>9
  <2>3. CASE LoseStatus
    <3>1. pool' = pool /\ clean /\ snapCall' = SnapAfter(FALSE)
      BY <2>3, Zenon DEF LoseStatus
    <3>2. snapCall'[n] = snapCall[n]
      BY <3>1 DEF SnapAfter, IdleSnap, IInv, TypeOK
    <3> QED
      BY <1>b, <3>1, <3>2, Zenon
  <2> QED
    BY <1>4, <2>1, <2>2, <2>3 DEF ManagerStep
<1>5. CASE Pass
  <2>0. snapCall' = snapCall
    BY <1>5, Zenon DEF Pass, Reconcile, ListSubVolumes, ListSnapshots, ListFails, SavePass
  <2>1. CASE Reconcile \/ ListSubVolumes \/ ListSnapshots \/ ListFails
    <3>1. pool' = pool /\ clean
      BY <2>1, Zenon DEF Reconcile, ListSubVolumes, ListSnapshots, ListFails
    <3> QED
      BY <1>b, <2>0, <3>1
  <2>2. CASE SavePass
    <3>1. InFlight
      BY <2>0 DEF InFlight, MidSnap
    <3> QED
      BY <1>b, <2>0, <2>2, <3>1, SaveAlone
  <2> QED
    BY <1>5, <2>1, <2>2 DEF Pass
<1>6. CASE OtherWrite \/ SyncPool \/ SyncVolumes \/ SyncSnaps \/ UNCHANGED vars
  <2>1. UNCHANGED <<pool, snapCall>> /\ clean
    BY <1>6, Zenon DEF OtherWrite, SyncPool, SyncVolumes, SyncSnaps, vars
  <2> QED
    BY <1>b, <2>1
<1>7. CASE Restart
  BY <1>7 DEF Restart, IdleSnap
<1> QED
  BY <1>1, <1>2, <1>3, <1>4, <1>5, <1>6, <1>7, ZenonT(40) DEF Next

-----------------------------------------------------------------------------
(* The accounts *)

LateGB(s) == IF Late(s) THEN mu.delta ELSE 0
LatePVC(s) == IF Late(s) THEN mu.pvcs ELSE 0

\* What BooksExact says of one share.
Exact(s) ==
    /\ pool[s].alloc + LateGB(s) = Tally(sv, s) + Tally(Charges(snap), s) + Tally(Booked, s)
    /\ pool[s].pvc + LatePVC(s) = Count(sv, s)

\* BooksExact, share by share.
LEMMA ExactShares == BooksExact <=> (clean => \A s \in Shares : Exact(s))
BY DEF BooksExact, Exact, LateGB, LatePVC, Used

\* Tallies of unchanged CRs and calls are unchanged.
LEMMA TalliesFrame ==
    ASSUME NEW s
    PROVE  /\ sv' = sv => Tally(sv, s)' = Tally(sv, s) /\ Count(sv, s)' = Count(sv, s)
           /\ snap' = snap => Tally(Charges(snap), s)' = Tally(Charges(snap), s)
           /\ snapCall' = snapCall => Tally(Booked, s)' = Tally(Booked, s)
<1>1. sv' = sv => Tally(sv, s)' = Tally(sv, s) /\ Count(sv, s)' = Count(sv, s)
  BY DEF Tally, Blocks, Count
<1>2. snap' = snap => Tally(Charges(snap), s)' = Tally(Charges(snap), s)
  BY DEF Tally, Blocks, Charges, snapshotChargeGB, instantChargeGB
<1>3. snapCall' = snapCall => Tally(Booked, s)' = Tally(Booked, s)
  <2>1. snapCall' = snapCall => Booked' = Booked
    BY DEF Booked, MidSnap, SnapCharge, snapshotChargeGB, instantChargeGB
  <2>2. Tally(Booked, s)' = Tally(Booked', s)
    BY DEF Tally, Blocks
  <2> QED
    BY <2>1, <2>2
<1> QED
  BY <1>1, <1>2, <1>3

\* The numbers a step computes with.
LEMMA NumberTypes ==
    ASSUME IInv, NEW s \in Shares
    PROVE  /\ pool[s].alloc \in Int /\ pool[s].pvc \in Int
           /\ mu.share \in Shares /\ mu.delta \in Int /\ mu.pvcs \in Int
           /\ Tally(sv, s) \in Nat /\ Count(sv, s) \in Nat
           /\ Tally(Charges(snap), s) \in Nat /\ Tally(Booked, s) \in Nat
           /\ TotalGB \in Nat
<1>1. pool[s].alloc \in Int /\ pool[s].pvc \in Int
  BY DEF IInv, TypeOK, Book
<1>2. mu.share \in Shares /\ mu.delta \in Int /\ mu.pvcs \in Int
  BY DEF IInv, TypeOK, CallType
<1>3. TypeOK
  BY DEF IInv
<1> QED
  BY <1>1, <1>2, <1>3, TalliesNat, CapacityAssumption

\* With no call in flight nothing is booked or late.
LEMMA NothingInFlight ==
    ASSUME TypeOK, CallOK, ~InFlight, NEW s \in Shares
    PROVE  Tally(Booked, s) = 0 /\ LateGB(s) = 0 /\ LatePVC(s) = 0
<1>1. mu.pc = "idle"
  BY DEF InFlight, MuFree, CallOK
<1>2. \A n \in Snaps : Booked[n].gb = 0
  BY DEF InFlight, Booked
<1>3. Booked \in [Snaps -> ChargeRec]
  BY BookedType
<1>4. Tally(Booked, s) = 0
  BY <1>2, <1>3, TallyZero
<1> QED
  BY <1>1, <1>4 DEF LateGB, LatePVC, Late

\* What the accounts of one share are made of, as numbers.
Sums(s) ==
    /\ pool[s].alloc \in Int /\ pool[s].pvc \in Int
    /\ LateGB(s) \in Int /\ LatePVC(s) \in Int
    /\ Tally(sv, s) \in Nat /\ Count(sv, s) \in Nat
    /\ Tally(Charges(snap), s) \in Nat /\ Tally(Booked, s) \in Nat

\* Before a step that starts undisturbed the numbers are exact.
LEMMA SumsExact ==
    ASSUME IInv, NEW s \in Shares
    PROVE  Sums(s) /\ (clean => Exact(s))
<1>1. Sums(s)
  BY NumberTypes DEF Sums, LateGB, LatePVC
<1>2. clean => Exact(s)
  BY ExactShares DEF IInv
<1> QED
  BY <1>1, <1>2

\* After a step of the right types they are numbers, too.
LEMMA SumsNext ==
    ASSUME Typed', NEW s \in Shares
    PROVE  Tally(Charges(snap), s)' \in Nat /\ Tally(Booked, s)' \in Nat
<1>1. DOMAIN (Charges(snap)') = Snaps /\ DOMAIN (Booked') = Snaps
  BY DEF Charges, Booked
<1>2. Tally(Charges(snap)', s) \in Nat /\ Tally(Booked', s) \in Nat
  BY <1>1, TallyNat, CapacityAssumption
<1> QED
  BY <1>2 DEF Tally, Blocks

\* The pool's status and the call under Manager.mu keep or exchange their part,
\* the CRs and the snapshot calls theirs: the accounts stay exact.
LEMMA Balanced ==
    ASSUME NEW s, Sums(s), Exact(s), NEW g \in Int, NEW k \in Int,
           pool'[s].alloc + LateGB(s)' = pool[s].alloc + LateGB(s) + g,
           pool'[s].pvc + LatePVC(s)' = pool[s].pvc + LatePVC(s) + k,
           Tally(sv, s)' + Tally(Charges(snap), s)' + Tally(Booked, s)'
             = Tally(sv, s) + Tally(Charges(snap), s) + Tally(Booked, s) + g,
           Count(sv, s)' = Count(sv, s) + k
    PROVE  Exact(s)'
BY DEF Sums, Exact

-----------------------------------------------------------------------------
(* Writes of SubVolume CRs *)

\* A write of the SubVolume moves its gigabytes from the call to the CR.
LEMMA VolumeMoves ==
    ASSUME IInv, clean, NEW s \in Shares,
           mu.pc = "cr", mu.op \in {"reserve", "dealloc", "expand"}, mu.name \in Volumes,
           UNCHANGED <<pool, snap, snapCall>>, mu' = [mu EXCEPT !.pc = "save"],
           NEW c \in VolCR, sv' = [sv EXCEPT ![mu.name] = c],
           OwnGB(c, s) - OwnGB(sv[mu.name], s) = (IF s = mu.share THEN mu.delta ELSE 0),
           OwnPVC(c, s) - OwnPVC(sv[mu.name], s) = (IF s = mu.share THEN mu.pvcs ELSE 0)
    PROVE  Exact(s)' /\ Tally(sv, s)' = Tally(sv, s) + (IF s = mu.share THEN mu.delta ELSE 0)
<1> DEFINE g == IF s = mu.share THEN mu.delta ELSE 0
           k == IF s = mu.share THEN mu.pvcs ELSE 0
<1>1. Sums(s) /\ Exact(s)
  BY SumsExact
<1>2. g \in Int /\ k \in Int
  BY NumberTypes
<1>3. /\ LateGB(s) = 0 /\ LatePVC(s) = 0 /\ LateGB(s)' = g /\ LatePVC(s)' = k
  BY DEF LateGB, LatePVC, Late, IInv, TypeOK, CallType
<1>4. Tally(sv, s)' = Tally(sv, s) + g /\ Count(sv, s)' = Count(sv, s) + k
  <2>1. /\ Tally(sv, s)' = Tally(sv, s) - OwnGB(sv[mu.name], s) + OwnGB(c, s)
        /\ Count(sv, s)' = Count(sv, s) - OwnPVC(sv[mu.name], s) + OwnPVC(c, s)
    BY VolumeWrite, Zenon DEF IInv
  <2>2. OwnGB(c, s) \in Int /\ OwnGB(sv[mu.name], s) \in Int
    BY CapacityAssumption DEF OwnGB, IInv, TypeOK, VolCR
  <2>3. OwnPVC(c, s) \in Int /\ OwnPVC(sv[mu.name], s) \in Int
    BY DEF OwnPVC
  <2> HIDE DEF g, k
  <2> QED
    BY <1>1, <1>2, <2>1, <2>2, <2>3 DEF Sums, g, k
<1>5. Tally(Charges(snap), s)' = Tally(Charges(snap), s) /\ Tally(Booked, s)' = Tally(Booked, s)
  BY TalliesFrame
<1> HIDE DEF g, k
<1>6. /\ pool'[s].alloc + LateGB(s)' = pool[s].alloc + LateGB(s) + g
      /\ pool'[s].pvc + LatePVC(s)' = pool[s].pvc + LatePVC(s) + k
  BY <1>1, <1>2, <1>3 DEF Sums
<1>7. Tally(sv, s)' + Tally(Charges(snap), s)' + Tally(Booked, s)'
        = Tally(sv, s) + Tally(Charges(snap), s) + Tally(Booked, s) + g
  BY <1>1, <1>2, <1>4, <1>5 DEF Sums
<1>8. Exact(s)'
  BY <1>1, <1>2, <1>4, <1>6, <1>7, Balanced, ZenonT(40)
<1> QED
  BY <1>4, <1>8 DEF g

\* CreateSubVolume that succeeds.
LEMMA CreateMoves ==
    ASSUME IInv, clean, NEW s \in Shares, CreateSubVolume, ~(mu' = NoCall /\ sv' = sv)
    PROVE  Exact(s)' /\ Tally(sv, s)' = Tally(sv, s) + (IF s = mu.share THEN mu.delta ELSE 0)
<1> DEFINE c == [share |-> mu.share, gb |-> mu.delta]
<1>1. /\ sv[mu.name].gb = 0 /\ sv' = [sv EXCEPT ![mu.name] = c] /\ mu' = [mu EXCEPT !.pc = "save"]
      /\ mu.pc = "cr" /\ mu.op = "reserve" /\ UNCHANGED <<pool, snap, snapCall>>
  BY DEF CreateSubVolume, EndCall
<1>2. mu.name \in Volumes /\ mu.delta \in 1 .. MaxGB /\ mu.pvcs = 1 /\ mu.share \in Shares
  BY <1>1 DEF IInv, CallOK, TypeOK, CallType
<1>3. c \in VolCR
  BY <1>2 DEF VolCR
<1>4. OwnGB(sv[mu.name], s) = 0 /\ OwnPVC(sv[mu.name], s) = 0
  BY <1>1 DEF OwnGB, OwnPVC
<1>5. /\ OwnGB(c, s) = (IF s = mu.share THEN mu.delta ELSE 0)
      /\ OwnPVC(c, s) = (IF s = mu.share THEN mu.pvcs ELSE 0)
  BY <1>2 DEF OwnGB, OwnPVC
<1> HIDE DEF c
<1>6. /\ OwnGB(c, s) - OwnGB(sv[mu.name], s) = (IF s = mu.share THEN mu.delta ELSE 0)
      /\ OwnPVC(c, s) - OwnPVC(sv[mu.name], s) = (IF s = mu.share THEN mu.pvcs ELSE 0)
  BY <1>2, <1>4, <1>5
<1> QED
  BY <1>1, <1>2, <1>3, <1>6, VolumeMoves, ZenonT(40)

\* DeleteSubVolume that succeeds: the CR is the one the call has read.
LEMMA DeleteMoves ==
    ASSUME IInv, clean, NEW s \in Shares, DeleteSubVolume, ~(mu' = NoCall /\ sv' = sv)
    PROVE  /\ Exact(s)' /\ mu.delta < 0
           /\ Tally(sv, s)' = Tally(sv, s) + (IF s = mu.share THEN mu.delta ELSE 0)
<1>1. /\ sv' = [sv EXCEPT ![mu.name] = NoVol] /\ mu' = [mu EXCEPT !.pc = "save"]
      /\ mu.pc = "cr" /\ mu.op = "dealloc" /\ UNCHANGED <<pool, snap, snapCall>>
  BY DEF DeleteSubVolume, EndCall
<1>2. /\ mu.name \in Volumes /\ mu.delta = -mu.was.gb /\ mu.was.gb > 0 /\ mu.pvcs = -1
      /\ mu.share = mu.was.share /\ mu.was.gb \in Int
  BY <1>1, CapacityAssumption DEF IInv, CallOK, TypeOK, CallType, VolCR
<1>3. sv[mu.name] = mu.was
  BY <1>1 DEF IInv, ReadsExact
<1>4. OwnGB(NoVol, s) = 0 /\ OwnPVC(NoVol, s) = 0 /\ NoVol \in VolCR
  BY NothingType DEF OwnGB, OwnPVC, NoVol
<1>5. /\ OwnGB(sv[mu.name], s) = (IF s = mu.share THEN mu.was.gb ELSE 0)
      /\ OwnPVC(sv[mu.name], s) = (IF s = mu.share THEN 1 ELSE 0)
  BY <1>2, <1>3 DEF OwnGB, OwnPVC
<1>6. /\ OwnGB(NoVol, s) - OwnGB(sv[mu.name], s) = (IF s = mu.share THEN mu.delta ELSE 0)
      /\ OwnPVC(NoVol, s) - OwnPVC(sv[mu.name], s) = (IF s = mu.share THEN mu.pvcs ELSE 0)
      /\ mu.delta < 0
  BY <1>2, <1>4, <1>5
<1> QED
  BY <1>1, <1>2, <1>4, <1>6, VolumeMoves, Zenon

\* UpdateSubVolume that succeeds.
LEMMA UpdateMoves ==
    ASSUME IInv, clean, NEW s \in Shares, UpdateSubVolume, ~(mu' = NoCall /\ sv' = sv)
    PROVE  Exact(s)' /\ Tally(sv, s)' = Tally(sv, s) + (IF s = mu.share THEN mu.delta ELSE 0)
<1> DEFINE c == [share |-> mu.share, gb |-> mu.was.gb + mu.delta]
<1>1. /\ sv[mu.name] = mu.was /\ sv' = [sv EXCEPT ![mu.name].gb = mu.was.gb + mu.delta]
      /\ mu' = [mu EXCEPT !.pc = "save"]
      /\ mu.pc = "cr" /\ mu.op = "expand" /\ UNCHANGED <<pool, snap, snapCall>>
  BY DEF UpdateSubVolume, EndCall
<1>2. /\ mu.name \in Volumes /\ mu.delta > 0 /\ mu.pvcs = 0 /\ mu.was.gb > 0
      /\ mu.share = mu.was.share /\ mu.was.gb \in Int /\ mu.was.gb + mu.delta \in 1 .. MaxGB
      /\ mu.was \in VolCR /\ mu.share \in Shares /\ mu.delta \in Int
  BY <1>1, CapacityAssumption DEF IInv, CallOK, TypeOK, CallType, VolCR
<1>3. c \in VolCR
  BY <1>2 DEF VolCR
<1>4. sv' = [sv EXCEPT ![mu.name] = c]
  <2>1. [sv[mu.name] EXCEPT !.gb = mu.was.gb + mu.delta] = c
    BY <1>1, <1>2 DEF VolCR
  <2> QED
    BY <1>1, <2>1, Zenon
<1>5. /\ OwnGB(sv[mu.name], s) = (IF s = mu.share THEN mu.was.gb ELSE 0)
      /\ OwnPVC(sv[mu.name], s) = (IF s = mu.share THEN 1 ELSE 0)
  BY <1>1, <1>2 DEF OwnGB, OwnPVC
<1>6. /\ OwnGB(c, s) = (IF s = mu.share THEN mu.was.gb + mu.delta ELSE 0)
      /\ OwnPVC(c, s) = (IF s = mu.share THEN 1 ELSE 0)
  BY <1>2 DEF OwnGB, OwnPVC
<1> HIDE DEF c
<1>7. /\ OwnGB(c, s) - OwnGB(sv[mu.name], s) = (IF s = mu.share THEN mu.delta ELSE 0)
      /\ OwnPVC(c, s) - OwnPVC(sv[mu.name], s) = (IF s = mu.share THEN mu.pvcs ELSE 0)
  BY <1>2, <1>5, <1>6
<1> QED
  BY <1>1, <1>2, <1>3, <1>4, <1>7, VolumeMoves, ZenonT(40)

\* A write of the SubVolume, accepted or refused; what it adds has been checked.
LEMMA VolumeBooks ==
    ASSUME IInv, CreateSubVolume \/ DeleteSubVolume \/ UpdateSubVolume, clean, NEW s \in Shares
    PROVE  /\ Exact(s)'
           /\ \/ sv' = sv
              \/ /\ Tally(sv, s)' = Tally(sv, s) + (IF s = mu.share THEN mu.delta ELSE 0)
                 /\ mu.delta > 0 => pool[mu.share].alloc + mu.delta <= TotalGB
<1>1. mu.pc = "cr" /\ UNCHANGED <<pool, snap, snapCall>>
  BY Zenon DEF CreateSubVolume, DeleteSubVolume, UpdateSubVolume
<1>2. mu.op # "none" /\ mu.op \notin {"book", "unbook"} /\ muCopy = pool
  BY <1>1 DEF IInv, CallOK, ReadsExact
<1>3. CASE ~(mu' = NoCall /\ sv' = sv)
  <2>1. /\ Exact(s)'
        /\ Tally(sv, s)' = Tally(sv, s) + (IF s = mu.share THEN mu.delta ELSE 0)
    BY <1>3, CreateMoves, DeleteMoves, UpdateMoves
  <2>2. mu.op = "dealloc" => DeleteSubVolume
    BY DEF CreateSubVolume, UpdateSubVolume
  <2>3. mu.op = "dealloc" => mu.delta < 0
    BY <1>3, <2>2, DeleteMoves
  <2>4. mu.op \in {"reserve", "dealloc", "expand"} /\ mu.delta \in Int
    BY <1>2 DEF IInv, TypeOK, CallType
  <2>5. mu.delta > 0 => pool[mu.share].alloc + mu.delta <= TotalGB
    BY <1>2, <2>3, <2>4 DEF IInv, RoomChecked
  <2> QED
    BY <2>1, <2>5
<1>4. CASE mu' = NoCall /\ sv' = sv
  <2>1. LateGB(s) = 0 /\ LatePVC(s) = 0 /\ LateGB(s)' = 0 /\ LatePVC(s)' = 0
    BY <1>1, <1>4 DEF LateGB, LatePVC, Late, NoCall
  <2>2. Exact(s)
    BY SumsExact
  <2> QED
    BY <1>1, <1>4, <2>1, <2>2, TalliesFrame, Zenon DEF Exact
<1> QED
  BY <1>3, <1>4

=============================================================================
