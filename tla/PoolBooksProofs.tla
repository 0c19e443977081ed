-------------------------- MODULE PoolBooksProofs --------------------------
(***************************************************************************)
(* Proofs that the accounts of PoolCapacity are exact, and no share is     *)
(* over-committed, while nothing has disturbed them.                       *)
(***************************************************************************)
EXTENDS PoolReadsProofs

-----------------------------------------------------------------------------
(* Snapshot CRs and the calls that book their space *)

\* A snapshot call without a booking counts for nothing.
LEMMA CallOwnGB ==
    ASSUME NEW r \in SnapCallType, NEW s \in Shares
    PROVE  /\ r.pc \in {"idle", "book"} => OwnGB(CallOwn(r), s) = 0
           /\ r.pc \in {"create", "unbook"} =>
                 OwnGB(CallOwn(r), s) =
                    (IF r.share = s
                     THEN snapshotChargeGB([share |-> r.share, size |-> r.size, instant |-> r.instant]) ELSE 0)
<1>1. CallOwn(r).share = r.share
  BY DEF CallOwn
<1>2. r.pc \in {"idle", "book"} => CallOwn(r).gb = 0
  BY DEF CallOwn
<1>3. r.pc \in {"create", "unbook"} =>
        CallOwn(r).gb = snapshotChargeGB([share |-> r.share, size |-> r.size, instant |-> r.instant])
  BY DEF CallOwn
<1> QED
  BY <1>1, <1>2, <1>3 DEF OwnGB

\* What a snapshot call has booked on a share.
OnShare(n, s) == IF snapCall[n].share = s THEN SnapCharge(n) ELSE 0

\* It is a number, and what the call counts for from its booking to its end.
LEMMA OnShareGB ==
    ASSUME IInv, NEW n \in Snaps, NEW s \in Shares
    PROVE  /\ OnShare(n, s) \in Nat
           /\ snapCall[n].pc \in {"idle", "book"} => OwnGB(CallOwn(snapCall[n]), s) = 0
           /\ snapCall[n].pc \in {"create", "unbook"} => OwnGB(CallOwn(snapCall[n]), s) = OnShare(n, s)
           /\ IdleSnap \in SnapCallType /\ OwnGB(CallOwn(IdleSnap), s) = 0
<1>1. snapCall[n] \in SnapCallType /\ IdleSnap \in SnapCallType
  BY SnapCallStep, Zenon DEF IInv, TypeOK
<1>2. SnapCharge(n) \in Nat
  BY SnapChargeType, CapacityAssumption DEF IInv
<1>3. OnShare(n, s) \in Nat
  BY <1>2 DEF OnShare
<1>4. OwnGB(CallOwn(IdleSnap), s) = 0
  BY <1>1, CallOwnGB, Zenon DEF IdleSnap
<1>5. /\ snapCall[n].pc \in {"idle", "book"} => OwnGB(CallOwn(snapCall[n]), s) = 0
      /\ snapCall[n].pc \in {"create", "unbook"} => OwnGB(CallOwn(snapCall[n]), s) = OnShare(n, s)
  BY <1>1, CallOwnGB DEF OnShare, SnapCharge
<1> QED
  BY <1>1, <1>3, <1>4, <1>5

\* A step of one snapshot call and its CR: what one loses the other gains.
LEMMA SnapshotMoves ==
    ASSUME IInv, clean, NEW s \in Shares, UNCHANGED <<pool, sv, mu>>,
           Tally(Charges(snap), s)' + Tally(Booked, s)' = Tally(Charges(snap), s) + Tally(Booked, s),
           Tally(Charges(snap), s)' \in Nat, Tally(Booked, s)' \in Nat
    PROVE  Exact(s)'
<1>1. Sums(s) /\ Exact(s)
  BY SumsExact
<1>2. LateGB(s)' = LateGB(s) /\ LatePVC(s)' = LatePVC(s)
  BY DEF LateGB, LatePVC, Late
<1>3. Tally(sv, s)' = Tally(sv, s) /\ Count(sv, s)' = Count(sv, s)
  BY TalliesFrame
<1> QED
  BY <1>1, <1>2, <1>3 DEF Sums, Exact

\* A call that has booked nothing begins or is refused.
LEMMA QuietBooks ==
    ASSUME IInv, Typed', clean, NEW n \in Snaps, NEW s \in Shares,
           bookRefused(n) \/ \E i \in BOOLEAN : CreateSnapshot(n, i)
    PROVE  Exact(s)' /\ UNCHANGED <<sv, snap>>
<1>1. UNCHANGED <<pool, sv, mu, snap>>
  BY Zenon DEF bookRefused, CreateSnapshot
<1>2. snapCall[n].pc \in {"idle", "book"}
  BY Zenon DEF bookRefused, CreateSnapshot, VolumeLocked
<1>3. snapCall' = [snapCall EXCEPT ![n] = snapCall'[n]] /\ snapCall'[n].pc \in {"idle", "book"}
  <2>1. ASSUME NEW x, snapCall' = [snapCall EXCEPT ![n] = x], x.pc \in {"idle", "book"}
        PROVE  snapCall' = [snapCall EXCEPT ![n] = snapCall'[n]] /\ snapCall'[n].pc \in {"idle", "book"}
    BY <2>1 DEF IInv, TypeOK
  <2>2. CASE bookRefused(n)
    BY <2>1, <2>2, ZenonT(40) DEF bookRefused, IdleSnap
  <2>3. ASSUME NEW i \in BOOLEAN, CreateSnapshot(n, i)
        PROVE  \E x : snapCall' = [snapCall EXCEPT ![n] = x] /\ x.pc \in {"idle", "book"}
    <3> WITNESS [pc |-> "book", share |-> svCache[SourceOf[n]].share,
                 size |-> svCache[SourceOf[n]].gb, instant |-> i]
    <3> QED
      BY <2>3 DEF CreateSnapshot
  <2> QED
    BY <2>1, <2>2, <2>3
<1>4. snapCall'[n] \in SnapCallType
  BY DEF Typed, TypeOK
<1>5. Tally(Booked, s)' = Tally(Booked, s) - OwnGB(CallOwn(snapCall[n]), s) + OwnGB(CallOwn(snapCall'[n]), s)
  BY <1>3, <1>4, CallWrite DEF IInv, Typed
<1>6. OwnGB(CallOwn(snapCall[n]), s) = 0 /\ OwnGB(CallOwn(snapCall'[n]), s) = 0
  BY <1>2, <1>3, <1>4, OnShareGB, CallOwnGB, Zenon
<1>7. Tally(Booked, s)' = Tally(Booked, s)
  BY <1>5, <1>6, SumsExact, SMTT(60) DEF Sums
<1>8. Tally(Charges(snap), s)' = Tally(Charges(snap), s)
  BY <1>1, TalliesFrame
<1> QED
  BY <1>1, <1>7, <1>8, SnapshotMoves, SumsNext

\* CreateSnapshotCR that fails keeps the booking until it is given back.
LEMMA CRRefusedBooks ==
    ASSUME IInv, Typed', clean, NEW n \in Snaps, NEW s \in Shares, CreateSnapshotCR(n), UNCHANGED snap,
           snapCall' = [snapCall EXCEPT ![n].pc = "unbook"]
    PROVE  Exact(s)'
<1> DEFINE r == [snapCall[n] EXCEPT !.pc = "unbook"]
<1>1. UNCHANGED <<pool, sv, mu>> /\ snapCall[n].pc = "create" /\ snapCall' = [snapCall EXCEPT ![n] = r]
  BY DEF CreateSnapshotCR
<1>2. r \in SnapCallType
  BY SnapCallStep, Zenon DEF IInv
<1>3. r.pc = "unbook" /\ r.share = snapCall[n].share /\ r.size = snapCall[n].size /\ r.instant = snapCall[n].instant
  BY DEF IInv, TypeOK, SnapCallType
<1> HIDE DEF r
<1>4. OwnGB(CallOwn(r), s) = OnShare(n, s)
  BY <1>2, <1>3, CallOwnGB DEF OnShare, SnapCharge
<1>5. Tally(Booked, s)' = Tally(Booked, s) - OwnGB(CallOwn(snapCall[n]), s) + OwnGB(CallOwn(r), s)
  BY <1>1, <1>2, CallWrite, Zenon DEF IInv, Typed
<1>6. Tally(Booked, s)' = Tally(Booked, s)
  BY <1>1, <1>4, <1>5, OnShareGB, SumsExact DEF Sums
<1>7. Tally(Charges(snap), s)' = Tally(Charges(snap), s)
  BY TalliesFrame
<1> QED
  BY <1>1, <1>6, <1>7, SnapshotMoves, SumsNext, Zenon

\* CreateSnapshotCR that succeeds: the charge is now the CR's.
LEMMA CRCreatedBooks ==
    ASSUME IInv, Typed', clean, NEW n \in Snaps, NEW s \in Shares, CreateSnapshotCR(n),
           ~(UNCHANGED snap /\ snapCall' = [snapCall EXCEPT ![n].pc = "unbook"])
    PROVE  /\ Exact(s)'
           /\ Tally(Charges(snap), s)' = Tally(Charges(snap), s) + OnShare(n, s)
           /\ OnShare(n, s) <= Tally(Booked, s)
<1> DEFINE c == [share |-> snapCall[n].share, size |-> snapCall[n].size, instant |-> snapCall[n].instant]
<1>1. /\ UNCHANGED <<pool, sv, mu>> /\ snapCall[n].pc = "create" /\ snap[n].size = 0
      /\ snap' = [snap EXCEPT ![n] = c] /\ snapCall' = [snapCall EXCEPT ![n] = IdleSnap]
  BY DEF CreateSnapshotCR
<1>2. c \in SnapCR
  BY DEF IInv, TypeOK, SnapCallType, SnapCR
<1>3. OwnGB(SnapOwn(snap[n]), s) = 0 /\ OwnGB(SnapOwn(c), s) = OnShare(n, s)
  BY <1>1 DEF OwnGB, SnapOwn, OnShare, SnapCharge, snapshotChargeGB
<1> HIDE DEF c
<1>4. Tally(Charges(snap), s)' = Tally(Charges(snap), s) - OwnGB(SnapOwn(snap[n]), s) + OwnGB(SnapOwn(c), s)
  BY <1>1, <1>2, SnapshotWrite, Zenon DEF IInv
<1>5. Tally(Booked, s)' = Tally(Booked, s) - OwnGB(CallOwn(snapCall[n]), s) + OwnGB(CallOwn(IdleSnap), s)
  BY <1>1, OnShareGB, CallWrite, Zenon DEF IInv, Typed
<1>6. Sums(s) /\ Tally(Charges(snap), s)' \in Nat /\ Tally(Booked, s)' \in Nat
  BY SumsExact, SumsNext
<1>7. OnShare(n, s) \in Nat /\ OwnGB(CallOwn(snapCall[n]), s) = OnShare(n, s) /\ OwnGB(CallOwn(IdleSnap), s) = 0
  BY <1>1, OnShareGB
<1>8. /\ Tally(Charges(snap), s)' = Tally(Charges(snap), s) + OnShare(n, s)
      /\ Tally(Booked, s)' = Tally(Booked, s) - OnShare(n, s)
  BY <1>3, <1>4, <1>5, <1>6, <1>7 DEF Sums
<1>9. Tally(Charges(snap), s)' + Tally(Booked, s)' = Tally(Charges(snap), s) + Tally(Booked, s)
      /\ OnShare(n, s) <= Tally(Booked, s)
  BY <1>6, <1>7, <1>8 DEF Sums
<1> QED
  BY <1>1, <1>6, <1>8, <1>9, SnapshotMoves, ZenonT(40)

\* Deleting a Snapshot CR lowers the tally of its share by its charge.
LEMMA DeletedCR ==
    ASSUME IInv, NEW n \in Snaps, NEW s \in Shares, DeleteSnapshot(n)
    PROVE  /\ OwnGB(SnapOwn(snap[n]), s) \in Nat
           /\ Tally(Charges(snap), s)' = Tally(Charges(snap), s) - OwnGB(SnapOwn(snap[n]), s)
<1>1. snap' = [snap EXCEPT ![n] = NoSnap] /\ NoSnap \in SnapCR
  BY NothingType DEF DeleteSnapshot
<1>2. Tally(Charges(snap), s)' = Tally(Charges(snap), s) - OwnGB(SnapOwn(snap[n]), s) + OwnGB(SnapOwn(NoSnap), s)
  BY <1>1, SnapshotWrite, Zenon DEF IInv
<1>3. OwnGB(SnapOwn(NoSnap), s) = 0
  BY DEF OwnGB, SnapOwn, NoSnap, snapshotChargeGB
<1>4. snapshotChargeGB(snap[n]) \in 0 .. MaxGB
  BY ChargeType DEF IInv, TypeOK
<1>5. OwnGB(SnapOwn(snap[n]), s) \in Nat
  BY <1>4, CapacityAssumption DEF OwnGB, SnapOwn
<1> QED
  BY <1>2, <1>3, <1>5, SumsExact, SMTT(60) DEF Sums

\* A deleted Snapshot CR's charge stays booked until it is given back.
LEMMA DeleteBooks ==
    ASSUME IInv, Typed', clean, NEW n \in Snaps, NEW s \in Shares, DeleteSnapshot(n), snapCache[n] = snap[n]
    PROVE  Exact(s)'
<1> DEFINE r == [pc |-> "unbook", share |-> snap[n].share, size |-> snap[n].size, instant |-> snap[n].instant]
<1>1. UNCHANGED <<pool, sv, mu>> /\ snapCall' = [snapCall EXCEPT ![n] = r] /\ snapCall[n].pc = "idle"
  BY DEF DeleteSnapshot, VolumeLocked
<1>2. r \in SnapCallType /\ r.pc = "unbook"
  BY Zenon DEF IInv, TypeOK, SnapCR, SnapCallType
<1>3. OwnGB(CallOwn(r), s) = OwnGB(SnapOwn(snap[n]), s)
  <2>1. snapshotChargeGB([share |-> r.share, size |-> r.size, instant |-> r.instant]) = snapshotChargeGB(snap[n])
    BY DEF snapshotChargeGB
  <2> QED
    BY <1>2, <2>1, CallOwnGB, Zenon DEF OwnGB, SnapOwn
<1> HIDE DEF r
<1>4. Tally(Booked, s)' = Tally(Booked, s) - OwnGB(CallOwn(snapCall[n]), s) + OwnGB(CallOwn(r), s)
  BY <1>1, <1>2, CallWrite, ZenonT(40) DEF IInv, Typed
<1>5. OwnGB(CallOwn(snapCall[n]), s) = 0
  BY <1>1, OnShareGB
<1>6. /\ OwnGB(SnapOwn(snap[n]), s) \in Nat
      /\ Tally(Charges(snap), s)' = Tally(Charges(snap), s) - OwnGB(SnapOwn(snap[n]), s)
  BY DeletedCR
<1>7. Tally(Charges(snap), s)' + Tally(Booked, s)' = Tally(Charges(snap), s) + Tally(Booked, s)
  BY <1>3, <1>4, <1>5, <1>6, SumsExact, SMTT(60) DEF Sums
<1> QED
  BY <1>1, <1>7, SnapshotMoves, SumsNext

-----------------------------------------------------------------------------
(* The status update that ends a call *)

\* It leaves the CRs alone; a booking changes by b, the pool's status by g and k.
LEMMA StatusMoves ==
    ASSUME IInv, clean, NEW s \in Shares, mu' = NoCall, UNCHANGED <<sv, snap>>,
           NEW g \in Int, NEW k \in Int, NEW b \in Int,
           pool'[s].alloc = pool[s].alloc + g, pool'[s].pvc = pool[s].pvc + k,
           LateGB(s) + b = g, LatePVC(s) = k,
           Tally(Booked, s)' = Tally(Booked, s) + b
    PROVE  Exact(s)'
<1>1. Sums(s) /\ Exact(s)
  BY SumsExact, Zenon
<1>2. LateGB(s)' = 0 /\ LatePVC(s)' = 0
  BY DEF LateGB, LatePVC, Late, NoCall
<1>3. /\ Tally(sv, s)' = Tally(sv, s) /\ Count(sv, s)' = Count(sv, s)
      /\ Tally(Charges(snap), s)' = Tally(Charges(snap), s)
  BY TalliesFrame
<1>4. pool'[s].alloc + LateGB(s)' = pool[s].alloc + LateGB(s) + b
  BY <1>1, <1>2, SMTT(60) DEF Sums
<1>5. pool'[s].pvc + LatePVC(s)' = pool[s].pvc + LatePVC(s) + 0
  BY <1>1, <1>2, Zenon DEF Sums
<1>6. Tally(sv, s)' + Tally(Charges(snap), s)' + Tally(Booked, s)'
        = Tally(sv, s) + Tally(Charges(snap), s) + Tally(Booked, s) + b
  BY <1>1, <1>3, SMTT(60) DEF Sums
<1>7. Count(sv, s)' = Count(sv, s) + 0
  BY <1>1, <1>3 DEF Sums
<1>8. 0 \in Int
  OBVIOUS
<1> QED
  BY <1>1, <1>4, <1>5, <1>6, <1>7, <1>8, Balanced, ZenonT(40)

\* The update of a call on a volume.
LEMMA VolumeStatus ==
    ASSUME IInv, clean', NEW s \in Shares, SaveStatus \/ LoseStatus,
           mu.op \in {"reserve", "dealloc", "expand"}
    PROVE  Exact(s)'
<1> DEFINE g == IF s = mu.share THEN mu.delta ELSE 0
           k == IF s = mu.share THEN mu.pvcs ELSE 0
<1>1. mu.pc = "save" /\ mu' = NoCall /\ UNCHANGED <<sv, snap>> /\ clean
  BY SaveFrame
<1>2. SaveStatus /\ snapCall' = snapCall
  BY Zenon DEF LoseStatus, SaveStatus, SnapAfter
<1>3. pool'[s].alloc = pool[s].alloc + g /\ pool'[s].pvc = pool[s].pvc + k
  BY <1>1, <1>2, SaveBooks
<1>4. LateGB(s) = g /\ LatePVC(s) = k /\ g \in Int /\ k \in Int
  BY <1>1, NumberTypes DEF LateGB, LatePVC, Late
<1> HIDE DEF g, k
<1>5. LateGB(s) + 0 = g /\ Tally(Booked, s)' = Tally(Booked, s) + 0
  BY <1>2, <1>4, TalliesFrame, SumsExact DEF Sums
<1> QED
  BY <1>1, <1>3, <1>4, <1>5, StatusMoves

\* What the call that books or gives back space is about.
LEMMA BookingCall ==
    ASSUME IInv, mu.op \in {"book", "unbook"}, NEW s \in Shares
    PROVE  /\ mu.name \in Snaps /\ snapCall[mu.name].pc = mu.op
           /\ LateGB(s) = 0 /\ LatePVC(s) = 0 /\ mu.pvcs = 0
           /\ (IF s = mu.share THEN mu.delta ELSE 0)
                = (IF mu.op = "book" THEN OnShare(mu.name, s) ELSE -OnShare(mu.name, s))
<1>1. /\ mu.name \in Snaps /\ snapCall[mu.name].pc = mu.op /\ mu.share = snapCall[mu.name].share /\ mu.pvcs = 0
      /\ mu.delta = IF mu.op = "book" THEN SnapCharge(mu.name) ELSE -SnapCharge(mu.name)
  BY DEF IInv, CallOK
<1>2. LateGB(s) = 0 /\ LatePVC(s) = 0
  BY DEF LateGB, LatePVC, Late
<1> QED
  BY <1>1, <1>2 DEF OnShare

\* bookShare's update is accepted.
LEMMA BookSaved ==
    ASSUME IInv, Typed', clean', NEW s \in Shares, SaveStatus, mu.op = "book"
    PROVE  Exact(s)'
<1> DEFINE n == mu.name
           r == [snapCall[n] EXCEPT !.pc = "create"]
<1>1. mu' = NoCall /\ UNCHANGED <<sv, snap>> /\ clean
  BY SaveFrame
<1>2. /\ n \in Snaps /\ snapCall[n].pc = "book" /\ LateGB(s) = 0 /\ LatePVC(s) = 0 /\ mu.pvcs = 0
      /\ (IF s = mu.share THEN mu.delta ELSE 0) = OnShare(n, s)
  BY BookingCall
<1>3. snapCall' = [snapCall EXCEPT ![n] = r]
  BY Zenon DEF SaveStatus, SnapAfter
<1>4. r \in SnapCallType
  BY <1>2, SnapCallStep, Zenon DEF IInv
<1>5. r.pc = "create" /\ r.share = snapCall[n].share /\ r.size = snapCall[n].size /\ r.instant = snapCall[n].instant
  BY <1>2 DEF IInv, TypeOK, SnapCallType
<1> HIDE DEF r, n
<1>6. OwnGB(CallOwn(r), s) = OnShare(n, s)
  BY <1>4, <1>5, CallOwnGB DEF OnShare, SnapCharge
<1>7. Tally(Booked, s)' = Tally(Booked, s) - OwnGB(CallOwn(snapCall[n]), s) + OwnGB(CallOwn(r), s)
  BY <1>2, <1>3, <1>4, CallWrite, ZenonT(40) DEF IInv, Typed
<1>8. OwnGB(CallOwn(snapCall[n]), s) = 0 /\ OnShare(n, s) \in Nat
  BY <1>2, OnShareGB, Zenon
<1>9. Tally(Booked, s)' = Tally(Booked, s) + OnShare(n, s) /\ LateGB(s) + OnShare(n, s) = OnShare(n, s)
  BY <1>2, <1>6, <1>7, <1>8, SumsExact, SMTT(60) DEF Sums
<1>10. pool'[s].alloc = pool[s].alloc + OnShare(n, s) /\ pool'[s].pvc = pool[s].pvc + 0
  BY <1>1, <1>2, SaveBooks, Zenon
<1> QED
  BY <1>1, <1>2, <1>8, <1>9, <1>10, StatusMoves

\* bookShare's update is refused: the call is over and nothing was charged.
LEMMA BookLost ==
    ASSUME IInv, Typed', clean', NEW s \in Shares, LoseStatus
    PROVE  Exact(s)'
<1> DEFINE n == mu.name
<1>1. mu' = NoCall /\ UNCHANGED <<sv, snap>> /\ clean
  BY SaveFrame
<1>2. mu.op = "book" /\ pool' = pool /\ snapCall' = [snapCall EXCEPT ![n] = IdleSnap]
  BY Zenon DEF LoseStatus, SnapAfter
<1>3. n \in Snaps /\ snapCall[n].pc = "book" /\ LateGB(s) = 0 /\ LatePVC(s) = 0
  BY <1>2, BookingCall
<1> HIDE DEF n
<1>4. OwnGB(CallOwn(snapCall[n]), s) = 0 /\ OwnGB(CallOwn(IdleSnap), s) = 0 /\ IdleSnap \in SnapCallType
  BY <1>3, OnShareGB
<1>5. Tally(Booked, s)' = Tally(Booked, s) - OwnGB(CallOwn(snapCall[n]), s) + OwnGB(CallOwn(IdleSnap), s)
  BY <1>2, <1>3, <1>4, CallWrite, Zenon DEF IInv, Typed
<1>6. Sums(s)
  BY SumsExact, Zenon
<1>7. /\ Tally(Booked, s)' = Tally(Booked, s) + 0 /\ LateGB(s) + 0 = 0
      /\ pool'[s].alloc = pool[s].alloc + 0 /\ pool'[s].pvc = pool[s].pvc + 0
  BY <1>2, <1>3, <1>4, <1>5, <1>6, SMTT(60) DEF Sums
<1> QED
  BY <1>1, <1>3, <1>7, StatusMoves, SMTT(60)

\* unbookShare's update is accepted.
LEMMA UnbookSaved ==
    ASSUME IInv, Typed', clean', NEW s \in Shares, SaveStatus, mu.op = "unbook"
    PROVE  Exact(s)'
<1> DEFINE n == mu.name
<1>1. mu' = NoCall /\ UNCHANGED <<sv, snap>> /\ clean
  BY SaveFrame
<1>2. /\ n \in Snaps /\ snapCall[n].pc = "unbook" /\ LateGB(s) = 0 /\ LatePVC(s) = 0 /\ mu.pvcs = 0
      /\ (IF s = mu.share THEN mu.delta ELSE 0) = -OnShare(n, s)
  BY BookingCall
<1>3. snapCall' = [snapCall EXCEPT ![n] = IdleSnap]
  BY Zenon DEF SaveStatus, SnapAfter
<1> HIDE DEF n
<1>4. /\ OwnGB(CallOwn(snapCall[n]), s) = OnShare(n, s) /\ OnShare(n, s) \in Nat
      /\ OwnGB(CallOwn(IdleSnap), s) = 0 /\ IdleSnap \in SnapCallType
  BY <1>2, OnShareGB
<1>5. Tally(Booked, s)' = Tally(Booked, s) - OwnGB(CallOwn(snapCall[n]), s) + OwnGB(CallOwn(IdleSnap), s)
  BY <1>2, <1>3, <1>4, CallWrite, ZenonT(40) DEF IInv, Typed
<1>6. Sums(s)
  BY SumsExact, Zenon
<1>7. /\ Tally(Booked, s)' = Tally(Booked, s) + (-OnShare(n, s)) /\ LateGB(s) + (-OnShare(n, s)) = -OnShare(n, s)
      /\ -OnShare(n, s) \in Int
  BY <1>2, <1>4, <1>5, <1>6, SMTT(60) DEF Sums
<1>8. pool'[s].alloc = pool[s].alloc + (-OnShare(n, s)) /\ pool'[s].pvc = pool[s].pvc + 0
  BY <1>1, <1>2, SaveBooks
<1> QED
  BY <1>1, <1>2, <1>7, <1>8, StatusMoves, SMTT(60)

\* The status update, whatever the call.
LEMMA StatusBooks ==
    ASSUME IInv, Typed', SaveStatus \/ LoseStatus, clean', NEW s \in Shares
    PROVE  Exact(s)'
<1>1. mu.op \in {"reserve", "dealloc", "expand", "book", "unbook"}
  BY SaveFrame DEF IInv, TypeOK, CallType
<1> QED
  BY <1>1, VolumeStatus, BookSaved, BookLost, UnbookSaved, ZenonT(40)

-----------------------------------------------------------------------------
(* The theorems *)

\* Every step keeps the accounts exact while nothing disturbs them.
LEMMA BooksStep == IInv /\ Typed' /\ [Next]_vars => BooksExact'
<1> SUFFICES ASSUME IInv, Typed', [Next]_vars, clean', NEW s \in Shares PROVE Exact(s)'
  BY DEF BooksExact, Exact, LateGB, LatePVC, Used
<1>0. clean => Exact(s)
  BY ExactShares DEF IInv
<1>b. ASSUME UNCHANGED <<pool, sv, snap, snapCall>>, clean,
             LateGB(s)' = LateGB(s), LatePVC(s)' = LatePVC(s)
      PROVE  Exact(s)'
  BY <1>0, <1>b, TalliesFrame DEF Exact
<1>a. ASSUME Begins PROVE Exact(s)'
  <2>1. PICK c \in CallType, b \in BOOLEAN :
           /\ BeginCall(c) /\ StaysClean(b) /\ UNCHANGED <<sv, snap, snapCall>>
           /\ c.pc = "cr" \/ c.op \in {"book", "unbook"}
    BY <1>a DEF Begins
  <2>2. mu.pc = "idle" /\ mu' = c /\ pool' = pool /\ clean
    BY <2>1, BeginDisturbs, Zenon
  <2>3. LateGB(s)' = LateGB(s) /\ LatePVC(s)' = LatePVC(s)
    BY <2>1, <2>2 DEF LateGB, LatePVC, Late
  <2> QED
    BY <1>b, <2>1, <2>2, <2>3, ZenonT(40)
<1>1. CASE VolumeCall
  BY <1>1, <1>a, CallsBegin
<1>2. CASE SnapshotCall
  <2>1. ASSUME NEW n \in Snaps, NEW i \in BOOLEAN, CreateSnapshot(n, i) PROVE Exact(s)'
    <3>1. clean
      BY <2>1 DEF CreateSnapshot
    <3> QED
      BY <2>1, <3>1, QuietBooks, ZenonT(40)
  <2>2. ASSUME NEW n \in Snaps, DeleteSnapshot(n) PROVE Exact(s)'
    <3>1. clean /\ snapCache[n] = snap[n]
      BY <2>2, Zenon DEF DeleteSnapshot
    <3> QED
      BY <2>2, <3>1, DeleteBooks
  <2> QED
    BY <1>2, <2>1, <2>2 DEF SnapshotCall
<1>3. CASE SnapshotStep
  <2>1. CASE \E n \in Snaps : bookShare(n) \/ unbookShare(n)
    BY <2>1, <1>a, CallsBegin
  <2>2. ASSUME NEW n \in Snaps, bookRefused(n) \/ CreateSnapshotCR(n) PROVE Exact(s)'
    <3>1. clean
      BY <2>2, Zenon DEF bookRefused, CreateSnapshotCR
    <3> QED
      BY <2>2, <3>1, QuietBooks, CRRefusedBooks, CRCreatedBooks, ZenonT(40)
  <2> QED
    BY <1>3, <2>1, <2>2 DEF SnapshotStep
<1>4. CASE ManagerStep
  <2>1. CASE CreateSubVolume \/ DeleteSubVolume \/ UpdateSubVolume
    <3>1. clean
      BY <2>1, Zenon DEF CreateSubVolume, DeleteSubVolume, UpdateSubVolume
    <3> QED
      BY <2>1, <3>1, VolumeBooks
  <2>2. CASE SaveStatus \/ LoseStatus
    BY <2>2, StatusBooks
  <2> QED
    BY <1>4, <2>1, <2>2 DEF ManagerStep
<1>5. CASE Pass
  <2>0. UNCHANGED <<mu, sv, snap, snapCall>>
    BY <1>5, Zenon DEF Pass, Reconcile, ListSubVolumes, ListSnapshots, ListFails, SavePass
  <2>a. LateGB(s)' = LateGB(s) /\ LatePVC(s)' = LatePVC(s)
    BY <2>0 DEF LateGB, LatePVC, Late
  <2>1. CASE Reconcile \/ ListSubVolumes \/ ListSnapshots \/ ListFails
    <3>1. pool' = pool /\ clean
      BY <2>1, Zenon DEF Reconcile, ListSubVolumes, ListSnapshots, ListFails
    <3> QED
      BY <1>b, <2>0, <2>a, <3>1
  <2>2. CASE SavePass
    <3>1. CASE clean /\ pool' = pool
      BY <1>b, <2>0, <2>a, <3>1, ZenonT(40)
    <3>2. CASE ~InFlight /\ pool' = Recount(sv, snap)
      <4>1. Tally(Booked, s) = 0 /\ LateGB(s) = 0 /\ LatePVC(s) = 0
        BY <3>2, NothingInFlight DEF IInv
      <4>2. /\ pool'[s].alloc = Tally(sv, s) + Tally(Charges(snap), s)
            /\ pool'[s].pvc = Count(sv, s)
        BY <3>2 DEF Recount
      <4>3. /\ Tally(sv, s)' = Tally(sv, s) /\ Count(sv, s)' = Count(sv, s)
            /\ Tally(Charges(snap), s)' = Tally(Charges(snap), s) /\ Tally(Booked, s)' = Tally(Booked, s)
        BY <2>0, TalliesFrame
      <4>4. /\ Tally(sv, s) \in Nat /\ Count(sv, s) \in Nat /\ Tally(Charges(snap), s) \in Nat
        BY NumberTypes
      <4> QED
        BY <2>a, <4>1, <4>2, <4>3, <4>4 DEF Exact
    <3> QED
      BY <2>2, <3>1, <3>2, SaveAlone, ZenonT(40)
  <2> QED
    BY <1>5, <2>1, <2>2 DEF Pass
<1>6. CASE OtherWrite \/ SyncPool \/ SyncVolumes \/ SyncSnaps \/ UNCHANGED vars
  <2>1. UNCHANGED <<pool, sv, snap, snapCall, mu>> /\ clean
    BY <1>6, Zenon DEF OtherWrite, SyncPool, SyncVolumes, SyncSnaps, vars
  <2>2. LateGB(s)' = LateGB(s) /\ LatePVC(s)' = LatePVC(s)
    BY <2>1 DEF LateGB, LatePVC, Late
  <2> QED
    BY <1>b, <2>1, <2>2
<1>7. CASE Restart
  <2>1. UNCHANGED <<pool, sv, snap>> /\ clean /\ ~InFlight
    BY <1>7, ZenonT(40) DEF Restart
  <2>2. ~InFlight'
    BY <1>7 DEF Restart, InFlight, MuFree, MidSnap, NoCall, IdleSnap
  <2>3. Tally(Booked, s) = 0 /\ LateGB(s) = 0 /\ LatePVC(s) = 0
    BY <2>1, NothingInFlight DEF IInv
  <2>4. LateGB(s)' = 0 /\ LatePVC(s)' = 0
    BY <1>7 DEF Restart, NoCall, LateGB, LatePVC, Late
  <2>5. Tally(Booked, s)' = 0
    <3>1. \A n \in Snaps : Booked'[n].gb = 0
      BY <1>7 DEF Restart, Booked, MidSnap, IdleSnap
    <3>2. Booked' \in [Snaps -> ChargeRec]
      BY <1>7, NothingType, CapacityAssumption DEF Restart, Booked, MidSnap, IdleSnap, ChargeRec
    <3>3. Tally(Booked', s) = 0
      BY <3>1, <3>2, TallyZero
    <3> QED
      BY <3>3, Zenon DEF Tally, Blocks
  <2>6. /\ Tally(sv, s)' = Tally(sv, s) /\ Count(sv, s)' = Count(sv, s)
        /\ Tally(Charges(snap), s)' = Tally(Charges(snap), s)
    BY <2>1, TalliesFrame
  <2> QED
    BY <1>0, <2>1, <2>3, <2>4, <2>5, <2>6, ZenonT(40) DEF Exact
<1> QED
  BY <1>1, <1>2, <1>3, <1>4, <1>5, <1>6, <1>7, ZenonT(40) DEF Next

\* The initial state satisfies the inductive invariant.
LEMMA InitInv == Init => IInv
<1> SUFFICES ASSUME Init PROVE IInv
  OBVIOUS
<1>1. TypeOK /\ CallOK
  BY InitTyped, Zenon DEF Typed
<1>2. CopiesCurrent /\ RoomChecked
  BY DEF Init, CopiesCurrent, RoomChecked, NoCall, IdlePass
<1>3. PassExact
  BY DEF Init, PassExact, IdlePass
<1>4. ReadsExact
  BY DEF Init, ReadsExact, NoCall
<1>5. BookedFits
  BY DEF Init, BookedFits, IdleSnap
<1>6. BooksExact
  <2> SUFFICES ASSUME NEW s \in Shares PROVE Exact(s)
    BY ExactShares
  <2>1. ~InFlight
    BY DEF Init, InFlight, MuFree, MidSnap, NoCall, IdleSnap
  <2>2. Tally(Booked, s) = 0 /\ LateGB(s) = 0 /\ LatePVC(s) = 0
    BY <1>1, <2>1, NothingInFlight
  <2>3. Tally(sv, s) = 0
    <3>1. sv \in [Volumes -> ChargeRec] /\ \A v \in Volumes : sv[v].gb = 0
      BY NothingType, CapacityAssumption DEF Init, NoVol, ChargeRec
    <3> QED
      BY <3>1, TallyZero
  <2>4. Tally(Charges(snap), s) = 0
    <3>1. Charges(snap) \in [Snaps -> ChargeRec] /\ \A n \in Snaps : Charges(snap)[n].gb = 0
      BY NothingType, CapacityAssumption DEF Init, NoSnap, Charges, ChargeRec, snapshotChargeGB
    <3> QED
      BY <3>1, TallyZero
  <2>5. Count(sv, s) = 0
    <3>1. {v \in DOMAIN sv : sv[v].share = s /\ sv[v].gb > 0} = {}
      BY DEF Init, NoVol
    <3> QED
      BY <3>1, FS_EmptySet DEF Count
  <2>6. pool[s].alloc = 0 /\ pool[s].pvc = 0
    BY DEF Init, NoBooks
  <2> QED
    BY <2>2, <2>3, <2>4, <2>5, <2>6 DEF Exact
<1> QED
  BY <1>1, <1>2, <1>3, <1>4, <1>5, <1>6, ZenonT(40) DEF IInv

\* Every step keeps the inductive invariant.
LEMMA NextInv == IInv /\ [Next]_vars => IInv'
<1> SUFFICES ASSUME IInv, [Next]_vars PROVE IInv'
  OBVIOUS
<1>1. Typed
  BY DEF IInv, Typed
<1>2. Typed'
  BY <1>1, NextTyped
<1>3. CopiesCurrent' /\ RoomChecked'
  BY <1>1, CopiesStep, RoomStep DEF IInv
<1>4. PassExact' /\ ReadsExact' /\ BookedFits' /\ BooksExact'
  BY <1>2, PassStep, ReadsStep, BookedStep, BooksStep, ZenonT(40)
<1> QED
  BY <1>2, <1>3, <1>4 DEF IInv, Typed

\* BooksExact: for any number of volumes, snapshots and shares, AllocatedGB and
\* PVCCount are those of the CRs while nothing has disturbed them, and again
\* after every undisturbed recount.
THEOREM BooksStayExact == Spec => []BooksExact
<1>1. IInv => BooksExact
  BY Zenon DEF IInv
<1> QED
  BY <1>1, InitInv, NextInv, PTL DEF Spec

\* A write of a SubVolume that adds to a share's CRs fits into the share.
LEMMA VolumeGrowth ==
    ASSUME IInv, clean, NEW s \in Shares, CreateSubVolume \/ DeleteSubVolume \/ UpdateSubVolume,
           Used(s)' > Used(s)
    PROVE  Used(s)' <= TotalGB
<1>1. mu.pc = "cr" /\ snap' = snap
  BY ZenonT(40) DEF CreateSubVolume, DeleteSubVolume, UpdateSubVolume
<1>2. \/ sv' = sv
      \/ /\ Tally(sv, s)' = Tally(sv, s) + (IF s = mu.share THEN mu.delta ELSE 0)
         /\ mu.delta > 0 => pool[mu.share].alloc + mu.delta <= TotalGB
  BY VolumeBooks
<1>3. Tally(Charges(snap), s)' = Tally(Charges(snap), s) /\ (sv' = sv => Tally(sv, s)' = Tally(sv, s))
  BY <1>1, TalliesFrame
<1>4. Used(s) = Tally(sv, s) + Tally(Charges(snap), s) /\ Used(s)' = Tally(sv, s)' + Tally(Charges(snap), s)'
  BY DEF Used
<1>5. Sums(s) /\ Exact(s) /\ LateGB(s) = 0 /\ mu.delta \in Int /\ TotalGB \in Int
  BY <1>1, SumsExact, NumberTypes DEF LateGB, Late
<1>6. pool[s].alloc = Tally(sv, s) + Tally(Charges(snap), s) + Tally(Booked, s)
  BY <1>5 DEF Sums, Exact
<1>7. s = mu.share /\ mu.delta > 0 /\ Tally(sv, s)' = Tally(sv, s) + mu.delta
  BY <1>2, <1>3, <1>4, <1>5 DEF Sums
<1> QED
  BY <1>2, <1>3, <1>4, <1>5, <1>6, <1>7, SMTT(60) DEF Sums

\* A new Snapshot CR fits into its share.
LEMMA SnapshotGrowth ==
    ASSUME IInv, Typed', clean, NEW n \in Snaps, NEW s \in Shares, CreateSnapshotCR(n), Used(s)' > Used(s)
    PROVE  Used(s)' <= TotalGB
<1>1. snapCall[n].pc = "create" /\ sv' = sv
  BY DEF CreateSnapshotCR
<1>2. Used(s) = Tally(sv, s) + Tally(Charges(snap), s) /\ Used(s)' = Tally(sv, s)' + Tally(Charges(snap), s)'
  BY Zenon DEF Used
<1>3. Tally(sv, s)' = Tally(sv, s) /\ (snap' = snap => Tally(Charges(snap), s)' = Tally(Charges(snap), s))
  BY <1>1, TalliesFrame, Zenon
<1>4. /\ Exact(s) /\ OnShare(n, s) \in Int /\ TotalGB \in Int
      /\ pool[s].alloc \in Int /\ LateGB(s) \in Int
      /\ Tally(sv, s) \in Int /\ Tally(Charges(snap), s) \in Int /\ Tally(Booked, s) \in Int
  <2>1. Sums(s) /\ Exact(s)
    BY SumsExact, Zenon
  <2>2. OnShare(n, s) \in Nat
    BY OnShareGB, Zenon
  <2>3. TotalGB \in Nat
    BY NumberTypes, ZenonT(40)
  <2> QED
    BY <2>1, <2>2, <2>3 DEF Sums
<1>5. snap' # snap
  BY <1>2, <1>3, <1>4
<1>6. Tally(Charges(snap), s)' = Tally(Charges(snap), s) + OnShare(n, s) /\ OnShare(n, s) <= Tally(Booked, s)
  BY <1>5, CRCreatedBooks, Zenon
<1>7. snapCall[n].share = s
  BY <1>2, <1>3, <1>4, <1>6, SMTT(60) DEF OnShare
<1>8. pool[s].alloc <= TotalGB
  BY <1>1, <1>7, Zenon DEF IInv, BookedFits
<1>9. LateGB(s) > 0 => pool[s].alloc + LateGB(s) <= TotalGB
  <2> SUFFICES ASSUME LateGB(s) > 0 PROVE pool[s].alloc + LateGB(s) <= TotalGB
    OBVIOUS
  <2>1. Late(s) /\ LateGB(s) = mu.delta
    BY DEF LateGB
  <2>2. mu.op \in {"reserve", "dealloc", "expand"} /\ mu.share = s /\ muCopy = pool
    BY <2>1, Zenon DEF Late, IInv, ReadsExact
  <2>3. mu.op = "dealloc" => mu.delta = -mu.was.gb /\ mu.was.gb > 0 /\ mu.was.gb \in Int
    BY CapacityAssumption DEF IInv, CallOK, TypeOK, CallType, VolCR
  <2>4. mu.op # "dealloc"
    BY <2>1, <2>3
  <2> QED
    BY <2>1, <2>2, <2>4, Zenon DEF IInv, RoomChecked
<1>10. Tally(sv, s) + Tally(Charges(snap), s) + Tally(Booked, s) <= TotalGB
  BY <1>4, <1>8, <1>9, SMTT(60) DEF Exact
<1> QED
  BY <1>2, <1>3, <1>4, <1>6, <1>10, SMTT(60)

\* The step that makes a share's CRs ask for more finds the room for it.
LEMMA GrowthFits ==
    ASSUME IInv, [Next]_vars, clean, NEW s \in Shares, Used(s)' > Used(s)
    PROVE  Used(s)' <= TotalGB
<1>1. Typed'
  BY NextTyped DEF IInv, Typed
<1>2. ~(UNCHANGED <<sv, snap>>)
  <2>1. UNCHANGED <<sv, snap>> => Used(s)' = Used(s)
    BY TalliesFrame DEF Used
  <2>2. Used(s) \in Int
    BY SumsExact DEF Used, Sums
  <2> QED
    BY <2>1, <2>2
<1>3. ASSUME NEW n \in Snaps, DeleteSnapshot(n) PROVE FALSE
  <2>1. /\ OwnGB(SnapOwn(snap[n]), s) \in Nat
        /\ Tally(Charges(snap), s)' = Tally(Charges(snap), s) - OwnGB(SnapOwn(snap[n]), s)
    BY <1>3, DeletedCR
  <2>2. Tally(sv, s)' = Tally(sv, s)
    BY <1>3, TalliesFrame DEF DeleteSnapshot
  <2> QED
    BY <2>1, <2>2, SumsExact DEF Used, Sums
<1>4. CASE VolumeCall
  BY <1>1, <1>2, <1>4, CallsBegin DEF Begins
<1>5. CASE SnapshotCall
  BY <1>2, <1>3, <1>5, Zenon DEF SnapshotCall, CreateSnapshot
<1>6. CASE SnapshotStep
  BY <1>1, <1>2, <1>6, SnapshotGrowth, Zenon DEF SnapshotStep, bookShare, unbookShare, bookRefused, BeginCall
<1>7. CASE ManagerStep
  BY <1>2, <1>7, VolumeGrowth, SaveFrame DEF ManagerStep
<1>8. CASE Pass
  BY <1>8, <1>2, Zenon DEF Pass, Reconcile, ListSubVolumes, ListSnapshots, ListFails, SavePass
<1>9. CASE OtherWrite \/ SyncPool \/ SyncVolumes \/ SyncSnaps \/ Restart \/ UNCHANGED vars
  BY <1>9, <1>2, Zenon DEF OtherWrite, SyncPool, SyncVolumes, SyncSnaps, Restart, vars
<1> QED
  BY <1>4, <1>5, <1>6, <1>7, <1>8, <1>9 DEF Next

\* NoCleanOvercommit: over-commitment of a share needs a stale read, a recount
\* that overlaps a call, a lost status update or a restart in mid-call.
THEOREM OvercommitNeedsDisturbance == Spec => NoCleanOvercommit
<1>1. IInv /\ [Next]_vars => [\A s \in Shares : clean /\ Used(s)' > Used(s) => Used(s)' <= TotalGB]_vars
  BY GrowthFits
<1> QED
  BY <1>1, InitInv, NextInv, PTL DEF Spec, NoCleanOvercommit
=============================================================================
