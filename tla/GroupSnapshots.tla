--------------------------- MODULE GroupSnapshots ---------------------------
(***************************************************************************)
(* Group snapshots: the pool Manager's CreateVolumeGroupSnapshot,          *)
(* refreshGroupSnapshot and DeleteVolumeGroupSnapshot, and the CSI calls   *)
(* on top of them (pkg/pool/manager.go, pkg/driver/controller.go).         *)
(*                                                                         *)
(* A call walks through the members one by one and writes the group's      *)
(* status on its way; a write that fails is only logged, and the next one  *)
(* writes the whole status again.  A crash may leave it anywhere.  A       *)
(* member is a file snapshot: its copy and its removal are Jobs, so the    *)
(* first call to CreateSnapshot finds the copy not ready, and a call to    *)
(* DeleteSnapshot stops the copy, starts the removal or finds it ended.    *)
(***************************************************************************)
EXTENDS Naturals, Sequences, FiniteSets

CONSTANTS Sources,    \* the volumes of the request, in its order
          CopyOrder,  \* the order the parameters ask for
          Policies,   \* failure policies: "Abort", "Continue"
          Troubles    \* bound: crashes and failing calls

VARIABLES policy,     \* the failure policy of this behaviour
          group,      \* phase in the VolumeGroupSnapshot; "none": no such CR
          member,     \* phase of each member in its status
          snap,       \* the Snapshot CR of each member
          data,       \* the members whose folder holds the copied data
          copying,    \* the copy Job of each member: none, or is it ended or deleted?
          removing,   \* the removal Job of each member
          call,       \* the call that runs, its member, and the status it has in memory
          asked,      \* what the CSI sidecar asks for
          trouble

vars == <<policy, group, member, snap, data, copying, removing, call, asked, trouble>>
status == <<group, member>>
shares == <<snap, data, copying, removing>>

\* Volumes that the copy order does not name come last; names it does not
\* know are skipped.
resolveCopyOrder(ids, order) ==
  LET In(q) == {q[i] : i \in DOMAIN q} IN
  SelectSeq(order, LAMBDA v : v \in In(ids)) \o SelectSeq(ids, LAMBDA v : v \notin In(order))

Order   == resolveCopyOrder(Sources, CopyOrder)
Members == {Order[i] : i \in DOMAIN Order}
Ended   == {"Complete", "PartialFailure", "Failed"}
Unknown == [m \in Members |-> "none"]
Idle    == [op |-> "idle", at |-> 1, mem |-> Unknown]

Disturb == trouble < Troubles /\ trouble' = trouble + 1
Calm    == UNCHANGED trouble

Count(ph, p) == Cardinality({m \in Members : ph[m] = p})

\* The phase of a group from the phases of its members.
finalPhaseMutant(ph) ==
  IF Count(ph, "Failed") > 0 THEN "PartialFailure" ELSE "Complete"
finalPhase(ph) ==
  CASE Count(ph, "Ready") + Count(ph, "Failed") < Cardinality(Members) -> "InProgress"
    [] Count(ph, "Failed") > 0 -> "PartialFailure"
    [] OTHER -> "Complete"

(* CreateSnapshot and DeleteSnapshot of a member, as the group sees them.  *)

\* The copy is started, asked about, or found ended, which is answered once
\* unless the Job is already being deleted.
CreateSnapshot(m) ==
  CASE snap[m] = "Ready" -> [says |-> "Ready", copying |-> copying[m]]
    [] snap[m] # "Ready" /\ copying[m] = {} -> [says |-> "Creating", copying |-> {"job"}]
    [] "ended" \in copying[m] -> [says |-> "Ready", copying |-> IF "stopping" \in copying[m] THEN copying[m] ELSE {}]
    [] OTHER -> [says |-> "Creating", copying |-> copying[m]]
Created(m) ==
  /\ snap' = [snap EXCEPT ![m] = CreateSnapshot(m).says]
  /\ copying' = [copying EXCEPT ![m] = CreateSnapshot(m).copying]
  /\ data' = IF copying[m] = {} /\ snap[m] # "Ready" THEN data \ {m} ELSE data

\* The copy's Job is deleted and its pods waited for, then the folder is
\* removed, then the Snapshot: every call but the last answers an error.
DeleteSnapshot(m) ==
  /\ copying' = [copying EXCEPT ![m] = IF snap[m] = "none" \/ @ = {} THEN @ ELSE @ \cup {"stopping"}]
  /\ IF snap[m] = "none" \/ copying[m] # {} THEN UNCHANGED <<snap, removing>>
     ELSE /\ snap' = [snap EXCEPT ![m] = IF removing[m] = "ended" THEN "none" ELSE @]
          /\ removing' = [removing EXCEPT ![m] = IF @ = "ended" THEN "no" ELSE "begun"]
  /\ UNCHANGED data

----------------------------------------------------------------------------
(* CreateVolumeGroupSnapshot.                                              *)

\* UpdateVolumeGroupSnapshotStatus: the whole status is written, or the
\* failure is logged and the call goes on.
Writes(ph, mem) ==
  \/ group' = ph /\ member' = mem /\ Calm
  \/ Disturb /\ UNCHANGED status

\* A first call makes the CR and writes its status twice, with all members
\* Pending: before the second write is there the group has no phase that a
\* later call goes on with.
CreateGroup ==
  LET pending == [m \in Members |-> "Pending"] IN
  /\ asked = "create" /\ call = Idle /\ group = "none"
  /\ \/ group' = "InProgress" /\ member' = pending /\ Calm
     \/ group' = "bare" /\ member' \in {Unknown, pending} /\ Disturb
  /\ call' = [op |-> "create", at |-> 1, mem |-> pending]
  /\ UNCHANGED <<policy, shares, asked>>

AtEnd == call.at > Len(Order)
Advance(mem) == call' = [call EXCEPT !.at = @ + 1, !.mem = mem]
Memory(m, ph) == [call.mem EXCEPT ![m] = ph]

\* One member: its Snapshot is made and its copy started.
createMember ==
  /\ call.op = "create" /\ ~AtEnd
  /\ LET m   == Order[call.at]
         mem == Memory(m, CreateSnapshot(m).says) IN
     Created(m) /\ Advance(mem) /\ Writes("InProgress", mem)
  /\ UNCHANGED <<policy, removing, asked>>

\* A member fails, after it was written as Creating.  Abort marks the rest as
\* failed and takes back what was made; Continue goes on.
memberFails ==
  /\ call.op = "create" /\ ~AtEnd /\ Disturb
  /\ group' = "InProgress" /\ member' = Memory(Order[call.at], "Creating")
  /\ call' = IF policy = "Continue" THEN [call EXCEPT !.at = @ + 1, !.mem[Order[call.at]] = "Failed"]
             ELSE [op |-> "abort", at |-> 1,
                   mem |-> [x \in Members |-> IF \E i \in 1 .. call.at - 1 : x = Order[i]
                                                THEN call.mem[x] ELSE "Failed"]]
  /\ UNCHANGED <<policy, shares, asked>>

\* Each member that was made is deleted once; an error, "in progress"
\* included, is logged.
rollback ==
  /\ call.op = "abort" /\ ~AtEnd
  /\ LET m == Order[call.at] IN
     \/ call.mem[m] # "Failed" /\ DeleteSnapshot(m) /\ Calm
     \/ call.mem[m] # "Failed" /\ Disturb /\ UNCHANGED shares
     \/ call.mem[m] = "Failed" /\ Calm /\ UNCHANGED shares
  /\ Advance(call.mem)
  /\ UNCHANGED <<policy, status, asked>>

endCreate ==
  /\ call.op \in {"create", "refresh", "abort"} /\ AtEnd
  /\ Writes(IF call.op = "abort" THEN "Failed" ELSE finalPhase(call.mem), call.mem)
  /\ call' = Idle
  /\ UNCHANGED <<policy, shares, asked>>

\* A later call asks again about the members that are not ready, and writes
\* what it heard once, at its end.
refreshGroupSnapshot ==
  /\ asked = "create" /\ call = Idle /\ group = "InProgress"
  /\ call' = [op |-> "refresh", at |-> 1, mem |-> member]
  /\ Calm
  /\ UNCHANGED <<policy, status, shares, asked>>

refreshMember ==
  /\ call.op = "refresh" /\ ~AtEnd
  /\ LET m == Order[call.at] IN
     IF call.mem[m] \in {"Pending", "Creating"}
       THEN \/ Created(m) /\ Advance(Memory(m, CreateSnapshot(m).says)) /\ Calm
            \/ Advance(Memory(m, "Failed")) /\ Disturb /\ UNCHANGED <<snap, copying, data>>
       ELSE Advance(call.mem) /\ Calm /\ UNCHANGED <<snap, copying, data>>
  /\ UNCHANGED <<policy, status, removing, asked>>

\* The copy Job of a member has filled its folder, or its last pod is gone.
CopyEnds(m) ==
  /\ "job" \in copying[m]
  /\ \/ /\ "ended" \notin copying[m] /\ data' = data \cup {m}
        /\ copying' = [copying EXCEPT ![m] = @ \cup {"ended"}]
     \/ "stopping" \in copying[m] /\ copying' = [copying EXCEPT ![m] = {}] /\ UNCHANGED data
  /\ Calm
  /\ UNCHANGED <<policy, status, snap, removing, call, asked>>

RemoveEnds(m) ==
  /\ removing[m] = "begun"
  /\ removing' = [removing EXCEPT ![m] = "ended"]
  /\ data' = data \ {m}
  /\ Calm
  /\ UNCHANGED <<policy, status, snap, copying, call, asked>>

----------------------------------------------------------------------------
(* DeleteVolumeGroupSnapshot: every member once, then the group.           *)

DeleteVolumeGroupSnapshot ==
  /\ asked = "delete" /\ call = Idle /\ group # "none"
  /\ call' = [op |-> "delete", at |-> 1, mem |-> member]
  /\ Calm
  /\ UNCHANGED <<policy, status, shares, asked>>

\* An error, "in progress" included, is logged and the next member follows.
\* Members that the status does not list are not known.
deleteMember ==
  /\ call.op = "delete" /\ ~AtEnd
  /\ LET m == Order[call.at] IN
     IF call.mem[m] = "none" THEN UNCHANGED shares ELSE DeleteSnapshot(m)
  /\ Advance(call.mem) /\ Calm
  /\ UNCHANGED <<policy, status, asked>>

deleteGroup ==
  /\ call.op = "delete" /\ AtEnd
  /\ Writes("none", Unknown)
  /\ call' = Idle
  /\ UNCHANGED <<policy, shares, asked>>

\* The sidecar, on behalf of a person: delete follows create.
AskDelete ==
  /\ asked = "create" /\ call = Idle /\ group # "none"
  /\ asked' = "delete"
  /\ Calm
  /\ UNCHANGED <<policy, status, shares, call>>

Restart ==
  /\ call # Idle /\ Disturb
  /\ call' = Idle
  /\ UNCHANGED <<policy, status, shares, asked>>

Init ==
  /\ policy \in Policies
  /\ group = "none" /\ member = Unknown
  /\ snap = Unknown /\ data = {}
  /\ copying = [m \in Members |-> {}] /\ removing = [m \in Members |-> "no"]
  /\ call = Idle /\ asked = "create"
  /\ trouble = 0

Calls ==
  \/ CreateGroup \/ createMember \/ memberFails \/ rollback \/ endCreate
  \/ refreshGroupSnapshot \/ refreshMember
  \/ DeleteVolumeGroupSnapshot \/ deleteMember \/ deleteGroup

Next ==
  \/ CreateGroup \/ createMember \/ memberFails \/ rollback \/ endCreate
  \/ refreshGroupSnapshot \/ refreshMember
  \/ DeleteVolumeGroupSnapshot \/ deleteMember \/ deleteGroup
  \/ \E m \in Members : CopyEnds(m) \/ RemoveEnds(m)
  \/ AskDelete \/ Restart

Spec == Init /\ [][Next]_vars

Fairness ==
  /\ WF_vars(Calls /\ Calm)
  /\ WF_vars(\E m \in Members : CopyEnds(m) \/ RemoveEnds(m))

FairSpec == Spec /\ Fairness

\* What GetVolumeGroupSnapshot answers.
ReadyToUse == group = "Complete"

----------------------------------------------------------------------------

TypeOK ==
  /\ policy \in Policies
  /\ group \in Ended \cup {"none", "bare", "InProgress"}
  /\ member \in [Members -> {"none", "Pending", "Creating", "Ready", "Failed"}]
  /\ snap \in [Members -> {"none", "Creating", "Ready"}]
  /\ data \subseteq Members /\ removing \in [Members -> {"no", "begun", "ended"}]
  /\ copying \in [Members -> SUBSET {"job", "ended", "stopping"}]
  /\ call.op \in {"idle", "create", "abort", "refresh", "delete"} /\ call.at \in 1 .. Len(Order) + 1
  /\ asked \in {"create", "delete"}
  /\ trouble \in 0..Troubles

\* A group that is Complete has a ready snapshot with data of every member,
\* whatever calls were cut and repeated before (finalPhase,
\* refreshGroupSnapshot), also when an Abort took members back and its last
\* write was lost, until its deletion is asked for.
CompleteIsWhole ==
  ReadyToUse /\ asked = "create" => \A m \in Members : snap[m] = "Ready" /\ m \in data

GroupOver == ~(group = "InProgress" /\ asked = "create")

\* A recorded group leaves InProgress: its callers' retries ask about every
\* member until each is ready or failed.  A group whose InProgress was never
\* written is not gone on with and is left out.
GroupEnds == []<>GroupOver

\* "deletes all member snapshots and the group CR": when the group is gone,
\* so is every member's Snapshot.
MembersGone == asked = "delete" /\ group = "none" => \A m \in Members : snap[m] = "none"

=============================================================================
