------------------------------- MODULE MCFar -------------------------------
(***************************************************************************)
(* The way of a running VM's disks to the far site: QEMU copies them       *)
(* (VMCopies), a copy is uploaded to the receiver (DiskUpload), and a VM   *)
(* is brought up there from the copies (Failovers).  One of them takes the *)
(* steps of each behaviour.                                                *)
(***************************************************************************)
EXTENDS Integers

CONSTANT Loses   \* a session folder may go between the compare and the PUT of a try

VARIABLE part   \* the component that takes the steps of this behaviour
VARIABLES load, pod, moving, jobs, lists, staging, made, snap, sJob, folder, pass, rep,
          repAt, rJob, far, lost,
          job, disk, session, calling, put, pc, know, trouble,
          claim, shows, landing, rewound, fo, failoverJob, objects, cli

\* A VM with two disks, a Snapshot of each, and replication of both.
SnapDisks == [s1 |-> "d1", s2 |-> "d2"]
Asked ==
  {[snaps |-> {"s1", "s2"}, doomed |-> {"s1"}, copies |-> 0, mode |-> "direct"],
   [snaps |-> {"s1"}, doomed |-> {"s1"}, copies |-> 1, mode |-> "direct"],
   [snaps |-> {}, doomed |-> {}, copies |-> 3, mode |-> "direct"],
   [snaps |-> {}, doomed |-> {}, copies |-> 3, mode |-> "receiver"]}

\* A disk of three chunks at three moments, and two senders: two pods of one
\* full copy, a full copy and a change copy, two full copies of two moments.
\* The far disk is not there (-1), shows moment 1, or an unknown one (0).
Pictures == << <<1, 2, 1>>, <<1, 0, 2>>, <<2, 2, 2>> >>
full2 == [id |-> "a", from |-> -1, to |-> 2, full |-> TRUE]
change2 == [id |-> "b", from |-> 1, to |-> 2, full |-> FALSE]
full3 == [id |-> "c", from |-> -1, to |-> 3, full |-> TRUE]
Sent == {[s1 |-> full2, s2 |-> full2], [s1 |-> full2, s2 |-> full3],
           [s1 |-> change2, s2 |-> full3]}
FarDisks == {[at |-> -1, data |-> <<0, 0, 0>>], [at |-> 1, data |-> <<1, 2, 1>>],
             [at |-> 0, data |-> <<1, 1, 2>>]}

\* A VM of two disks: one is a copy ahead of the other, or has no copy yet.
Uneven == {[claim |-> FALSE, shows |-> [d1 |-> 2, d2 |-> 1]],
           [claim |-> TRUE, shows |-> [d1 |-> 2, d2 |-> 0]]}

Copying == INSTANCE VMCopies WITH
  Disks <- {"d1", "d2"}, Snaps <- {"s1", "s2"}, DiskOf <- SnapDisks, Loads <- Asked,
  Ids <- 1 .. 5, Attempts <- 2, Troubles <- 1, trouble <- lost

Upload == INSTANCE DiskUpload WITH
  Chunks <- 1 .. 3, Image <- Pictures, Jobs <- Sent, Starts <- FarDisks, Buffer <- 2,
  Troubles <- 2

Failover == INSTANCE Failovers WITH
  Names <- {"a", "b"}, Disks <- <<"d1", "d2">>, Starts <- Uneven, Latest <- 2, Rewinds <- {0, 1},
  Lives <- 3, Leftovers <- FALSE, Overlap <- FALSE, Troubles <- 1,
  job <- failoverJob

copyVars == <<load, pod, moving, jobs, lists, staging, made, snap, sJob, folder, pass, rep, repAt,
              rJob, far, lost>>
uploadOnly == <<job, disk, session, calling, put, pc, know>>
failoverOnly == <<claim, shows, landing, rewound, fo, failoverJob, objects, cli>>
vars == <<part, copyVars, uploadOnly, failoverOnly, trouble>>

\* The components that take no steps stay in one of their initial states.
Init ==
  /\ part \in {"copying", "upload", "failover"}
  /\ Copying!Init /\ Upload!Init /\ Failover!Init
  /\ part # "copying" => load.mode = "receiver"
  /\ part # "upload" => job.s1.id = job.s2.id /\ disk.at = 1
  /\ part # "failover" => claim

Next ==
  /\ UNCHANGED part
  /\ \/ part = "copying" /\ Copying!Next /\ UNCHANGED <<uploadOnly, failoverOnly, trouble>>
     \/ part = "upload" /\ Upload!Next /\ UNCHANGED <<copyVars, failoverOnly>>
     \/ part = "failover" /\ Failover!Next /\ UNCHANGED <<copyVars, uploadOnly>>

Spec == Init /\ [][Next]_vars

UploadVars == Upload!vars
FailoverVars == Failover!vars

\* The fairness of each component; see its module.
FairSpec ==
  /\ Spec
  /\ WF_copyVars(part = "copying" /\ Copying!Loop)
  /\ WF_copyVars(part = "copying" /\ Copying!Replicate)
  /\ WF_copyVars(part = "copying" /\ Copying!MoveEnds)
  /\ \A s \in {"s1", "s2"} : /\ WF_copyVars(part = "copying" /\ Copying!RunApply(s))
                            /\ WF_copyVars(part = "copying" /\ Copying!DeleteSnapshot(s))
  /\ \A d \in {"d1", "d2"} : WF_copyVars(part = "copying" /\ (Copying!ensureVMApplyJob(d) \/ Copying!ensureVMSendJob(d)))
  /\ \A i \in 1 .. 5 : WF_copyVars(part = "copying" /\ Copying!CopyEnds(i))
  /\ \A s \in {"s1", "s2"} : /\ WF_UploadVars(part = "upload" /\ s \in Upload!Senders /\ Upload!Step(s))
                            /\ SF_UploadVars(part = "upload" /\ s \in Upload!Senders /\ Upload!commit(s))
  /\ \A f \in {"a", "b"} : /\ WF_FailoverVars(part = "failover" /\ (Failover!begin(f) \/ Failover!finish(f) \/ Failover!checkFailed(f)))
                          /\ WF_FailoverVars(part = "failover" /\ (Failover!RunJobPlan(f) \/ Failover!RunJobMake(f)))

-----------------------------------------------------------------------------
\* A Snapshot that is Ready has in its folder the whole disk at the moment its
\* status names (SetCopyRestorePoint in watchVMSnapshotApply), whichever try
\* made it and whoever owned the QEMU copy: failed tries, joined copies, deleted
\* owners and Jobs of an earlier try never leave another moment there, unless a
\* save of a Snapshot's status failed.
ReadyIsWhole == part = "copying" => Copying!TypeOK /\ Copying!ReadyIsWhole

\* The far-site disk holds what its moment file names: a change copy is applied
\* only to a disk that shows a moment at or after the one its change list began
\* at, through failed Jobs, lost results, lost status saves and VM restarts.
FarExact == part = "copying" => Copying!FarExact

\* The snapshot side and the replication side clean up after themselves only
\* (CleanStaleCopies, RemoveStale): a Job that is to read a staging file finds
\* it, until the Job itself has taken it.  (A Snapshot that joined a copy may
\* find none; that try fails.)
StagingSafe == part = "copying" => Copying!StagingKept

\* A disk that shows a moment is the source disk at that moment, however many
\* tries, stops and other copies it took: chunks that a compare call noted as
\* the same are never taken from another disk than the one compared.  (With
\* Loses it fails: notes of a compare outlive the session folder they are about.)
ShownIsWhole == part = "upload" => Upload!TypeOK /\ Upload!ShownIsWhole

\* A sender ends without an error only when the far disk shows its copy's
\* moment, also when it took the copy for one that an earlier try applied.
DoneIsShown == [][Upload!DoneShown]_vars

\* An Execute that is Done has made, for every disk, a SubVolume, a PV and a
\* PVC, all its own, all for the one moment that the confirmed Plan showed; a
\* disk that was ahead of that moment has its rewound folder.  Lost Jobs, lost
\* status updates, a controller that stops half way through Execute and copies
\* that land meanwhile do not change that (FindPlan, Expectation.Check,
\* AlreadyFailedOver, and objects that are left alone when they exist). No VM
\* is given disks of two moments by the controller: the objects that Failovers
\* made agree on the moment they were planned for, also after an Execute that
\* failed half way and one that came after it.  (Neither a Failover deleted
\* while its Job is there nor a second Execute beside a running one is followed
\* here: it fails with Leftovers, and with Overlap and a third name.  The bytes
\* a forced plan finds under a live copy are FailoverRight's in MCBackups.)
FailoversAsPlanned == part = "failover" => Failover!TypeOK /\ Failover!DoneAsPlanned /\ Failover!OneMoment

Settled ==
  \/ part = "copying" /\ Copying!SnapshotsOver
  \/ part = "upload" /\ Upload!SendersEnded
  \/ part = "failover" /\ Failover!FailoversOver

\* Every Snapshot of a VM's disk ends: it is Ready, has failed after its tries,
\* has gone to the file copy or is deleted; it waits for other Snapshots and for
\* replication, joins and leaves copies, and still is never left waiting, but
\* for a VM in which a stopped controller left a copy that nothing records
\* (Leftover).  Every sender of a disk ends, and every Failover ends, whatever
\* requests were cut and whatever Jobs were removed (with Leftovers and Overlap
\* excluded as above).
FarSettles == []<>Settled
=============================================================================
