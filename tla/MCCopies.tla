----------------------------- MODULE MCCopies ------------------------------
(***************************************************************************)
(* Copies that the driver makes of volumes: replication cycles             *)
(* (ReplicationCycle), and the mark of a chain Job on a disk (DiskChain).  *)
(* One of them takes the steps of each behaviour.                          *)
(***************************************************************************)
EXTENDS ReplicationCycle

CONSTANTS s1, s2, base, None

VARIABLE part   \* the component that takes the steps of this behaviour
VARIABLES disk, sv, snap, svCache, snapCache, markVm, call, job, rest, unwanted, taken,
          writes, starts, faults, disturbed, slipped, restCache

\* One policy that copies two volumes, of which one is a VM's.
TwoVolumes == <<"v1", "v2">>
Both == [p1 |-> {"v1", "v2"}]
SameName == [p1 |-> "p1"]

Mark == INSTANCE DiskChain WITH
  Snaps <- {s1, s2}, Base <- base, MaxSnapshots <- 1, Lags <- {}, Late <- FALSE, Restores <- FALSE,
  MaxWrites <- 1, MaxStarts <- 2, MaxFaults <- 0,
  vm <- markVm

butCycle == <<disk, sv, snap, svCache, snapCache, markVm, call, job, rest, unwanted,
    taken, writes, starts, faults, disturbed, slipped, restCache>>
butMark == <<exists, paused, phase, fails, status, sel, held, chain, vm, jobs, temp, far,
    doubt, broken, running, due, results, order, pass, trouble>>
everything == <<part, rvars, butCycle>>

\* The components that take no steps stay in one of their initial states.
AllInit ==
  /\ part \in {"cycle", "mark"}
  /\ RInit /\ Mark!Init

AllNext ==
  /\ UNCHANGED part
  /\ \/ part = "cycle" /\ RNext /\ UNCHANGED butCycle
     \/ part = "mark" /\ Mark!Next /\ UNCHANGED butMark

AllSpec == AllInit /\ [][AllNext]_everything

MarkVars == Mark!vars

\* The fairness of each component; see its module.
AllFairSpec ==
  /\ AllSpec
  /\ WF_rvars(part = "cycle" /\ BeginPass("p1"))
  /\ WF_rvars(part = "cycle" /\ PausePass("p1"))
  /\ WF_rvars(part = "cycle" /\ ScheduleDue("p1"))
  /\ WF_rvars(part = "cycle" /\ LoopStep)
  /\ WF_rvars(part = "cycle" /\ AJobEnds)
  /\ WF_MarkVars(part = "mark" /\ Mark!CallStep)
  /\ WF_MarkVars(part = "mark" /\ Mark!JobStep)
  /\ WF_MarkVars(part = "mark" /\ Mark!VMStep)
  /\ \A s \in {s1, s2} : /\ SF_MarkVars(part = "mark" /\ Mark!Create(s) /\ snap[s].phase = "Creating")
                        /\ SF_MarkVars(part = "mark" /\ Mark!Delete(s) /\ s \in unwanted)

-----------------------------------------------------------------------------
\* A volume the cycle in progress calls synced has a whole copy at the
\* policy's destination, and no Job writes to that copy before the cycle ends;
\* the only exceptions are a VM that started and stopped again within the Job,
\* and a policy deleted and made again before the controller forgot the
\* earlier cycle.
SyncedIsWhole == part = "cycle" => RTypeOK /\ GoodCopyWhole

Settled ==
  \/ part = "cycle" /\ CyclesSettled
  \/ part = "mark" /\ Mark!Unmarked

\* A policy whose every copy fails is paused in the end and nothing is left of
\* a deleted one; and the mark that holds a VM back from its disk is taken off
\* again.
CopiesSettle == []<>Settled
=============================================================================
