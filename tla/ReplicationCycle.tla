-------------------------- MODULE ReplicationCycle --------------------------
(***************************************************************************)
(* The replication controller (pkg/pool/replication_controller.go): one    *)
(* goroutine that looks at every ReplicationPolicy on a tick, starts a     *)
(* copy Job per volume, reads the Jobs that ended, and pauses a policy     *)
(* whose cycles keep failing.  The policies, annotations and Jobs live in  *)
(* the API server; the cycle in progress and its results live only in the  *)
(* memory of the controller.  VM disk copies are off here (vmCopier nil).  *)
(***************************************************************************)
EXTENDS Naturals, FiniteSets, SequencesExt

CONSTANTS Policies,      \* ReplicationPolicy names
          Volumes,       \* SubVolumes of the source pool
          ListOrder,     \* the volumes in the order the API lists them
          Selects,       \* the volumes each policy's selector matches at first
          Prefix,        \* the part of a policy's name its Jobs are named by
          ReceiverMode,  \* the policies that send to a receiver
          MaxParallel,   \* spec.maxParallelSyncs
          MaxRetries,    \* spec.maxRetries
          Machines,      \* the volumes that are disks of VMs
          Chained,       \* the disks that may have instant snapshots
          Breakable,     \* the policies whose destination may break down
          Troubles       \* bound: restarts, failing calls and acts of people

VARIABLES
  exists,   \* the policies in the API server
  paused,   \* those with the pause annotation
  phase,    \* status.phase
  fails,    \* status.consecutiveFailures
  status,   \* status.subVolumeStatuses: was it ever synced, last error
  sel,      \* the volumes each policy's selector matches
  held,     \* volumes with a hold annotation of an export or a browse session
  chain,    \* volumes with instant snapshots (status.diskChain)
  vm,       \* volumes a running VM pod mounts
  jobs,     \* the copy Jobs, by name
  temp,     \* the temporary PV and PVC pairs of each Job name
  far,      \* the copy at each policy's destination
  doubt,    \* ghost: volumes whose VM started and stopped within one Job, or whose
            \* policy was made again before the controller forgot its last cycle
  broken,   \* policies whose destination cannot be written
  running, due, results, order,  \* the controller's maps
  pass,     \* the pass in progress
  trouble   \* how many disturbances there were

apiVars == <<exists, paused, phase, fails, status, sel, held, chain>>
memVars == <<running, due, results, order>>
jobVars == <<jobs, temp, far, doubt>>
rvars == <<apiVars, memVars, jobVars, vm, broken, pass, trouble>>

Names == {Prefix[p] : p \in Policies} \X Volumes
NoSyncJob == [st |-> "none"]
Idle == [at |-> "idle"]
Messages == {"", "held", "chain", "failed", "skipped", "sync in progress", "deferred"}
Record == [synced : BOOLEAN, err : Messages]
NeverSynced == [synced |-> FALSE, err |-> ""]
NoResults == <<>>
Disturb == trouble < Troubles /\ trouble' = trouble + 1

replJobName(p, v) == <<Prefix[p], v>>

RInit ==
  /\ exists = {p \in Policies : Selects[p] # {}} /\ paused = {}
  /\ phase = [p \in Policies |-> "Active"] /\ fails = [p \in Policies |-> 0]
  /\ status = [p \in Policies |-> [v \in Volumes |-> NeverSynced]]
  /\ sel = Selects
  /\ held = {} /\ chain = {} /\ vm = {}
  /\ jobs = [n \in Names |-> NoSyncJob] /\ temp = [n \in Names |-> {}]
  /\ far = [p \in Policies |-> [v \in Volumes |-> "none"]]
  /\ doubt = {} /\ broken = {}
  /\ running = {} /\ due = Policies
  /\ results = [p \in Policies |-> NoResults]
  /\ order = [p \in Policies |-> ListOrder]
  /\ pass = Idle /\ trouble = 0

-----------------------------------------------------------------------------
(* Jobs and their temporary resources.                                     *)

replicationJobExists(p, v) == jobs[replJobName(p, v)] # NoSyncJob

isReceiverMode(p) == p \in ReceiverMode

\* Each step makes one temporary object; one that is there already is used.
ensureReplicationSourcePV(t) == t \union {<<"PV", "source">>}
ensureReplicationDestPV(t) == t \union {<<"PV", "dest">>}
ensureReplicationPVC(t, role) == t \union {<<"PVC", role>>}
createReceiverModeResources(t) ==
  ensureReplicationPVC(ensureReplicationSourcePV(t), "source")
createDirectNFSResources(t) ==
  ensureReplicationPVC(ensureReplicationDestPV(createReceiverModeResources(t)), "dest")
Resources(p, t) == IF isReceiverMode(p) THEN createReceiverModeResources(t)
                                        ELSE createDirectNFSResources(t)

\* A direct-NFS Job runs rsync into the copy itself; a receiver-mode Job sends
\* the files to the receiver, which writes them into the copy.
ensureReplicationJob(p, v) == [st |-> "run", of |-> p, torn |-> v \in vm, mode |-> "rsync"]
ensureReceiverModeJob(p, v) == [st |-> "run", of |-> p, torn |-> v \in vm, mode |-> "send"]

createReplicationResources(p, v) ==
  LET n == replJobName(p, v) IN
  /\ temp' = [temp EXCEPT ![n] = Resources(p, @)]
  /\ jobs' = [jobs EXCEPT ![n] = IF isReceiverMode(p) THEN ensureReceiverModeJob(p, v)
                                                       ELSE ensureReplicationJob(p, v)]
  /\ far' = [far EXCEPT ![p][v] = "partial"]
  /\ doubt' = doubt \ {v}

\* The Job first, then the pairs of the policy's mode.  A deletion that fails is
\* logged, and the others are made.  A creation that fails half way is undone
\* the same way.
cleanupReplicationResources(p, v) ==
  LET n == replJobName(p, v) IN
  /\ jobs' = [jobs EXCEPT ![n] = NoSyncJob]
  /\ temp' = [temp EXCEPT ![n] = @ \ Resources(p, {})]
  /\ UNCHANGED <<far, doubt>>
CleanupFails(p, v) ==
  LET n == replJobName(p, v) IN
  /\ Disturb
  /\ \/ UNCHANGED jobs /\ temp' = [temp EXCEPT ![n] = @ \ Resources(p, {})]
     \/ jobs' = [jobs EXCEPT ![n] = NoSyncJob] /\ UNCHANGED temp
  /\ UNCHANGED <<far, doubt>>

\* The temporary resources carry the policy's name; those of policies that
\* are gone are removed by every pass.
Orphan(n) == \/ jobs[n] # NoSyncJob /\ jobs[n].of \notin exists
             \/ jobs[n] = NoSyncJob /\ \A p \in exists : Prefix[p] # n[1]

\* Mutant: the temporary volumes of gone policies stay.
cleanupOrphanedTempResourcesMutant ==
  /\ jobs' = [n \in Names |-> IF Orphan(n) THEN NoSyncJob ELSE jobs[n]]
  /\ UNCHANGED <<temp, far, doubt>>

cleanupOrphanedTempResources ==
  /\ jobs' = [n \in Names |-> IF Orphan(n) THEN NoSyncJob ELSE jobs[n]]
  /\ temp' = [n \in Names |-> IF Orphan(n) THEN {} ELSE temp[n]]
  /\ UNCHANGED <<far, doubt>>

-----------------------------------------------------------------------------
(* One pass over one policy.                                               *)

\* The volumes a new copy must leave alone: a hold seen when the volumes were
\* listed, unless the volume's copy Job exists already.  Exports and sessions
\* set and remove the holds (BackupHolds).
copyJobExists(p, v) == replicationJobExists(p, v)
splitHeld(p) == {v \in sel[p] \cap held : ~copyJobExists(p, v)}

filterSubVolumes(p) == sel[p]
sortByLastSyncTime(p, vs) == SelectSeq(order[p], LAMBDA v : v \in vs)
recordSubVolumeSyncTime(p, v) ==
  order' = [order EXCEPT ![p] = Append(SelectSeq(@, LAMBDA w : w # v), v)]

carry(v, err) == [synced |-> v \in pass.synced, err |-> err]
\* The report of one volume in this pass, and the result it keeps for the
\* rest of the cycle.
Report(v, st) ==
  pass' = [pass EXCEPT !.todo = Tail(@), !.st = (v :> st) @@ @,
             !.bad = @ \/ st.err = "failed",
             !.active = IF st.err = "sync in progress" THEN @ + 1 ELSE @]

finish(v, st) ==
  /\ results' = [results EXCEPT ![pass.p] = (v :> st) @@ @]
  /\ Report(v, st)

forgetGonePolicies == running \cap exists

\* What a write of the policy's status leaves in the API server.  A policy
\* that is gone has no status to write, and a failed write is only logged.
UpdateReplicationPolicyStatus(p, ph, n, st) ==
  \/ /\ p \in exists
     /\ phase' = [phase EXCEPT ![p] = ph] /\ fails' = [fails EXCEPT ![p] = n]
     /\ status' = [status EXCEPT ![p] = st] /\ UNCHANGED trouble
  \/ /\ \/ p \notin exists /\ UNCHANGED trouble
        \/ p \in exists /\ Disturb
     /\ UNCHANGED <<phase, fails, status>>

\* processOnce for a policy that is paused: its cycle ends, its results stay.
PausePass(p) ==
  /\ pass = Idle /\ p \in exists \cap paused
  /\ running' = forgetGonePolicies \ {p}
  /\ cleanupOrphanedTempResources
  /\ UpdateReplicationPolicyStatus(p, "Paused", fails[p], status[p])
  /\ UNCHANGED <<exists, paused, sel, held, chain, vm, broken, due, results,
                 order, pass>>

\* The schedule of the policy came round since recordSyncTime.
isDue(p) == p \in due
recordSyncTime(p) == due \ {p}
cycleRunning(p) == p \in running

\* The policy as the pass goes on with it: a policy that is resumed counts its
\* failures afresh.
Resumed(p) == phase[p] = "Paused"
Begun(p) ==
  [at |-> "volumes", p |-> p,
   synced |-> {v \in Volumes : status[p][v].synced},
   fails |-> IF Resumed(p) THEN 0 ELSE fails[p],
   todo |-> sortByLastSyncTime(p, filterSubVolumes(p) \ splitHeld(p)),
   st |-> [v \in splitHeld(p) |-> [synced |-> status[p][v].synced, err |-> "held"]],
   bad |-> FALSE, active |-> 0]

\* processOnce up to the first volume: forget and clean up what gone policies
\* left, resume, and begin or continue the cycle with the volumes and holds
\* as they are listed now.  A failing list or pre-sync hook fails the cycle.
BeginPass(p) ==
  /\ pass = Idle /\ p \in exists \ paused
  /\ cycleRunning(p) \/ isDue(p)
  /\ running' = forgetGonePolicies \ {p}
  /\ due' = IF cycleRunning(p) THEN due ELSE recordSyncTime(p)
  /\ cleanupOrphanedTempResources
  /\ \/ /\ pass' = Begun(p)
        /\ IF Resumed(p) THEN UpdateReplicationPolicyStatus(p, "Active", 0, status[p])
                         ELSE UNCHANGED <<phase, fails, status, trouble>>
     \/ /\ Disturb
        /\ pass' = [Begun(p) EXCEPT !.at = "failure", !.st = status[p]]
        /\ phase' = [phase EXCEPT ![p] = "Active"]
        /\ fails' = [fails EXCEPT ![p] = Begun(p).fails] /\ UNCHANGED status
  /\ UNCHANGED <<exists, paused, sel, held, chain, vm, broken, results, order>>

\* processOnce when no policy is due: only what gone policies left is removed.
IdlePass ==
  /\ pass = Idle /\ running' = forgetGonePolicies /\ cleanupOrphanedTempResources
  /\ UNCHANGED <<apiVars, vm, broken, due, results, order, pass, trouble>>

\* The loop of processPolicy, one volume at a time.
Next1 == Head(pass.todo)
AtVolume(v) == pass.at = "volumes" /\ pass.todo # <<>> /\ v = Next1
Job(v) == jobs[replJobName(pass.p, v)]
checkReplicationJob(v) == Job(v).st
Unfinished(v) == v \notin chain /\ v \notin DOMAIN results[pass.p]

ChainedVolume(v) ==
  /\ AtVolume(v) /\ v \in chain
  /\ finish(v, carry(v, "chain"))
  /\ UNCHANGED <<apiVars, jobVars, vm, broken, running, due, order, trouble>>

KeptResult(v) ==
  /\ AtVolume(v) /\ v \notin chain /\ v \in DOMAIN results[pass.p]
  /\ Report(v, results[pass.p][v])
  /\ UNCHANGED <<apiVars, jobVars, memVars, vm, broken, trouble>>

\* A call that looks at the Job or at the VM fails: counted, but not kept.
CheckFails(v) ==
  /\ Disturb /\ AtVolume(v) /\ Unfinished(v)
  /\ Report(v, carry(v, "failed"))
  /\ UNCHANGED <<apiVars, jobVars, memVars, vm, broken>>

\* checkReplicationJob says the Job is done.  A VM that runs now makes a good
\* copy a failure, because it wrote to the disk while it was read.
runningVMPod(v) == v \in vm
\* Mutant: a VM that started during the copy does not matter.
JobGoodMutant(v) == checkReplicationJob(v) = "ok"

JobGood(v) == checkReplicationJob(v) = "ok" /\ ~runningVMPod(v)
ReadJob(v) ==
  /\ AtVolume(v) /\ Unfinished(v) /\ checkReplicationJob(v) \in {"ok", "bad"}
  /\ IF JobGood(v)
       THEN /\ finish(v, [synced |-> TRUE, err |-> ""])
            /\ recordSubVolumeSyncTime(pass.p, v)
       ELSE finish(v, carry(v, "failed")) /\ UNCHANGED order
  /\ \/ cleanupReplicationResources(pass.p, v) /\ UNCHANGED trouble
     \/ CleanupFails(pass.p, v)
  /\ UNCHANGED <<apiVars, vm, broken, running, due>>

LeaveJob(v) ==
  /\ AtVolume(v) /\ Unfinished(v)
  /\ \/ Job(v).st = "run" /\ Report(v, carry(v, "sync in progress"))
     \/ Job(v) = NoSyncJob /\ pass.active >= MaxParallel /\ Report(v, carry(v, "deferred"))
     \/ Job(v) = NoSyncJob /\ pass.active < MaxParallel /\ runningVMPod(v)
          /\ Report(v, carry(v, "skipped"))
  /\ UNCHANGED <<apiVars, jobVars, memVars, vm, broken, trouble>>

StartJob(v) ==
  /\ AtVolume(v) /\ Unfinished(v) /\ Job(v) = NoSyncJob
  /\ pass.active < MaxParallel /\ ~runningVMPod(v)
  /\ \/ /\ createReplicationResources(pass.p, v) /\ UNCHANGED trouble
        /\ Report(v, carry(v, "sync in progress"))
     \/ /\ Disturb /\ cleanupReplicationResources(pass.p, v)
        /\ Report(v, carry(v, "failed"))
  /\ UNCHANGED <<apiVars, memVars, vm, broken>>

\* The end of processPolicy.
Reported == [v \in Volumes |-> IF v \in DOMAIN pass.st THEN pass.st[v] ELSE NeverSynced]
allComplete == \A v \in DOMAIN pass.st : pass.st[v].err \notin {"sync in progress", "deferred"}
anySucceeded == \E v \in DOMAIN pass.st : pass.st[v].synced /\ pass.st[v].err = ""
clearCycleResults(p) == results' = [results EXCEPT ![p] = NoResults]

SaveProgress ==
  /\ pass.at = "volumes" /\ pass.todo = <<>> /\ ~allComplete
  /\ running' = running \union {pass.p}
  /\ UpdateReplicationPolicyStatus(pass.p, "Active",
       IF anySucceeded THEN 0 ELSE pass.fails, Reported)
  /\ pass' = Idle
  /\ UNCHANGED <<exists, paused, sel, held, chain, jobVars, vm, broken, due,
                 results, order>>

SaveSuccess ==
  /\ pass.at = "volumes" /\ pass.todo = <<>> /\ allComplete /\ ~pass.bad
  /\ clearCycleResults(pass.p)
  /\ UpdateReplicationPolicyStatus(pass.p, "Active", 0, Reported)
  /\ pass' = Idle
  /\ UNCHANGED <<exists, paused, sel, held, chain, jobVars, vm, broken, running,
                 due, order>>

\* handleFailure: one write of the status, then one of the annotation.
autoPause == pass.fails + 1 >= MaxRetries
handleFailure ==
  /\ \/ pass.at = "failure" /\ UNCHANGED results
     \/ /\ pass.at = "volumes" /\ pass.todo = <<>> /\ allComplete /\ pass.bad
        /\ clearCycleResults(pass.p)
  /\ UpdateReplicationPolicyStatus(pass.p, IF autoPause THEN "Paused" ELSE "Active",
       pass.fails + 1, Reported)
  /\ pass' = IF autoPause THEN [at |-> "annotate", p |-> pass.p, saw |-> pass.p \in paused]
                          ELSE Idle
  /\ UNCHANGED <<exists, paused, sel, held, chain, jobVars, vm, broken, running,
                 due, order>>

\* The second write fails when the policy was changed after the first one.
SetPauseAnnotation ==
  /\ pass.at = "annotate"
  /\ \/ /\ pass.p \in exists /\ pass.saw = (pass.p \in paused)
        /\ paused' = paused \union {pass.p} /\ UNCHANGED trouble
     \/ /\ IF pass.p \in exists /\ pass.saw = (pass.p \in paused)
             THEN Disturb ELSE UNCHANGED trouble
        /\ UNCHANGED paused
  /\ pass' = Idle
  /\ UNCHANGED <<exists, phase, fails, status, sel, held, chain, jobVars, memVars,
                 vm, broken>>

-----------------------------------------------------------------------------
(* What goes on around the controller.                                     *)

\* The schedule of a policy comes round.
ScheduleDue(p) ==
  /\ p \notin due /\ due' = due \union {p}
  /\ UNCHANGED <<apiVars, jobVars, vm, broken, running, results, order, pass, trouble>>

\* A copy Job ends (after its retries).  A copy a VM wrote under is torn.
JobEnds(n) ==
  /\ jobs[n].st = "run"
  /\ \E st \in {"ok", "bad"} :
       /\ jobs[n].of \in broken => st = "bad"
       /\ jobs' = [jobs EXCEPT ![n].st = st]
       /\ far' = [far EXCEPT ![jobs[n].of][n[2]] =
                    IF st = "bad" THEN "partial"
                    ELSE IF jobs[n].torn THEN "torn" ELSE "whole"]
  /\ UNCHANGED <<apiVars, memVars, vm, temp, doubt, broken, pass, trouble>>

\* The Jobs of a volume, which a VM that starts writes under.
VMStarts(v) ==
  /\ v \in Machines \ vm /\ vm' = vm \union {v}
  /\ jobs' = [n \in Names |-> IF n[2] = v /\ jobs[n].st = "run"
                                THEN [jobs[n] EXCEPT !.torn = TRUE] ELSE jobs[n]]
  /\ UNCHANGED <<apiVars, memVars, temp, far, doubt, broken, pass, trouble>>
VMStops(v) ==
  /\ v \in vm /\ vm' = vm \ {v}
  /\ doubt' = IF \E n \in Names : n[2] = v /\ jobs[n] # NoSyncJob /\ jobs[n].torn
                  THEN doubt \union {v} ELSE doubt
  /\ UNCHANGED <<apiVars, memVars, jobs, temp, far, broken, pass, trouble>>

\* Instant snapshots of a stopped VM's disk, taken and flattened.
ChainChanges(v) ==
  /\ Disturb /\ v \in Chained \ vm
  /\ chain' = IF v \in chain THEN chain \ {v} ELSE chain \union {v}
  /\ UNCHANGED <<exists, paused, phase, fails, status, sel, held, memVars, jobVars,
                 vm, broken, pass>>

\* A person sets or removes the pause annotation, or deletes a policy.
Pause(p) ==
  /\ Disturb /\ p \in exists /\ paused' = (paused \ {p}) \union ({p} \ paused)
  /\ UNCHANGED <<exists, phase, fails, status, sel, held, chain, memVars, jobVars,
                 vm, broken, pass>>
DeletePolicy(p) ==
  /\ Disturb /\ p \in exists /\ exists' = exists \ {p} /\ paused' = paused \ {p}
  /\ UNCHANGED <<phase, fails, status, sel, held, chain, memVars, jobVars, vm,
                 broken, pass>>

\* A policy of the same name is made again, for a new destination.
RecreatePolicy(p) ==
  /\ p \notin exists /\ exists' = exists \union {p}
  /\ phase' = [phase EXCEPT ![p] = "Active"] /\ fails' = [fails EXCEPT ![p] = 0]
  /\ status' = [status EXCEPT ![p] = [v \in Volumes |-> NeverSynced]]
  /\ far' = [far EXCEPT ![p] = [v \in Volumes |-> "none"]]
  /\ doubt' = doubt \union DOMAIN results[p]
                    \union {v \in Volumes : jobs[replJobName(p, v)] # NoSyncJob}
  /\ UNCHANGED <<paused, sel, held, chain, memVars, jobs, temp, vm, broken, pass,
                 trouble>>

\* The destination of a policy breaks down, and is repaired.
DestinationChanges(p) ==
  /\ Disturb /\ p \in Breakable /\ broken' = (broken \ {p}) \union ({p} \ broken)
  /\ UNCHANGED <<apiVars, memVars, jobVars, vm, pass>>

\* The controller process restarts: NewReplicationController.  Only a Job that
\* ended before it is down long enough reaches its time to live.
Restart ==
  /\ Disturb
  /\ pass' = Idle /\ running' = {} /\ due' = Policies
  /\ results' = [p \in Policies |-> NoResults]
  /\ order' = [p \in Policies |-> ListOrder]
  /\ \E gone \in SUBSET {n \in Names : jobs[n].st \in {"ok", "bad"}} :
       jobs' = [n \in Names |-> IF n \in gone THEN NoSyncJob ELSE jobs[n]]
  /\ UNCHANGED <<apiVars, temp, far, doubt, vm, broken>>

-----------------------------------------------------------------------------
VolumeStep == \E v \in Volumes :
  ChainedVolume(v) \/ KeptResult(v) \/ ReadJob(v) \/ LeaveJob(v) \/ StartJob(v)
Controller ==
  \/ IdlePass \/ \E p \in Policies : PausePass(p) \/ BeginPass(p)
  \/ VolumeStep \/ \E v \in Volumes : CheckFails(v)
  \/ SaveProgress \/ SaveSuccess \/ handleFailure \/ SetPauseAnnotation
Around ==
  \/ \E p \in Policies : \/ ScheduleDue(p) \/ Pause(p) \/ DeletePolicy(p)
                         \/ RecreatePolicy(p) \/ DestinationChanges(p)
  \/ \E n \in Names : JobEnds(n)
  \/ \E v \in Volumes : VMStarts(v) \/ VMStops(v) \/ ChainChanges(v)
  \/ Restart
RNext == Controller \/ Around
RSpec == RInit /\ [][RNext]_rvars

\* The loop of Run takes its steps, time passes, and a Job ends after its
\* retries (backoffLimit); nothing else need ever happen.
LoopStep ==
  IdlePass \/ VolumeStep \/ SaveProgress \/ SaveSuccess \/ handleFailure \/ SetPauseAnnotation
AJobEnds == \E n \in Names : JobEnds(n)
Fairness ==
  /\ \A p \in Policies : /\ WF_rvars(BeginPass(p)) /\ WF_rvars(PausePass(p))
                         /\ WF_rvars(ScheduleDue(p))
  /\ WF_rvars(LoopStep) /\ WF_rvars(AJobEnds)
FairSpec == RSpec /\ Fairness

-----------------------------------------------------------------------------
RTypeOK ==
  /\ exists \subseteq Policies /\ paused \subseteq Policies
  /\ phase \in [Policies -> {"Active", "Paused"}]
  /\ fails \in [Policies -> 0..MaxRetries]
  /\ status \in [Policies -> [Volumes -> Record]]
  /\ held \subseteq Volumes /\ chain \subseteq Volumes /\ vm \subseteq Volumes
  /\ running \subseteq Policies /\ due \subseteq Policies
  /\ \A p \in Policies : \A v \in DOMAIN results[p] : results[p][v] \in Record
  /\ \A n \in Names : jobs[n] = NoSyncJob \/ jobs[n].st \in {"run", "ok", "bad"}

\* A volume the cycle in progress calls synced has a whole copy at the policy's
\* destination, and no Job writes to that copy before the cycle ends; the only
\* exceptions are a VM that started and stopped again within the Job, and a policy
\* deleted and made again before the controller forgot the earlier cycle.
GoodCopyWhole ==
  \A p \in exists : \A v \in DOMAIN results[p] :
    results[p][v] = [synced |-> TRUE, err |-> ""]
      => far[p][v] = "whole" \/ v \in doubt

\* No more copy Jobs of a policy run at one time than spec.maxParallelSyncs.
ParallelLimit ==
  \A p \in exists :
    Cardinality({n \in Names : jobs[n].st = "run" /\ jobs[n].of = p}) <= MaxParallel

FailingPaused ==
  \A p \in Policies : p \in broken /\ p \in exists => p \in paused \/ vm # {} \/ chain # {}
OrphansGone == \A n \in Names : Orphan(n) => jobs[n] = NoSyncJob /\ temp[n] = {}
CyclesSettled == FailingPaused /\ OrphansGone

\* A policy whose every copy fails is paused in the end: the cycle with a Job
\* that failed does end, and its failure is counted.  The Jobs and temporary
\* volumes of a deleted policy are removed in the end, those a pass in progress
\* still makes for it included.
CyclesEnd == []<>CyclesSettled
=============================================================================
