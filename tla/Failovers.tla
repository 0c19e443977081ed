----------------------------- MODULE Failovers -----------------------------
(***************************************************************************)
(* Failover on the DR cluster: the Failover controller (pkg/failover), the *)
(* Job it runs on the destination share, the objects it makes for a VM's   *)
(* disks, and the kubectl-failover command, which does the same by hand.   *)
(*                                                                         *)
(* A Failover with action Plan reads the share and shows the moment each   *)
(* VM would start from.  One with action Execute needs a fresh Plan with   *)
(* the same choices, refuses a share that no longer matches it, rewinds    *)
(* the disks that are ahead, and makes a SubVolume, a PV and a PVC for     *)
(* each disk.  Copies from the primary site may land all the while.        *)
(***************************************************************************)
EXTENDS Integers, FiniteSets, SequencesExt

CONSTANTS
  Names,      \* the names of Failovers
  Disks,      \* the disks of the VM, in the order of the plan
  Starts,     \* whether the claim is there and what the disks show at first
  Latest,     \* the last moment a copy brings
  Rewinds,    \* the spec.rewindTo that people ask for; 0 is unset
  Lives,      \* how many Failovers are made in all
  Leftovers,  \* whether one is deleted while its Job is there
  Overlap,    \* whether a second Execute is asked for while one runs
  Troubles    \* how many things may go wrong

VARIABLES
  claim,      \* the claim of the source share is there and bound
  shows,      \* the moment each disk on the share shows, 0 before its first copy; it can be
              \* rewound to any earlier one
  landing,    \* a copy is being applied to the disk (its lease is active)
  rewound,    \* the rewound folders that are there: pairs of disk and moment
  fo,         \* the Failovers
  job,        \* the Job of each name
  objects,    \* for each disk and kind of object, who made it and what it shows
  cli,        \* the kubectl-failover execute command
  trouble

vars == <<claim, shows, landing, rewound, fo, job, objects, cli, trouble>>
share == <<claim, shows, landing, rewound>>

Kinds == <<"SubVolume", "PV", "PVC">>
\* Which Failover made an object (its name, and the how-manieth of that name), the
\* moment its folder was planned for, and whether that is the disk's own folder
\* or a rewound one.
NoObject == [by |-> "none", life |-> 0, moment |-> 0, inPlace |-> FALSE]
\* What a plan shows: the volumes, and the moment of their VM.
NoResult == [moment |-> 0, volumes |-> {}]
NoFailover == [exists |-> FALSE, action |-> "Plan", rewindTo |-> 0, phase |-> "",
               result |-> NoResult, fresh |-> FALSE, planned |-> NoResult, life |-> 0]
NoJob == [state |-> "none", action |-> "Plan", rewindTo |-> 0, expect |-> NoResult, at |-> "plan",
          result |-> NoResult, inPlace |-> {}]
NoCli == [at |-> "idle", result |-> NoResult, inPlace |-> {}]

Disturb == trouble < Troubles /\ trouble' = trouble + 1
Calm == UNCHANGED trouble

Init ==
  /\ \E s \in Starts : claim = s.claim /\ shows = s.shows
  /\ landing = [d \in Range(Disks) |-> FALSE]
  /\ rewound = {}
  /\ fo = [f \in Names |-> NoFailover]
  /\ job = [f \in Names |-> NoJob]
  /\ objects = [d \in Range(Disks) |-> [k \in Range(Kinds) |-> NoObject]]
  /\ cli = NoCli
  /\ trouble = 0
-----------------------------------------------------------------------------
(***************************************************************************)
(* The share, and what a plan makes of it.                                 *)
(***************************************************************************)

\* A copy lands on one disk, as the receiver applies it under a lease.
LandBegin(d) ==
  /\ shows[d] < Latest /\ ~landing[d]
  /\ landing' = [landing EXCEPT ![d] = TRUE]
  /\ Calm /\ UNCHANGED <<claim, shows, rewound, fo, job, objects, cli>>
LandEnd(d) ==
  /\ landing[d]
  /\ landing' = [landing EXCEPT ![d] = FALSE]
  /\ shows' = [shows EXCEPT ![d] = @ + 1]
  /\ Calm /\ UNCHANGED <<claim, rewound, fo, job, objects, cli>>

\* Plan lists the volumes that have a copy on the share.
Plan == {d \in Range(Disks) : shows[d] > 0}

\* analyzeVMs: the moments that all disks can show, none after rewindTo.
analyzeVMs(rewindTo) == {m \in 1..Latest : /\ \A d \in Plan : m <= shows[d]
                                           /\ rewindTo = 0 \/ m <= rewindTo}

\* ResolveVMs takes the newest of them.
ResolveVMs(rewindTo) == CHOOSE m \in analyzeVMs(rewindTo) : \A n \in analyzeVMs(rewindTo) : n <= m

\* A disk that shows the moment is used where it is, one that is ahead is rewound.
InPlace(m) == {d \in Plan : shows[d] = m}

\* The checks of analyzeVMs refuse a share where a copy is being applied, unless
\* spec.force or --force is set, and disks that share no moment; BuildPlan
\* refuses a share without copies.  What a forced plan does to the bytes of a
\* disk under a live copy is FarDisk's.
CanBuildPlan(rewindTo, force) ==
  /\ Plan # {}
  /\ force \/ \A d \in Plan : ~landing[d]
  /\ analyzeVMs(rewindTo) # {}
NewResult(rewindTo) == [moment |-> ResolveVMs(rewindTo), volumes |-> Plan]

\* MaterializeVMs: a folder for every disk that is ahead; one that exists is
\* used again.
MaterializeVMs(x, inPlace) == rewound' = rewound \union {<<d, x.moment>> : d \in x.volumes \ inPlace}
-----------------------------------------------------------------------------
(***************************************************************************)
(* The Job (RunJob): it plans, an Execute compares that with what was      *)
(* confirmed, and makes the rewound folders.                               *)
(***************************************************************************)
\* Expectation.Check: the same volumes, and the VM at the same moment.
Check(j) == j.expect = NewResult(j.rewindTo)

\* No check compares spec.force, so each Job has its own.
RunJobPlan(f) ==
  LET j == job[f] IN
  /\ j.state = "running" /\ j.at = "plan"
  /\ \E force \in BOOLEAN : job' = [job EXCEPT ![f] =
       IF ~CanBuildPlan(j.rewindTo, force) THEN [@ EXCEPT !.state = "failed"]
       ELSE IF j.action = "Plan" THEN [@ EXCEPT !.state = "ok", !.result = NewResult(j.rewindTo), !.inPlace = Plan]
       ELSE IF ~Check(j) THEN [@ EXCEPT !.state = "failed"]
       ELSE [@ EXCEPT !.at = "make", !.result = NewResult(j.rewindTo), !.inPlace = InPlace(ResolveVMs(j.rewindTo))]]
  /\ Calm /\ UNCHANGED <<share, fo, objects, cli>>

RunJobMake(f) ==
  LET j == job[f] IN
  /\ j.state = "running" /\ j.at = "make"
  /\ MaterializeVMs(j.result, j.inPlace)
  /\ job' = [job EXCEPT ![f].state = "ok"]
  /\ Calm /\ UNCHANGED <<claim, shows, landing, fo, objects, cli>>

\* The pod of a Job that succeeded goes, and the outcome it wrote with it.
OutcomeLost(f) ==
  /\ job[f].state = "ok" /\ Disturb
  /\ job' = [job EXCEPT ![f].state = "mute"]
  /\ UNCHANGED <<share, fo, objects, cli>>

\* The pod is lost or the deadline passes; the Job is not tried again.
JobCut(f) ==
  /\ job[f].state = "running" /\ Disturb
  /\ job' = [job EXCEPT ![f].state = "failed"]
  /\ UNCHANGED <<share, fo, objects, cli>>

\* Someone removes the Job.
JobRemoved(f) ==
  /\ job[f].state # "none" /\ fo[f].phase \in {"Planning", "Executing"} /\ Disturb
  /\ job' = [job EXCEPT ![f] = NoJob]
  /\ UNCHANGED <<share, fo, objects, cli>>
-----------------------------------------------------------------------------
(***************************************************************************)
(* The controller: one pass looks at every Failover in turn.               *)
(***************************************************************************)
Ended == {"Planned", "Done", "Failed"}

\* The status update is the last thing a handler does; it may fail.
SaveStatus(f, x) ==
  \/ fo' = [fo EXCEPT ![f] = x] /\ Calm
  \/ UNCHANGED fo /\ Disturb

\* The end of a Failover: the update, and after a good one the cleanup of the
\* Job, which may fail itself.
EndFailover(f, x) ==
  \/ /\ fo' = [fo EXCEPT ![f] = x]
     /\ \/ job' = [job EXCEPT ![f] = NoJob] /\ Calm
        \/ UNCHANGED job /\ Disturb
  \/ UNCHANGED <<fo, job>> /\ Disturb
fail(f) == EndFailover(f, [fo[f] EXCEPT !.phase = "Failed"])

\* FindPlan: a finished Plan with the same choices, not older than PlanMaxAge.
FindPlan(x) == {p \in Names : /\ fo[p].exists /\ fo[p].action = "Plan" /\ fo[p].phase = "Planned"
                              /\ fo[p].rewindTo = x.rewindTo /\ fo[p].fresh}

\* Nobody asks whether the volumes were failed over before.
AlreadyFailedOverMutant(x) == FALSE

\* A planned volume has a SubVolume on this cluster already.
AlreadyFailedOver(x) == \E d \in x.volumes : objects[d]["SubVolume"].by # "none"

\* The address comes from the claim of the share, which must be bound.
shareAddress == claim

\* createJob: a Job of that name that is there already is taken.
createJob(f, expect) ==
  IF job[f].state # "none" THEN UNCHANGED job
  ELSE job' = [job EXCEPT ![f] = [NoJob EXCEPT !.state = "running", !.action = fo[f].action,
                 !.rewindTo = fo[f].rewindTo, !.expect = expect]]

\* begin, for a new Failover and for one whose Job has gone.
begin(f) ==
  LET x == fo[f] IN
  /\ x.exists
  /\ x.phase = "" \/ (x.phase \in {"Planning", "Executing"} /\ job[f].state = "none")
  /\ IF x.action = "Plan"
     THEN \/ ~shareAddress /\ fail(f)
          \/ /\ shareAddress
             /\ createJob(f, NoResult) /\ SaveStatus(f, [x EXCEPT !.phase = "Planning"])
     ELSE \/ (~shareAddress \/ \A p \in FindPlan(x) : AlreadyFailedOver(fo[p].result)) /\ fail(f)
          \/ \E p \in FindPlan(x) :
               /\ shareAddress /\ ~AlreadyFailedOver(fo[p].result)
               /\ createJob(f, fo[p].result)
               /\ SaveStatus(f, [x EXCEPT !.phase = "Executing", !.planned = job'[f].expect])
  /\ UNCHANGED <<share, objects, cli>>

\* The objects in the order Execute makes them, all of a disk first.
Order(d, k) == ((CHOOSE i \in DOMAIN Disks : Disks[i] = d) - 1) * Len(Kinds) + CHOOSE i \in DOMAIN Kinds : Kinds[i] = k
All == Len(Disks) * Len(Kinds)

\* executeOne, after the first n creations: an object that exists is left as it is.
executeOne(n, who, x, inPlace) ==
  [d \in Range(Disks) |-> [k \in Range(Kinds) |->
     IF objects[d][k] = NoObject /\ d \in x.volumes /\ Order(d, k) <= n
     THEN [by |-> who, life |-> IF who \in Names THEN fo[who].life ELSE 0,
           moment |-> x.moment, inPlace |-> d \in inPlace]
     ELSE objects[d][k]]]

\* check and finish, for a Job that succeeded.  What the Job reported decides
\* what is made; the Failover's own action decides whether anything is.
finish(f) ==
  LET x == fo[f]
      j == job[f]
  IN
  /\ x.exists /\ x.phase \in {"Planning", "Executing"} /\ j.state = "ok"
  /\ IF x.action = "Plan"
     THEN EndFailover(f, [x EXCEPT !.phase = "Planned", !.result = j.result, !.fresh = TRUE]) /\ UNCHANGED objects
     ELSE \/ /\ objects' = executeOne(All, f, j.result, j.inPlace)
             /\ EndFailover(f, [x EXCEPT !.phase = "Done", !.result = j.result])
          \/ \E n \in 0..(All - 1) :     \* the API refuses one, or the controller stops
               /\ objects' = executeOne(n, f, j.result, j.inPlace)
               /\ Disturb
               /\ \/ fo' = [fo EXCEPT ![f].phase = "Failed"] /\ job' = [job EXCEPT ![f] = NoJob]
                  \/ UNCHANGED <<fo, job>>
  /\ UNCHANGED <<share, cli>>

\* A Job that succeeded without an outcome is passed over.
checkFailedMutant(f) ==
  /\ fo[f].exists /\ fo[f].phase \in {"Planning", "Executing"} /\ job[f].state = "failed"
  /\ fail(f)
  /\ UNCHANGED <<share, objects, cli>>

\* check, for a Job that failed or left no outcome.
checkFailed(f) ==
  /\ fo[f].exists /\ fo[f].phase \in {"Planning", "Executing"} /\ job[f].state \in {"failed", "mute"}
  /\ fail(f)
  /\ UNCHANGED <<share, objects, cli>>
-----------------------------------------------------------------------------
(***************************************************************************)
(* People: they make Failovers, delete them, and run kubectl-failover.     *)
(***************************************************************************)
Made == MapThenSumSet(LAMBDA f : fo[f].life, Names)

Create(f, action, rewindTo) ==
  /\ ~fo[f].exists /\ cli = NoCli
  /\ Made < Lives
  /\ action = "Execute" => \/ Overlap
                           \/ \A g \in Names : fo[g].exists /\ fo[g].action = "Execute" => fo[g].phase \in Ended
  /\ fo' = [fo EXCEPT ![f] = [NoFailover EXCEPT !.exists = TRUE, !.action = action,
                                               !.rewindTo = rewindTo, !.life = fo[f].life + 1]]
  /\ Calm /\ UNCHANGED <<share, job, objects, cli>>

\* The Job has no owner, so it stays.
Delete(f) ==
  /\ fo[f].exists /\ Made < Lives /\ (Leftovers \/ job[f].state = "none")
  /\ fo' = [fo EXCEPT ![f] = [NoFailover EXCEPT !.life = fo[f].life]]
  /\ Calm /\ UNCHANGED <<share, job, objects, cli>>

ClaimBound ==
  /\ ~claim /\ claim' = TRUE
  /\ Calm /\ UNCHANGED <<shows, landing, rewound, fo, job, objects, cli>>

PlanAges(f) ==
  /\ fo[f].phase = "Planned" /\ fo[f].fresh
  /\ fo' = [fo EXCEPT ![f].fresh = FALSE]
  /\ Calm /\ UNCHANGED <<share, job, objects, cli>>

\* runExecute of kubectl-failover: the same plan and the same executor, with no
\* Plan to compare with.  It is run where no Failover is used.
runExecute ==
  /\ \A f \in Names : fo[f].life = 0
  /\ \/ /\ cli.at \in {"idle", "stopped"}
        /\ \E force \in BOOLEAN :
             cli' = IF CanBuildPlan(0, force)
                  THEN [at |-> "make", result |-> NewResult(0), inPlace |-> InPlace(ResolveVMs(0))]
                  ELSE [NoCli EXCEPT !.at = "stopped"]
        /\ Calm /\ UNCHANGED <<rewound, objects>>
     \/ /\ cli.at = "make"
        /\ MaterializeVMs(cli.result, cli.inPlace)
        /\ cli' = [cli EXCEPT !.at = "create"]
        /\ Calm /\ UNCHANGED objects
     \/ /\ cli.at = "create"
        /\ \/ /\ objects' = executeOne(All, "cli", cli.result, cli.inPlace)
              /\ cli' = [cli EXCEPT !.at = "done"] /\ Calm
           \/ \E n \in 0..(All - 1) : /\ objects' = executeOne(n, "cli", cli.result, cli.inPlace)
                                      /\ cli' = [NoCli EXCEPT !.at = "stopped"] /\ Disturb
        /\ UNCHANGED rewound
  /\ UNCHANGED <<claim, shows, landing, fo, job>>
-----------------------------------------------------------------------------
Controller == \E f \in Names : begin(f) \/ finish(f) \/ checkFailed(f)
Jobs == \E f \in Names : RunJobPlan(f) \/ RunJobMake(f)

Next ==
  \/ Controller
  \/ Jobs
  \/ \E f \in Names : JobCut(f) \/ JobRemoved(f) \/ OutcomeLost(f) \/ Delete(f) \/ PlanAges(f)
  \/ \E f \in Names, r \in Rewinds, a \in {"Plan", "Execute"} : Create(f, a, r)
  \/ \E d \in Range(Disks) : LandBegin(d) \/ LandEnd(d)
  \/ ClaimBound
  \/ runExecute

Spec == Init /\ [][Next]_vars

\* The controller looks at every Failover every 5 s; a Job that runs ends.
FairSpec == /\ Spec
            /\ \A f \in Names : /\ WF_vars(begin(f) \/ finish(f) \/ checkFailed(f))
                                /\ WF_vars(RunJobPlan(f) \/ RunJobMake(f))
-----------------------------------------------------------------------------
Results == [moment : 0..Latest, volumes : SUBSET Range(Disks)]
TypeOK ==
  /\ claim \in BOOLEAN
  /\ shows \in [Range(Disks) -> 0..Latest]
  /\ landing \in [Range(Disks) -> BOOLEAN]
  /\ rewound \subseteq Range(Disks) \X (1..Latest)
  /\ fo \in [Names -> [exists : BOOLEAN, action : {"Plan", "Execute"}, rewindTo : Rewinds,
                       phase : {"", "Planning", "Executing"} \union Ended, result : Results,
                       fresh : BOOLEAN, planned : Results, life : Nat]]
  /\ job \in [Names -> [state : {"none", "running", "ok", "mute", "failed"}, action : {"Plan", "Execute"},
                        rewindTo : Rewinds, expect : Results, at : {"plan", "make"}, result : Results,
                        inPlace : SUBSET Range(Disks)]]
  /\ objects \in [Range(Disks) -> [Range(Kinds) ->
                    [by : Names \union {"none", "cli"}, life : Nat, moment : 0..Latest,
                     inPlace : BOOLEAN]]]
  /\ cli.at \in {"idle", "make", "create", "done", "stopped"}
  /\ trouble \in 0..Troubles

\* An Execute that is Done has made, for every disk, a SubVolume, a PV and a PVC,
\* all its own, all for the one moment that the confirmed Plan showed; a disk
\* that was ahead of that moment has its rewound folder.  Lost Jobs, lost status
\* updates, a controller that stops half way through Execute and copies that
\* land meanwhile do not change that (FindPlan, Expectation.Check,
\* AlreadyFailedOver, and objects that are left alone when they exist).  With
\* Leftovers a Job of a deleted Failover of the same name is taken over and its
\* older plan used; with Overlap two Executes both pass AlreadyFailedOver.
DoneAsPlanned ==
  \A f \in Names : fo[f].exists /\ fo[f].action = "Execute" /\ fo[f].phase = "Done" =>
    /\ fo[f].planned # NoResult
    /\ \A d \in fo[f].planned.volumes, k \in Range(Kinds) :
      LET o == objects[d][k] IN
        /\ o.by = f /\ o.life = fo[f].life /\ o.moment = fo[f].planned.moment
        /\ o.inPlace \/ <<d, o.moment>> \in rewound

\* No VM is given disks of two moments by the controller: the objects that
\* Failovers made agree on the moment they were planned for, also after an
\* Execute that failed half way and one that came after it.
OneMoment ==
  \A c, d \in Range(Disks), k, l \in Range(Kinds) :
    objects[c][k].by \in Names /\ objects[d][l].by \in Names
      => objects[c][k].moment = objects[d][l].moment

FailoversOver == \A f \in Names : fo[f].exists => fo[f].phase \in Ended

\* Every Failover comes to an end.
FailoversEnd == []<>FailoversOver
=============================================================================
