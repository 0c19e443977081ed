----------------------------- MODULE BenchRuns -----------------------------
(***************************************************************************)
(* PoolBench runs (pkg/poolbench): the runner takes every run through its  *)
(* stages, one small step a pass, and saves the status after each; what it *)
(* makes (a namespace with VMs, a pool, a second pool and a policy for a   *)
(* backup event) must go again however the run ends.  The collector keeps  *)
(* what the VMs send.                                                      *)
(*                                                                         *)
(* A pass may stop half way, its status update may fail, people pause,     *)
(* hold, skip, stop and delete runs, and a run may wait for another.       *)
(***************************************************************************)
EXTENDS Integers, FiniteSets, SequencesExt

CONSTANTS
  Runs,
  StartAfter,   \* spec.startAfter of each run, "" when unset
  Kept,         \* the runs with spec.keepAfterEnd
  StepVMs,
  SlowVMPercent,
  StopAtKnee,
  Loads,        \* the runs that are made, their spec.maxVMs, and their spec.events
                \* (pairs of type and VM count)
  RoomStays,    \* the images and the room on the nodes do not change
  Controls,     \* how often people change spec.control
  Troubles

VARIABLES
  load,     \* the member of Loads of this behaviour
  pb,       \* the PoolBench of each run
  made,     \* what each run has made: "none", "there" or "going" (being deleted)
  vms,      \* the VMs in the run's namespace
  store,    \* what the collector has of each VM: ready, and its result in this window
  moved,    \* the event of the run has come to its end outside
  room,     \* the images exist and the largest step fits the nodes
  up,       \* the time of the stage is up
  controls, trouble

vars == <<load, pb, made, vms, store, moved, room, up, controls, trouble>>
world == <<vms, store, moved, room, controls>>

Objects == <<"namespace", "policy", "pool", "backups">>
Nothing == [o \in Range(Objects) |-> "none"]
Most == CHOOSE n \in {l.max : l \in Loads} : \A l \in Loads : l.max <= n
VMs == 1..Most
Events == load.events
NoVM == [ready |-> FALSE, result |-> "none"]
NewRun == [exists |-> TRUE, deleting |-> FALSE, phase |-> "", stage |-> "", rows |-> <<>>,
           event |-> "", done |-> {}, knee |-> 0, recommended |-> 0, cleanedUp |-> FALSE, control |-> ""]
Ended == {"Complete", "Stopped", "Failed"}
Active == {"", "Pending", "Checking", "Running", "Paused"}

Disturb == trouble < Troubles /\ trouble' = trouble + 1 /\ UNCHANGED load
Calm == UNCHANGED <<trouble, load>>

Init ==
  /\ load \in Loads
  /\ pb = [r \in Runs |-> [NewRun EXCEPT !.exists = r \in load.runs]]
  /\ made = [r \in Runs |-> Nothing]
  /\ vms = [r \in Runs |-> 0]
  /\ store = [r \in Runs |-> [v \in VMs |-> NoVM]]
  /\ moved = [r \in Runs |-> FALSE]
  /\ room \in [Runs -> BOOLEAN] /\ \A r \in Runs \ load.runs : room[r]
  /\ up = [r \in Runs |-> FALSE]
  /\ controls = 0
  /\ trouble = 0
-----------------------------------------------------------------------------
(***************************************************************************)
(* How a step is judged.                                                   *)
(***************************************************************************)

\* The VM count of the step a run is at.
target(x) == Len(x.rows) * StepVMs

\* Rounded to the nearest whole percent, halves up.
percentOf(s, t) == (200 * s + t) \div (2 * t)

\* Step: a VM that was slow, or that has no whole steady phase in the window.
Slow(r, n) == Cardinality({v \in 1..n : store[r][v].result # "fast"})
Fails(r, n) == percentOf(Slow(r, n), n) > SlowVMPercent

Knee(rows) ==
  LET failed == {i \in DOMAIN rows : rows[i] = "fail"}
  IN  IF failed = {} THEN 0 ELSE StepVMs * (CHOOSE i \in failed : \A j \in failed : i <= j)

Recommended(rows, knee) ==
  LET fit == {i \in DOMAIN rows : knee = 0 \/ i * StepVMs <= (knee * 80) \div 100}
  IN  IF fit = {} THEN 0 ELSE StepVMs * (CHOOSE i \in fit : \A j \in fit : j <= i)
-----------------------------------------------------------------------------
(***************************************************************************)
(* The parts of a pass.  advance saves the status last, and only if it     *)
(* changed; when that fails, what the pass did outside stays done.         *)
(***************************************************************************)
Save(r, x) ==
  \/ pb' = [pb EXCEPT ![r] = x] /\ Calm
     /\ up' = [up EXCEPT ![r] = IF x.stage = pb[r].stage /\ Len(x.rows) = Len(pb[r].rows) /\ x.event = pb[r].event
                                THEN @ ELSE FALSE]
  \/ x # pb[r] /\ UNCHANGED <<pb, up>> /\ Disturb

fail(x) == [x EXCEPT !.phase = "Failed", !.stage = ""]

endRun(r, x, stopped) ==
  [x EXCEPT !.stage = "", !.phase = IF r \in Kept /\ ~stopped THEN "Complete" ELSE "CleaningUp"]

\* Any run that has ended holds nothing.
waitingForMutant(r) ==
  StartAfter[r] # "" /\ pb[StartAfter[r]].exists /\ pb[StartAfter[r]].phase \notin Ended \union {"CleaningUp"}

\* waitingFor: the other run exists and has not ended, or has not cleaned up.
waitingFor(r) ==
  LET other == StartAfter[r] IN
  other # "" /\ pb[other].exists
    /\ ~(pb[other].phase \in Ended /\ (pb[other].cleanedUp \/ other \in Kept))

HasBackup == \E e \in Events : e[1] = "Backup"

\* prepare, whose calls may end with an error after the first n objects.
Prepared(r, n) ==
  LET order == IF HasBackup THEN <<"namespace", "pool", "backups">> ELSE <<"namespace", "pool">> IN
  [o \in Range(Objects) |->
     IF (\E i \in 1..Min({n, Len(order)}) : order[i] = o) /\ made[r][o] = "none" THEN "there" ELSE made[r][o]]

\* cleanup, one pass: the first object of the order that is still there.
Going(r) ==
  LET left == {i \in DOMAIN Objects : made[r][Objects[i]] # "none"}
      o == Objects[CHOOSE i \in left : \A j \in left : i <= j]
  IN  IF left = {} THEN made[r] ELSE [made[r] EXCEPT ![o] = "going"]

Clean(r) == pb[r].cleanedUp \/ made[r] = Nothing

cleanup(r, x) ==
  IF pb[r].cleanedUp THEN UNCHANGED made /\ Save(r, x)
  ELSE IF Clean(r) THEN UNCHANGED made /\ Save(r, [x EXCEPT !.cleanedUp = TRUE])
  ELSE made' = [made EXCEPT ![r] = Going(r)] /\ Save(r, pb[r])
-----------------------------------------------------------------------------
(***************************************************************************)
(* advance, by the phase and the stage of the run.                         *)
(***************************************************************************)
Live(r) == pb[r].exists /\ ~pb[r].deleting
StopAsked(r) == pb[r].control = "stop" /\ pb[r].phase \in Active

stop(r) ==
  /\ Live(r) /\ StopAsked(r)
  /\ Save(r, endRun(r, pb[r], TRUE))
  /\ UNCHANGED <<made, world>>

begin(r) ==
  /\ Live(r) /\ ~StopAsked(r) /\ pb[r].phase \in {"", "Pending"}
  /\ Save(r, [pb[r] EXCEPT !.phase = IF waitingFor(r) THEN "Pending" ELSE "Checking"])
  /\ UNCHANGED <<made, world>>

\* check: a run that fails here has made nothing, so it counts as cleaned up.
check(r) ==
  /\ Live(r) /\ ~StopAsked(r) /\ pb[r].phase = "Checking"
  /\ IF ~room[r]
     THEN UNCHANGED made /\ Save(r, [fail(pb[r]) EXCEPT !.cleanedUp = TRUE])
     ELSE \/ /\ made' = [made EXCEPT ![r] = Prepared(r, 3)]
             /\ Save(r, [pb[r] EXCEPT !.phase = "Running", !.stage = "Preparing"])
          \/ \E n \in 0..2 : /\ made' = [made EXCEPT ![r] = Prepared(r, n)]
                             /\ Disturb /\ UNCHANGED <<pb, up>>
  /\ UNCHANGED world

Running(r, stage) ==
  /\ Live(r) /\ ~StopAsked(r)
  /\ pb[r].stage = stage
  /\ \/ pb[r].phase = "Running" /\ pb[r].control # "paused"
     \/ pb[r].phase = "Paused" /\ pb[r].control # "paused"
Now(r) == [pb[r] EXCEPT !.phase = "Running"]

pause(r) ==
  /\ Live(r) /\ pb[r].phase = "Running" /\ pb[r].control = "paused"
  /\ Save(r, [pb[r] EXCEPT !.phase = "Paused"])
  /\ UNCHANGED <<made, world>>

startCreating(x) == [x EXCEPT !.stage = "Creating", !.rows = Append(@, "open")]

preparing(r) ==
  /\ Running(r, "Preparing")
  /\ made' = [made EXCEPT ![r] = Prepared(r, 3)]
  /\ \/ Save(r, startCreating(Now(r)))           \* the pool is Ready
     \/ up[r] /\ Save(r, fail(Now(r)))           \* not after poolTimeout
  /\ UNCHANGED world

\* creating makes the VMs that are missing and waits until each is ready.
creating(r) ==
  LET n == target(pb[r]) IN
  /\ Running(r, "Creating")
  /\ made[r]["namespace"] = "there"
  /\ vms' = [vms EXCEPT ![r] = n]
  /\ IF \A v \in 1..n : store[r][v].ready
     THEN Save(r, [Now(r) EXCEPT !.stage = "Settling"])
     ELSE Save(r, IF up[r] THEN fail(Now(r)) ELSE Now(r))
  /\ UNCHANGED <<made, store, moved, room, controls>>

\* startMeasuring begins the window; what was sent before it does not count.
startMeasuring(r) ==
  /\ Running(r, "Settling") /\ up[r]
  /\ Save(r, [Now(r) EXCEPT !.stage = "Measuring"])
  /\ store' = [store EXCEPT ![r] = [v \in VMs |-> [@[v] EXCEPT !.result = "none"]]]
  /\ UNCHANGED <<made, vms, moved, room, controls>>

\* pendingEvent: an event at this VM count that has no result yet.
pendingEvent(x) == {e \in Events : e[2] = target(x) /\ e[1] \notin x.done}

\* nextStep: the next event of the step, the end at the knee or after the last
\* step, or the next step.
nextStep(r, x) ==
  IF pendingEvent(x) # {}
  THEN LET e == CHOOSE e \in pendingEvent(x) : TRUE
       IN  [x EXCEPT !.stage = "Event", !.event = e[1], !.done = @ \union {e[1]}]
  ELSE IF (x.knee > 0 /\ StopAtKnee) \/ target(x) >= load.max
  THEN endRun(r, [x EXCEPT !.event = ""], FALSE)
  ELSE startCreating([x EXCEPT !.event = "", !.done = {}])

\* What starting an event changes outside: a backup has its pool and its policy.
Started(r, x) ==
  IF x.stage = "Event" /\ x.event = "Backup"
  THEN made' = [made EXCEPT ![r] = [@ EXCEPT !["policy"] = IF @ = "none" THEN "there" ELSE @,
                                             !["backups"] = IF @ = "none" THEN "there" ELSE @]]
  ELSE UNCHANGED made

\* measuring and finishStep: the row of the step, the knee and what it means.
measuring(r) ==
  LET n == target(pb[r])
      rows == [pb[r].rows EXCEPT ![Len(pb[r].rows)] = IF Fails(r, n) THEN "fail" ELSE "pass"]
      x == [Now(r) EXCEPT !.rows = rows, !.knee = Knee(rows), !.recommended = Recommended(rows, Knee(rows))]
  IN
  /\ Running(r, "Measuring")
  /\ pb[r].control = "skip" \/ (up[r] /\ pb[r].control # "hold")
  /\ Save(r, nextStep(r, x))
  /\ Started(r, nextStep(r, x))
  /\ moved' = [moved EXCEPT ![r] = FALSE]
  /\ UNCHANGED <<vms, store, room, controls>>

\* event and endEvent: a backup's policy goes with the event.
event(r) ==
  LET x == nextStep(r, Now(r)) IN
  /\ Running(r, "Event")
  /\ moved[r] \/ up[r]
  /\ Save(r, x)
  /\ moved' = [moved EXCEPT ![r] = FALSE]
  /\ made' = [made EXCEPT ![r]["policy"] = IF pb[r].event = "Backup" /\ @ = "there" THEN "going"
                                               ELSE IF x.event = "Backup" /\ @ = "none" THEN "there" ELSE @,
                             ![r]["backups"] = IF x.event = "Backup" /\ @ = "none" THEN "there" ELSE @]
  /\ UNCHANGED <<vms, store, room, controls>>

cleaningUp(r) ==
  /\ Live(r) /\ pb[r].phase = "CleaningUp"
  /\ cleanup(r, [pb[r] EXCEPT !.phase = IF ~Clean(r) THEN @
                                        ELSE IF pb[r].control = "stop" THEN "Stopped" ELSE "Complete"])
  /\ UNCHANGED world

\* A failed run is cleaned up, and a kept one once it is stopped.
cleanAfter(r) ==
  /\ Live(r) /\ pb[r].phase \in Ended /\ ~pb[r].cleanedUp
  /\ pb[r].phase = "Failed" \/ r \notin Kept \/ pb[r].control = "stop"
  /\ cleanup(r, pb[r])
  /\ UNCHANGED world

\* finalize: once it is clean, the results are forgotten and the run may go.
finalize(r) ==
  /\ pb[r].exists /\ pb[r].deleting
  /\ IF Clean(r)
     THEN /\ store' = [store EXCEPT ![r] = [v \in VMs |-> NoVM]]
          /\ \/ pb' = [pb EXCEPT ![r].exists = FALSE] /\ Calm
             \/ UNCHANGED pb /\ Disturb
          /\ UNCHANGED made
     ELSE made' = [made EXCEPT ![r] = Going(r)] /\ Calm /\ UNCHANGED <<pb, store>>
  /\ UNCHANGED <<vms, moved, room, up, controls>>

advance(r) == \/ stop(r) \/ begin(r) \/ check(r) \/ pause(r) \/ preparing(r) \/ creating(r) \/ startMeasuring(r)
              \/ measuring(r) \/ event(r) \/ cleaningUp(r) \/ cleanAfter(r) \/ finalize(r)
-----------------------------------------------------------------------------
(***************************************************************************)
(* The collector, the clock, Kubernetes and people.                        *)
(***************************************************************************)
\* A VM posts with the run's token, which goes with the namespace.
Accepts(r, v) == v <= vms[r] /\ made[r]["namespace"] = "there"
PostReady(r, v) ==
  /\ Accepts(r, v) /\ ~store[r][v].ready
  /\ store' = [store EXCEPT ![r][v].ready = TRUE]
  /\ Calm /\ UNCHANGED <<pb, made, vms, moved, room, up, controls>>

\* What the VM sent in the window, by its worst phase.
PostResult(r, v) ==
  /\ Accepts(r, v) /\ store[r][v].ready /\ pb[r].stage = "Measuring" /\ pb[r].phase # "Paused"
  /\ \E q \in {"fast", "slow"} :
       /\ store[r][v].result = "none"
       /\ store' = [store EXCEPT ![r][v].result = q]
  /\ Calm /\ UNCHANGED <<pb, made, vms, moved, room, up, controls>>

EventEnds(r) ==
  /\ pb[r].stage = "Event" /\ ~moved[r]
  /\ moved' = [moved EXCEPT ![r] = TRUE]
  /\ Calm /\ UNCHANGED <<pb, made, vms, store, room, up, controls>>

\* The clock of a paused run stands still.
TimePasses(r) ==
  /\ pb[r].exists /\ pb[r].phase = "Running" /\ ~up[r]
  /\ up' = [up EXCEPT ![r] = TRUE]
  /\ Calm /\ UNCHANGED <<pb, made, world>>

Gone(r, o) ==
  /\ made[r][o] = "going"
  /\ made' = [made EXCEPT ![r][o] = "none"]
  /\ vms' = IF o = "namespace" THEN [vms EXCEPT ![r] = 0] ELSE vms
  /\ Calm /\ UNCHANGED <<pb, store, moved, room, up, controls>>

RoomChanges(r) ==
  /\ pb[r].phase = "Checking"
  /\ RoomStays => \A o \in Range(Objects) : made[r][o] = "none"
  /\ room' = [room EXCEPT ![r] = ~@]
  /\ Calm /\ UNCHANGED <<pb, made, vms, store, moved, up, controls>>

Control(r) ==
  /\ Live(r) /\ controls < Controls
  /\ controls' = controls + 1
  /\ \/ \E c \in {"", "paused", "hold", "skip", "stop"} \ {pb[r].control} : pb' = [pb EXCEPT ![r].control = c]
     \/ pb' = [pb EXCEPT ![r].deleting = TRUE]
  /\ Calm /\ UNCHANGED <<made, vms, store, moved, room, up>>

Next ==
  \E r \in Runs :
    \/ advance(r) \/ EventEnds(r) \/ TimePasses(r) \/ RoomChanges(r) \/ Control(r)
    \/ \E v \in VMs : PostReady(r, v) \/ PostResult(r, v)
    \/ \E o \in Range(Objects) : Gone(r, o)

Spec == Init /\ [][Next]_vars

\* The ticker makes passes, time passes, and what is deleted goes.
Progress == \E r \in Runs : advance(r) \/ TimePasses(r) \/ \E o \in Range(Objects) : Gone(r, o)
FairSpec == Spec /\ WF_vars(Progress)
-----------------------------------------------------------------------------
TypeOK ==
  /\ load \in Loads
  /\ pb \in [Runs -> [exists : BOOLEAN, deleting : BOOLEAN, phase : Active \union Ended \union {"CleaningUp"},
                      stage : {"", "Preparing", "Creating", "Settling", "Measuring", "Event"},
                      rows : SeqOf({"open", "pass", "fail"}, Most \div StepVMs),
                      event : {""} \union {e[1] : e \in Events}, done : SUBSET {e[1] : e \in Events},
                      knee : 0..Most, recommended : 0..Most, cleanedUp : BOOLEAN,
                      control : {"", "paused", "hold", "skip", "stop"}]]
  /\ made \in [Runs -> [Range(Objects) -> {"none", "there", "going"}]]
  /\ vms \in [Runs -> 0..Most]
  /\ store \in [Runs -> [VMs -> [ready : BOOLEAN, result : {"none", "fast", "slow"}]]]
  /\ trouble \in 0..Troubles /\ controls \in 0..Controls

\* A run whose status says it is cleaned up, and a run whose finalizer let it go,
\* has left nothing: no namespace with VMs, no pool, no backup pool, no policy,
\* wherever it was stopped, deleted, cut off or failed (cleanup, finalize).
LeavesNothing == \A r \in Runs : pb[r].cleanedUp \/ ~pb[r].exists => made[r] = Nothing

\* A run with startAfter makes nothing while the run it waits for has its share
\* and VMs, unless that one is kept (waitingFor).
WaitsForClean ==
  \A r \in Runs : StartAfter[r] # "" /\ made[r] # Nothing => made[StartAfter[r]] = Nothing \/ StartAfter[r] \in Kept

\* The VM count that is recommended is that of a step that passed, and so did
\* every smaller one.
RecommendedPassed ==
  \A r \in Runs : pb[r].recommended > 0 =>
    \A i \in 1..(pb[r].recommended \div StepVMs) : pb[r].rows[i] = "pass"

RunsOver ==
  \/ \E q \in Runs : pb[q].control \in {"paused", "hold"}
  \/ \A r \in Runs : \/ made[r] = Nothing /\ (~pb[r].exists \/ pb[r].phase \in Ended)
                     \/ r \in Kept /\ pb[r].phase = "Complete"

\* Every run ends and is cleaned up, and a deleted run goes, unless people pause
\* or hold a run for ever or it is kept.
RunsEnd == []<>RunsOver
=============================================================================
