--------------------------- MODULE ManagerLocks ---------------------------
(***************************************************************************)
(* The locks of the Manager together: the volume locks (the mutexes that   *)
(* VolumeLocks implements), Manager.mu and vmMu, and the order in which    *)
(* each call takes and frees them.  What a call does in between is the     *)
(* business of other modules; here a call is the list of its lock steps.   *)
(***************************************************************************)
EXTENDS Integers, Sequences, FiniteSets

CONSTANTS
    Calls,      \* goroutines that run calls, one at a time each
    NumVolumes, \* volumes, numbered by the time their names were made
    Nil         \* no call, no volume

TheVolumes == 1 .. NumVolumes

\* A call has at most two volume locks: its own and a snapshot's source.
LockUses == Calls \X {"own", "source"}

ASSUME CallsAssumption ==
    /\ NumVolumes \in Nat \ {0}
    /\ Nil \notin Calls /\ Nil \notin LockUses /\ Nil \notin TheVolumes

VARIABLES
    wants, owner,   \* the volume locks (VolumeMutex)
    mu, vmMu,       \* the calls that hold them, or Nil
    run, at,        \* the lock steps of each call, <<>> while there is none, and the next one
    own, source     \* the volumes a call is about

callVars == <<wants, owner, mu, vmMu, run, at, own, source>>

V == INSTANCE VolumeMutex WITH Uses <- LockUses, Volumes <- TheVolumes, None <- Nil

-----------------------------------------------------------------------------
(* The calls *)

\* Allocate, Expand: only the bookkeeping.
Allocate == <<"mu", "freeMu">>

Deallocate == <<"askOwn", "own", "mu", "freeMu", "freeOwn">>

\* Mutant: the Manager's lock before the volume's.
CloneVolumeMutant == <<"mu", "askOwn", "own", "freeOwn", "freeMu">>

\* CloneVolume, of the source volume.
CloneVolume == <<"askOwn", "own", "mu", "freeMu", "freeOwn">>

\* CreateSnapshot: the space is booked, and given back when the CR cannot be made.
CreateSnapshot == <<"askOwn", "own", "mu", "freeMu", "mu", "freeMu", "freeOwn">>

\* DeleteSnapshot: a VM copy is cancelled only if no loop step runs.
DeleteSnapshot == <<"askOwn", "own", "tryVmMu", "freeVmMu", "mu", "freeMu", "freeOwn">>

\* RestoreSnapshot: the new volume's lock throughout, the source's for the copy.
RestoreSnapshot == <<"askOwn", "own", "mu", "freeMu", "askSource", "source", "freeSource", "freeOwn">>

\* RestoreSnapshot, called again for a volume that is still being copied.
RestoreAgain == <<"askOwn", "own", "askSource", "source", "freeSource", "freeOwn">>

\* A step of the VM copy loop.
advanceVMSnapshot == <<"vmMu", "freeVmMu">>

Programs == {Allocate, Deallocate, CloneVolume, CreateSnapshot, DeleteSnapshot,
             RestoreSnapshot, RestoreAgain, advanceVMSnapshot}

-----------------------------------------------------------------------------
(* Steps *)

\* A snapshot exists before the name of the volume it is restored to is made.
Begin(c) ==
    /\ run[c] = <<>>
    /\ \E p \in Programs, v \in TheVolumes, s \in TheVolumes :
          /\ IF p \in {RestoreSnapshot, RestoreAgain} THEN s < v ELSE s = v
          /\ run' = [run EXCEPT ![c] = p] /\ at' = [at EXCEPT ![c] = 1]
          /\ own' = [own EXCEPT ![c] = v]
          /\ source' = [source EXCEPT ![c] = s]
    /\ UNCHANGED <<wants, owner, mu, vmMu>>

At(c, step) == run[c] # <<>> /\ run[c][at[c]] = step

Goto(c, i) == at' = [at EXCEPT ![c] = i] /\ UNCHANGED <<run, own, source>>

\* The call is over with its last step.
Step(c) ==
    IF at[c] < Len(run[c]) THEN Goto(c, at[c] + 1)
    ELSE /\ run' = [run EXCEPT ![c] = <<>>] /\ at' = [at EXCEPT ![c] = 1]
         /\ UNCHANGED <<own, source>>

\* The deferred unlock of the call's own volume, its last step.
Leave(c) == Goto(c, Len(run[c]))

\* An error, or a way through the call that needs no more locks, ends it: its
\* deferred unlocks run.  Under a second lock the call frees that one first.
Fails(c) ==
    /\ run[c] # <<>> /\ at[c] < Len(run[c]) /\ owner[own[c]] = <<c, "own">>
    /\ mu # c /\ vmMu # c /\ wants[<<c, "source">>] = Nil
    /\ Leave(c)
    /\ UNCHANGED <<wants, owner, mu, vmMu>>

VolumeStep(c) ==
    /\ \/ At(c, "askOwn") /\ V!Ask(<<c, "own">>, own[c])
       \/ At(c, "freeOwn") /\ V!Give(<<c, "own">>)
       \/ At(c, "askSource") /\ V!Ask(<<c, "source">>, source[c])
       \/ At(c, "freeSource") /\ V!Give(<<c, "source">>)
    /\ Step(c)
    /\ UNCHANGED <<mu, vmMu>>

VolumeLock(c) ==
    /\ \/ At(c, "own") /\ V!Take(<<c, "own">>)
       \/ At(c, "source") /\ V!Take(<<c, "source">>)
    /\ Step(c)
    /\ UNCHANGED <<mu, vmMu>>

MuLock(c) ==
    /\ At(c, "mu") /\ mu = Nil /\ mu' = c
    /\ Step(c) /\ UNCHANGED <<wants, owner, vmMu>>

MuUnlock(c) ==
    /\ At(c, "freeMu") /\ mu' = Nil
    /\ Step(c) /\ UNCHANGED <<wants, owner, vmMu>>

VMLock(c) ==
    /\ At(c, "vmMu") /\ vmMu = Nil /\ vmMu' = c
    /\ Step(c) /\ UNCHANGED <<wants, owner, mu>>

VMUnlock(c) ==
    /\ At(c, "freeVmMu") /\ vmMu' = Nil
    /\ Step(c) /\ UNCHANGED <<wants, owner, mu>>

\* Mutant: TryLock is repeated until it succeeds.
cancelVMSnapshotForDeleteMutant(c) ==
    /\ At(c, "tryVmMu") /\ vmMu = Nil /\ vmMu' = c
    /\ Step(c) /\ UNCHANGED <<wants, owner, mu>>

\* TryLock: a loop step that runs now makes the delete answer "in progress".
cancelVMSnapshotForDelete(c) ==
    /\ At(c, "tryVmMu")
    /\ IF vmMu = Nil THEN vmMu' = c /\ Step(c)
       ELSE Leave(c) /\ UNCHANGED vmMu
    /\ UNCHANGED <<wants, owner, mu>>

CallsInit ==
    /\ V!Init
    /\ mu = Nil /\ vmMu = Nil
    /\ run = [c \in Calls |-> <<>>] /\ at = [c \in Calls |-> 1]
    /\ own = [c \in Calls |-> 1] /\ source = [c \in Calls |-> 1]

\* What a call does without waiting for anybody.
Unlocked(c) ==
    VolumeStep(c) \/ MuUnlock(c) \/ VMUnlock(c) \/ cancelVMSnapshotForDelete(c)

CallsNext == \E c \in Calls : Begin(c) \/ Fails(c) \/ Unlocked(c) \/ VolumeLock(c) \/ MuLock(c) \/ VMLock(c)

CallsSpec == CallsInit /\ [][CallsNext]_callVars

\* sync.Mutex hands a lock to a goroutine that has waited for long, so a
\* goroutine that finds the lock free again and again gets it.
CallsFairness ==
    \A c \in Calls :
       /\ WF_callVars(Unlocked(c))
       /\ SF_callVars(VolumeLock(c)) /\ SF_callVars(MuLock(c)) /\ SF_callVars(VMLock(c))

-----------------------------------------------------------------------------
(* Properties *)

CallsTyped ==
    /\ wants \in [LockUses -> TheVolumes \cup {Nil}] /\ owner \in [TheVolumes -> LockUses \cup {Nil}]
    /\ mu \in Calls \cup {Nil} /\ vmMu \in Calls \cup {Nil}
    /\ run \in [Calls -> Programs \cup {<<>>}] /\ at \in [Calls -> Nat \ {0}]
    /\ \A c \in Calls : run[c] # <<>> => at[c] <= Len(run[c])
    /\ own \in [Calls -> TheVolumes] /\ source \in [Calls -> TheVolumes]

\* The calls that hold what c waits for.
Blockers(c) ==
    {d \in Calls :
        \/ At(c, "mu") /\ mu = d
        \/ At(c, "vmMu") /\ vmMu = d
        \/ At(c, "own") /\ owner[own[c]] \in {d} \X {"own", "source"}
        \/ At(c, "source") /\ owner[source[c]] \in {d} \X {"own", "source"}}

\* "A caller that needs both takes the volume lock first": no calls wait for
\* each other in a circle, with all lock orders of the Manager's calls mixed.
NoCircle == \A S \in (SUBSET Calls) \ {{}} : \E c \in S : Blockers(c) \cap S = {}

\* Every call ends, and with it every lock is free again: whatever the calls
\* beside it do, none waits for ever.
CallsEnd == \A c \in Calls : run[c] # <<>> ~> run[c] = <<>>

\* A call that is over holds nothing: the deferred unlocks cover every error path.
NothingKept ==
    \A c \in Calls : run[c] = <<>> =>
        /\ mu # c /\ vmMu # c
        /\ \A u \in {c} \X {"own", "source"} : wants[u] = Nil

\* The calls keep to one order of locks and give back what they took, on their
\* error paths too: no circle of waiting calls, and nothing kept by a call that
\* is over.
LocksInOrder == CallsTyped /\ NoCircle /\ NothingKept
=============================================================================
