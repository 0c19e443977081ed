---------------------------- MODULE VolumeLocks ----------------------------
(***************************************************************************)
(* volumeLocks: a map from volume names to reference-counted mutexes.  An  *)
(* entry is made by the first use of a volume and removed by the last, so  *)
(* the map must never forget a mutex that somebody still waits for.        *)
(*                                                                         *)
(* The steps are those that other goroutines can interleave: the two       *)
(* sections under volumeLocks.mu, and the Lock and Unlock of the volume's  *)
(* own mutex.                                                              *)
(***************************************************************************)
EXTENDS Integers, FiniteSets

CONSTANTS
    Uses,      \* runs of lock(), at most one volume each
    Volumes,
    Objs,      \* volumeLock objects (pointers)
    None

ASSUME LocksAssumption ==
    /\ IsFiniteSet(Uses)
    /\ None \notin Uses /\ None \notin Volumes /\ None \notin Objs

VARIABLES
    locks,    \* volumeLocks.locks: the object of each volume, or None
    refs,     \* volumeLock.refs
    holder,   \* volumeLock.mu: the use that holds it, or None
    pc,       \* "out", "wait" (for l.mu), "in", "drop" (l.mu unlocked, refs not yet)
    vol, obj  \* the volume and the object (l) of each use

vars == <<locks, refs, holder, pc, vol, obj>>

\* An object no use holds a pointer to, and not in the map: a new one.
Fresh(o) == (\A u \in Uses : obj[u] # o) /\ (\A v \in Volumes : locks[v] # o)

\* Mutant: an entry is made anew although there is one.
FindMutant(v, o) == Fresh(o)

\* The object that lock(v) finds or makes.
Find(v, o) == IF locks[v] = None THEN Fresh(o) ELSE o = locks[v]

\* lock: the section under volumeLocks.mu.
Enter(u, v) ==
    /\ pc[u] = "out"
    /\ \E o \in Objs :
          /\ Find(v, o)
          /\ locks' = [locks EXCEPT ![v] = o]
          /\ refs' = [refs EXCEPT ![o] = IF locks[v] = None THEN 1 ELSE @ + 1]
          /\ obj' = [obj EXCEPT ![u] = o]
    /\ vol' = [vol EXCEPT ![u] = v]
    /\ pc' = [pc EXCEPT ![u] = "wait"]
    /\ UNCHANGED holder

\* lock: l.mu.Lock().
Acquire(u) ==
    /\ pc[u] = "wait" /\ holder[obj[u]] = None
    /\ holder' = [holder EXCEPT ![obj[u]] = u]
    /\ pc' = [pc EXCEPT ![u] = "in"]
    /\ UNCHANGED <<locks, refs, vol, obj>>

\* unlock: l.mu.Unlock().
Release(u) ==
    /\ pc[u] = "in"
    /\ holder' = [holder EXCEPT ![obj[u]] = None]
    /\ pc' = [pc EXCEPT ![u] = "drop"]
    /\ UNCHANGED <<locks, refs, vol, obj>>

\* Mutant: the entry goes with whoever unlocks.
DropMutant(u) ==
    /\ pc[u] = "drop"
    /\ refs' = [refs EXCEPT ![obj[u]] = @ - 1]
    /\ locks' = [locks EXCEPT ![vol[u]] = None]
    /\ pc' = [pc EXCEPT ![u] = "out"]
    /\ vol' = [vol EXCEPT ![u] = None]
    /\ obj' = [obj EXCEPT ![u] = None]
    /\ UNCHANGED holder

\* unlock: the section under volumeLocks.mu.
Drop(u) ==
    /\ pc[u] = "drop"
    /\ refs' = [refs EXCEPT ![obj[u]] = @ - 1]
    /\ locks' = IF refs'[obj[u]] = 0 THEN [locks EXCEPT ![vol[u]] = None] ELSE locks
    /\ pc' = [pc EXCEPT ![u] = "out"]
    /\ vol' = [vol EXCEPT ![u] = None]
    /\ obj' = [obj EXCEPT ![u] = None]
    /\ UNCHANGED holder

Init ==
    /\ locks = [v \in Volumes |-> None]
    /\ refs = [o \in Objs |-> 0]
    /\ holder = [o \in Objs |-> None]
    /\ pc = [u \in Uses |-> "out"]
    /\ vol = [u \in Uses |-> None] /\ obj = [u \in Uses |-> None]

Use(u) == (\E v \in Volumes : Enter(u, v)) \/ Acquire(u) \/ Release(u) \/ Drop(u)

Next == \E u \in Uses : Use(u)

Spec == Init /\ [][Next]_vars

-----------------------------------------------------------------------------
(* Properties *)

TypeOK ==
    /\ locks \in [Volumes -> Objs \cup {None}]
    /\ refs \in [Objs -> Nat]
    /\ holder \in [Objs -> Uses \cup {None}]
    /\ pc \in [Uses -> {"out", "wait", "in", "drop"}]
    /\ vol \in [Uses -> Volumes \cup {None}]
    /\ obj \in [Uses -> Objs \cup {None}]

\* "two changes to one disk never overlap": no two uses are inside the lock of
\* one volume, however lock and unlock interleave with other uses of it.
MutualExclusion ==
    \A u, w \in Uses : pc[u] = "in" /\ pc[w] = "in" /\ vol[u] = vol[w] => u = w

\* The uses between lock's section and unlock's section, by object.
Users(o) == {u \in Uses : obj[u] = o}

\* The map holds an entry for exactly the volumes in use, and a count is the
\* number of its users: no entry is forgotten early and none is leaked.
MapExact ==
    /\ \A v \in Volumes : locks[v] = None <=> \A u \in Uses : vol[u] # v
    /\ \A v \in Volumes : locks[v] # None => refs[locks[v]] = Cardinality(Users(locks[v]))

\* The abstract mutex of each volume: a use asks, takes and gives back.
Asked == [u \in Uses |-> IF pc[u] \in {"wait", "in"} THEN vol[u] ELSE None]
Owner == [v \in Volumes |-> IF locks[v] = None THEN None ELSE holder[locks[v]]]

Mutex == INSTANCE VolumeMutex WITH wants <- Asked, owner <- Owner

\* volumeLocks implements one mutex per volume: although the map's entries come
\* and go, no use ever waits on, takes or frees a mutex of its own.
MutexSpec == Mutex!Spec
=============================================================================
