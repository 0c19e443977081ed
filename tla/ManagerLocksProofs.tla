------------------------- MODULE ManagerLocksProofs -------------------------
(***************************************************************************)
(* Proofs about ManagerLocks, for any calls and any number of volumes: no  *)
(* circle of waiting calls, and nothing kept by a call that is over.       *)
(***************************************************************************)
EXTENDS ManagerLocks, WellFoundedInduction, TLAPS

\* What CallsAssumption says of the constants, as a hypothesis of the lemmas.
Constants ==
    /\ NumVolumes \in Nat \ {0}
    /\ Nil \notin Calls /\ Nil \notin LockUses /\ Nil \notin TheVolumes

-----------------------------------------------------------------------------
(* The inductive invariant: the place of a call tells what it holds. *)

\* The call has its own volume's lock.
HoldsOwn(c) == run[c] # <<>> /\ run[c][1] = "askOwn" /\ at[c] > 2

\* Manager.mu and vmMu are held from the step that takes them to the next.
Mutexes(c) == (mu = c <=> At(c, "freeMu")) /\ (vmMu = c <=> At(c, "freeVmMu"))

\* The lock of the own volume is asked for first and given back last.
Own(c) ==
    /\ wants[<<c, "own">>] = IF HoldsOwn(c) \/ At(c, "own") THEN own[c] ELSE Nil
    /\ \A v \in TheVolumes : owner[v] = <<c, "own">> <=> HoldsOwn(c) /\ v = own[c]

\* The source's lock is held for one step.
Source(c) ==
    /\ wants[<<c, "source">>] = IF At(c, "source") \/ At(c, "freeSource") THEN source[c] ELSE Nil
    /\ \A v \in TheVolumes : owner[v] = <<c, "source">> <=> At(c, "freeSource") /\ v = source[c]

\* A restore's source is the older volume.
Older(c) == run[c] \in {RestoreSnapshot, RestoreAgain} => source[c] < own[c]

Placed(c) == Mutexes(c) /\ Own(c) /\ Source(c) /\ Older(c)

IInv == CallsTyped /\ \A c \in Calls : Placed(c)

-----------------------------------------------------------------------------
(* The programs *)

\* The own volume's lock is asked for first and given back last, and the other
\* locks are held for one step each; a restore alone takes its source's.
InOrder(p, i) ==
    /\ p[i] = "askOwn" => i = 1
    /\ p[i] = "own" <=> i = 2 /\ p[1] = "askOwn"
    /\ p[i] = "freeOwn" <=> i = Len(p) /\ p[1] = "askOwn"
    /\ i = Len(p) => p[i] \in {"freeMu", "freeVmMu", "freeOwn"}
    /\ p[i] \in {"askSource", "source", "freeSource"} =>
          i > 2 /\ p[1] = "askOwn" /\ p \in {RestoreSnapshot, RestoreAgain}
    /\ p[i] = "tryVmMu" => i > 2 /\ p[1] = "askOwn"
    /\ i < Len(p) =>
          /\ p[i + 1] = "own" <=> p[i] = "askOwn"
          /\ p[i + 1] = "freeMu" <=> p[i] = "mu"
          /\ p[i + 1] = "freeVmMu" <=> p[i] \in {"vmMu", "tryVmMu"}
          /\ p[i + 1] = "source" <=> p[i] = "askSource"
          /\ p[i + 1] = "freeSource" <=> p[i] = "source"
    /\ p[1] = "askOwn" => Len(p) > 2

\* Every call of the Manager takes and frees its locks in that order.
LEMMA ProgramFacts ==
    ASSUME NEW p \in Programs, NEW i \in 1 .. Len(p)
    PROVE  InOrder(p, i)
<1>1. CASE p = Allocate  BY <1>1 DEF InOrder, Allocate
<1>2. CASE p = advanceVMSnapshot  BY <1>2 DEF InOrder, advanceVMSnapshot
<1>3. CASE p = Deallocate  BY <1>3 DEF InOrder, Deallocate
<1>4. CASE p = CloneVolume  BY <1>4 DEF InOrder, CloneVolume
<1>5. CASE p = CreateSnapshot  BY <1>5 DEF InOrder, CreateSnapshot
<1>6. CASE p = DeleteSnapshot  BY <1>6 DEF InOrder, DeleteSnapshot
<1>7. CASE p = RestoreSnapshot  BY <1>7 DEF InOrder, RestoreSnapshot
<1>8. CASE p = RestoreAgain  BY <1>8 DEF InOrder, RestoreAgain
<1> QED  BY <1>1, <1>2, <1>3, <1>4, <1>5, <1>6, <1>7, <1>8 DEF Programs

\* A program is a list of steps, and not an empty one.
LEMMA ProgramLen == ASSUME NEW p \in Programs
                    PROVE  Len(p) \in Nat /\ Len(p) >= 2 /\ p # <<>>
<1>1. CASE p = Allocate  BY <1>1 DEF Allocate
<1>2. CASE p = advanceVMSnapshot  BY <1>2 DEF advanceVMSnapshot
<1>3. CASE p = Deallocate  BY <1>3 DEF Deallocate
<1>4. CASE p = CloneVolume  BY <1>4 DEF CloneVolume
<1>5. CASE p = CreateSnapshot  BY <1>5 DEF CreateSnapshot
<1>6. CASE p = DeleteSnapshot  BY <1>6 DEF DeleteSnapshot
<1>7. CASE p = RestoreSnapshot  BY <1>7 DEF RestoreSnapshot
<1>8. CASE p = RestoreAgain  BY <1>8 DEF RestoreAgain
<1> QED  BY <1>1, <1>2, <1>3, <1>4, <1>5, <1>6, <1>7, <1>8 DEF Programs

\* A call starts with its own volume's lock or with a mutex.
LEMMA ProgramStarts ==
    ASSUME NEW p \in Programs
    PROVE  p[1] \in {"askOwn", "mu", "vmMu"}
BY DEF Programs, Allocate, Deallocate, CloneVolume, CreateSnapshot, DeleteSnapshot,
       RestoreSnapshot, RestoreAgain, advanceVMSnapshot

-----------------------------------------------------------------------------
(* Steps *)

\* What a step leaves to a lock use, and to a call.
KeepsUse(u) ==
    /\ wants'[u] = wants[u]
    /\ \A v \in TheVolumes : owner'[v] = u <=> owner[v] = u

Stays(d) ==
    /\ run'[d] = run[d] /\ at'[d] = at[d] /\ own'[d] = own[d] /\ source'[d] = source[d]
    /\ mu' = d <=> mu = d
    /\ vmMu' = d <=> vmMu = d
    /\ KeepsUse(<<d, "own">>) /\ KeepsUse(<<d, "source">>)

\* A step of another call leaves a call where it was, with what it held.
LEMMA Elsewhere ==
    ASSUME NEW d \in Calls, Placed(d), Stays(d)
    PROVE  Placed(d)'
<1>1. HoldsOwn(d)' <=> HoldsOwn(d)  BY DEF HoldsOwn, Stays
<1>2. \A s : At(d, s)' <=> At(d, s)  BY DEF At, Stays
<1>3. Mutexes(d)'  BY <1>2 DEF Placed, Mutexes, Stays
<1>4. Own(d)'  BY <1>1, <1>2 DEF Placed, Own, Stays, KeepsUse, TheVolumes
<1>5. Source(d)'  BY <1>2 DEF Placed, Source, Stays, KeepsUse, TheVolumes
<1>6. Older(d)'  BY DEF Placed, Older, Stays
<1> QED  BY <1>3, <1>4, <1>5, <1>6 DEF Placed

\* The types of where the calls are, and of the locks.
PlacesOK ==
    /\ run \in [Calls -> Programs \cup {<<>>}] /\ at \in [Calls -> Nat \ {0}]
    /\ \A c \in Calls : run[c] # <<>> => at[c] <= Len(run[c])
    /\ own \in [Calls -> TheVolumes] /\ source \in [Calls -> TheVolumes]

HoldersOK ==
    /\ wants \in [LockUses -> TheVolumes \cup {Nil}] /\ owner \in [TheVolumes -> LockUses \cup {Nil}]
    /\ mu \in Calls \cup {Nil} /\ vmMu \in Calls \cup {Nil}

\* The types of the calls' places and of the locks' holders, apart.
LEMMA Types == CallsTyped <=> PlacesOK /\ HoldersOK
BY DEF CallsTyped, PlacesOK, HoldersOK

\* A call inside its program, and what its step says of the program.
LEMMA Inside ==
    ASSUME PlacesOK, NEW c \in Calls, run[c] # <<>>
    PROVE  /\ run[c] \in Programs /\ at[c] \in 1 .. Len(run[c])
           /\ Len(run[c]) \in Nat
           /\ InOrder(run[c], at[c])
<1>1. run[c] \in Programs /\ at[c] \in Nat \ {0} /\ at[c] <= Len(run[c])  BY DEF PlacesOK
<1>2. Len(run[c]) \in Nat  BY <1>1, ProgramLen
<1>3. at[c] \in 1 .. Len(run[c])  BY <1>1, <1>2
<1> QED  BY <1>1, <1>2, <1>3, ProgramFacts

\* Goto moves the call alone.
LEMMA GotoMoves ==
    ASSUME PlacesOK, NEW c \in Calls, run[c] # <<>>, NEW i \in 1 .. Len(run[c]), Goto(c, i)
    PROVE  /\ PlacesOK'
           /\ run' = run /\ own' = own /\ source' = source /\ at'[c] = i
           /\ \A d \in Calls \ {c} : at'[d] = at[d]
BY Inside DEF Goto, PlacesOK

\* A step moves the call to the next one, or ends it.
LEMMA StepMoves ==
    ASSUME PlacesOK, NEW c \in Calls, run[c] # <<>>, Step(c)
    PROVE  /\ PlacesOK'
           /\ own' = own /\ source' = source
           /\ \A d \in Calls \ {c} : run'[d] = run[d] /\ at'[d] = at[d]
           /\ at[c] < Len(run[c]) => run'[c] = run[c] /\ at'[c] = at[c] + 1
           /\ at[c] = Len(run[c]) => run'[c] = <<>>
<1>1. run[c] \in Programs /\ at[c] \in 1 .. Len(run[c]) /\ Len(run[c]) \in Nat  BY Inside
<1>2. CASE at[c] < Len(run[c])
  <2>1. Goto(c, at[c] + 1) /\ at[c] + 1 \in 1 .. Len(run[c])  BY <1>1, <1>2 DEF Step
  <2> QED  BY <2>1, <1>1, <1>2, GotoMoves
<1>3. CASE at[c] = Len(run[c])
  <2>1. /\ run' = [run EXCEPT ![c] = <<>>] /\ at' = [at EXCEPT ![c] = 1]
        /\ own' = own /\ source' = source
      BY <1>1, <1>3 DEF Step
  <2> QED  BY <2>1, <1>1, <1>3 DEF PlacesOK
<1> QED  BY <1>1, <1>2, <1>3

\* A use that takes or gives back its lock changes nothing for the others.
LEMMA UsesApart ==
    ASSUME Constants, HoldersOK, NEW u \in LockUses,
           V!Take(u) \/ V!Give(u) \/ \E v \in TheVolumes : V!Ask(u, v)
    PROVE  /\ wants' \in [LockUses -> TheVolumes \cup {Nil}]
           /\ owner' \in [TheVolumes -> LockUses \cup {Nil}]
           /\ \A w \in LockUses \ {u} : KeepsUse(w)
<1>1. CASE V!Take(u)  BY <1>1 DEF Constants, HoldersOK, KeepsUse, V!Take
<1>2. CASE V!Give(u)  BY <1>2 DEF Constants, HoldersOK, KeepsUse, V!Give
<1>3. CASE \E v \in TheVolumes : V!Ask(u, v)  BY <1>3 DEF Constants, HoldersOK, KeepsUse, V!Ask
<1> QED  BY <1>1, <1>2, <1>3

\* It is enough to look at the call that takes the step.
LEMMA Rest ==
    ASSUME IInv, NEW c \in Calls, CallsTyped', Placed(c)', \A d \in Calls \ {c} : Stays(d)
    PROVE  IInv'
BY Elsewhere DEF IInv

\* Where a step takes its call, in terms of where it was.
LEMMA StepPlace ==
    ASSUME PlacesOK, NEW c \in Calls, run[c] # <<>>, Step(c)
    PROVE  /\ At(c, "freeMu")' <=> At(c, "mu")
           /\ At(c, "freeVmMu")' <=> At(c, "vmMu") \/ At(c, "tryVmMu")
           /\ At(c, "own")' <=> At(c, "askOwn")
           /\ At(c, "source")' <=> At(c, "askSource")
           /\ At(c, "freeSource")' <=> At(c, "source")
           /\ HoldsOwn(c)' <=> At(c, "own") \/ (HoldsOwn(c) /\ ~ At(c, "freeOwn"))
<1> DEFINE p == run[c]
           i == at[c]
<1>1. p \in Programs /\ i \in 1 .. Len(p) /\ Len(p) \in Nat /\ InOrder(p, i)  BY Inside
<1>2. CASE i < Len(p)
  <2>1. run'[c] = p /\ at'[c] = i + 1  BY <1>2, StepMoves
  <2>2. \A s : At(c, s)' <=> p[i + 1] = s  BY <2>1 DEF At
  <2>3. \A s : At(c, s) <=> p[i] = s  BY DEF At
  <2>4. HoldsOwn(c)' <=> p[1] = "askOwn" /\ i + 1 > 2  BY <2>1 DEF HoldsOwn
  <2>5. HoldsOwn(c) <=> p[1] = "askOwn" /\ i > 2  BY DEF HoldsOwn
  <2> HIDE DEF p, i
  <2> QED  BY <1>1, <1>2, <2>2, <2>3, <2>4, <2>5 DEF InOrder
<1>3. CASE i = Len(p)
  <2>1. run'[c] = <<>>  BY <1>3, StepMoves
  <2>2. \A s : ~ At(c, s)'  BY <2>1 DEF At
  <2>3. \A s : At(c, s) <=> p[i] = s  BY DEF At
  <2>4. ~ HoldsOwn(c)'  BY <2>1 DEF HoldsOwn
  <2>5. HoldsOwn(c) <=> p[1] = "askOwn" /\ i > 2  BY DEF HoldsOwn
  <2> HIDE DEF p, i
  <2> QED  BY <1>1, <1>3, <2>2, <2>3, <2>4, <2>5 DEF InOrder
<1> QED  BY <1>1, <1>2, <1>3

\* A call has its own volume's lock under every other volume lock and under
\* the TryLock, and never while it waits for it.
LEMMA Nested ==
    ASSUME PlacesOK, NEW c \in Calls
    PROVE  /\ At(c, "askSource") \/ At(c, "source") \/ At(c, "freeSource") =>
                 HoldsOwn(c) /\ run[c] \in {RestoreSnapshot, RestoreAgain}
           /\ At(c, "tryVmMu") \/ At(c, "freeOwn") => HoldsOwn(c)
           /\ At(c, "own") \/ At(c, "askOwn") => ~ HoldsOwn(c)
<1>1. CASE run[c] = <<>>  BY <1>1 DEF At, HoldsOwn
<1>2. CASE run[c] # <<>>
  <2>1. at[c] \in 1 .. Len(run[c]) /\ Len(run[c]) \in Nat /\ InOrder(run[c], at[c])  BY <1>2, Inside
  <2> QED  BY <1>2, <2>1 DEF At, HoldsOwn, InOrder
<1> QED  BY <1>1, <1>2

\* A step of the program, when the locks are as the new place says.
LEMMA StepRest ==
    ASSUME IInv, NEW c \in Calls, run[c] # <<>>, Step(c),
           HoldersOK', Mutexes(c)', Own(c)', Source(c)',
           \A d \in Calls \ {c} :
              /\ mu' = d <=> mu = d
              /\ vmMu' = d <=> vmMu = d
              /\ KeepsUse(<<d, "own">>) /\ KeepsUse(<<d, "source">>)
    PROVE  IInv'
<1>1. PlacesOK /\ Placed(c)  BY Types DEF IInv
<1>2. CallsTyped'  BY <1>1, StepMoves, Types DEF CallsTyped, PlacesOK, HoldersOK
<1>3. run'[c] = run[c] \/ run'[c] = <<>>  BY <1>1, StepMoves, Inside
<1>4. Older(c)'
  <2>1. <<>> \notin {RestoreSnapshot, RestoreAgain}  BY ProgramLen DEF Programs
  <2>2. own' = own /\ source' = source  BY <1>1, StepMoves
  <2> QED  BY <1>1, <1>3, <2>1, <2>2 DEF Placed, Older
<1>5. \A d \in Calls \ {c} : Stays(d)  BY <1>1, StepMoves, Zenon DEF Stays
<1> QED  BY <1>2, <1>4, <1>5, Rest DEF Placed

\* Taking Manager.mu keeps the invariant.
LEMMA MuLockStep ==
    ASSUME Constants, IInv, NEW c \in Calls, MuLock(c)
    PROVE  IInv'
<1>1. PlacesOK /\ HoldersOK /\ Placed(c)  BY Types DEF IInv
<1>2. /\ At(c, "mu") /\ mu' = c /\ Step(c) /\ mu = Nil
      /\ wants' = wants /\ owner' = owner /\ vmMu' = vmMu
    BY <1>1 DEF MuLock, Placed, Mutexes
<1>3. run[c] # <<>> /\ \A s : At(c, s) <=> s = "mu"  BY <1>2 DEF At
<1>4. HoldersOK'  BY <1>1, <1>2 DEF HoldersOK
<1>5. Mutexes(c)'  BY <1>1, <1>2, <1>3, StepPlace DEF Placed, Mutexes, Constants
<1>6. Own(c)'  BY <1>1, <1>2, <1>3, StepPlace, StepMoves DEF Placed, Own, TheVolumes
<1>7. Source(c)'  BY <1>1, <1>2, <1>3, StepPlace, StepMoves DEF Placed, Source, TheVolumes
<1> QED  BY <1>2, <1>3, <1>4, <1>5, <1>6, <1>7, StepRest DEF KeepsUse, Constants

\* Freeing Manager.mu keeps it.
LEMMA MuUnlockStep ==
    ASSUME Constants, IInv, NEW c \in Calls, MuUnlock(c)
    PROVE  IInv'
<1>1. PlacesOK /\ HoldersOK /\ Placed(c)  BY Types DEF IInv
<1>2. /\ At(c, "freeMu") /\ mu' = Nil /\ Step(c) /\ mu = c
      /\ wants' = wants /\ owner' = owner /\ vmMu' = vmMu
    BY <1>1 DEF MuUnlock, Placed, Mutexes
<1>3. run[c] # <<>> /\ \A s : At(c, s) <=> s = "freeMu"  BY <1>2 DEF At
<1>4. HoldersOK'  BY <1>1, <1>2 DEF HoldersOK
<1>5. Mutexes(c)'  BY <1>1, <1>2, <1>3, StepPlace DEF Placed, Mutexes, Constants
<1>6. Own(c)'  BY <1>1, <1>2, <1>3, StepPlace, StepMoves DEF Placed, Own, TheVolumes
<1>7. Source(c)'  BY <1>1, <1>2, <1>3, StepPlace, StepMoves DEF Placed, Source, TheVolumes
<1> QED  BY <1>2, <1>3, <1>4, <1>5, <1>6, <1>7, StepRest DEF KeepsUse, Constants

\* Taking vmMu keeps it.
LEMMA VMLockStep ==
    ASSUME Constants, IInv, NEW c \in Calls, VMLock(c)
    PROVE  IInv'
<1>1. PlacesOK /\ HoldersOK /\ Placed(c)  BY Types DEF IInv
<1>2. /\ At(c, "vmMu") /\ vmMu' = c /\ Step(c) /\ vmMu = Nil
      /\ wants' = wants /\ owner' = owner /\ mu' = mu
    BY <1>1 DEF VMLock, Placed, Mutexes
<1>3. run[c] # <<>> /\ \A s : At(c, s) <=> s = "vmMu"  BY <1>2 DEF At
<1>4. HoldersOK'  BY <1>1, <1>2 DEF HoldersOK
<1>5. Mutexes(c)'  BY <1>1, <1>2, <1>3, StepPlace DEF Placed, Mutexes, Constants
<1>6. Own(c)'  BY <1>1, <1>2, <1>3, StepPlace, StepMoves DEF Placed, Own, TheVolumes
<1>7. Source(c)'  BY <1>1, <1>2, <1>3, StepPlace, StepMoves DEF Placed, Source, TheVolumes
<1> QED  BY <1>2, <1>3, <1>4, <1>5, <1>6, <1>7, StepRest DEF KeepsUse, Constants

\* Freeing vmMu keeps it.
LEMMA VMUnlockStep ==
    ASSUME Constants, IInv, NEW c \in Calls, VMUnlock(c)
    PROVE  IInv'
<1>1. PlacesOK /\ HoldersOK /\ Placed(c)  BY Types DEF IInv
<1>2. /\ At(c, "freeVmMu") /\ vmMu' = Nil /\ Step(c) /\ vmMu = c
      /\ wants' = wants /\ owner' = owner /\ mu' = mu
    BY <1>1 DEF VMUnlock, Placed, Mutexes
<1>3. run[c] # <<>> /\ \A s : At(c, s) <=> s = "freeVmMu"  BY <1>2 DEF At
<1>4. HoldersOK'  BY <1>1, <1>2 DEF HoldersOK
<1>5. Mutexes(c)'  BY <1>1, <1>2, <1>3, StepPlace DEF Placed, Mutexes, Constants
<1>6. Own(c)'  BY <1>1, <1>2, <1>3, StepPlace, StepMoves DEF Placed, Own, TheVolumes
<1>7. Source(c)'  BY <1>1, <1>2, <1>3, StepPlace, StepMoves DEF Placed, Source, TheVolumes
<1> QED  BY <1>2, <1>3, <1>4, <1>5, <1>6, <1>7, StepRest DEF KeepsUse, Constants

\* A call that has only its own volume's lock may go to the end, which frees it.
LEMMA LeaveStep ==
    ASSUME Constants, IInv, NEW c \in Calls, Leave(c), HoldsOwn(c),
           ~ At(c, "freeMu"), ~ At(c, "freeVmMu"), ~ At(c, "source"), ~ At(c, "freeSource"),
           wants' = wants, owner' = owner, mu' = mu, vmMu' = vmMu
    PROVE  IInv'
<1> DEFINE p == run[c]
<1>1. PlacesOK /\ HoldersOK /\ Placed(c) /\ p # <<>>  BY Types DEF IInv, HoldsOwn
<1>2. Len(p) \in 1 .. Len(p) /\ p \in Programs /\ p[1] = "askOwn"
    BY <1>1, Inside DEF HoldsOwn
<1>3. Goto(c, Len(p))  BY DEF Leave
<1>4. /\ PlacesOK'
      /\ run' = run /\ own' = own /\ source' = source /\ at'[c] = Len(p)
      /\ \A d \in Calls \ {c} : at'[d] = at[d]
    BY <1>1, <1>2, <1>3, GotoMoves
<1>5. p[Len(p)] = "freeOwn" /\ Len(p) > 2  BY <1>2, ProgramFacts DEF InOrder
<1>6. \A s : At(c, s)' <=> s = "freeOwn"  BY <1>1, <1>4, <1>5 DEF At
<1>7. HoldsOwn(c)'  BY <1>1, <1>2, <1>4, <1>5 DEF HoldsOwn
<1>8. ~ At(c, "own")  BY <1>1, Nested
<1>9. Mutexes(c)'  BY <1>1, <1>6 DEF Placed, Mutexes
<1>10. Own(c)'  BY <1>1, <1>4, <1>7, <1>8 DEF Placed, Own, TheVolumes
<1>11. Source(c)'  BY <1>1, <1>4, <1>6 DEF Placed, Source, TheVolumes
<1>12. Older(c)'  BY <1>1, <1>4 DEF Placed, Older
<1>13. CallsTyped'  BY <1>1, <1>4, Types DEF CallsTyped, PlacesOK, HoldersOK
<1> QED  BY <1>4, <1>9, <1>10, <1>11, <1>12, <1>13, Rest DEF Placed, Stays, KeepsUse

\* A TryLock of vmMu keeps it, whether it gets the mutex or not.
LEMMA TryLockStep ==
    ASSUME Constants, IInv, NEW c \in Calls, cancelVMSnapshotForDelete(c)
    PROVE  IInv'
<1>1. PlacesOK /\ HoldersOK /\ Placed(c)  BY Types DEF IInv
<1>2. At(c, "tryVmMu") /\ wants' = wants /\ owner' = owner /\ mu' = mu
    BY DEF cancelVMSnapshotForDelete
<1>3. run[c] # <<>> /\ \A s : At(c, s) <=> s = "tryVmMu"  BY <1>2 DEF At
<1>4. CASE vmMu = Nil
  <2>1. vmMu' = c /\ Step(c)  BY <1>4 DEF cancelVMSnapshotForDelete
  <2>2. HoldersOK'  BY <1>1, <1>2, <2>1 DEF HoldersOK
  <2>3. Mutexes(c)'  BY <1>1, <1>2, <1>3, <2>1, StepPlace DEF Placed, Mutexes, Constants
  <2>4. Own(c)'  BY <1>1, <1>2, <1>3, <2>1, StepPlace, StepMoves DEF Placed, Own, TheVolumes
  <2>5. Source(c)'  BY <1>1, <1>2, <1>3, <2>1, StepPlace, StepMoves DEF Placed, Source, TheVolumes
  <2> QED  BY <1>2, <1>3, <1>4, <2>1, <2>2, <2>3, <2>4, <2>5, StepRest DEF KeepsUse, Constants
<1>5. CASE vmMu # Nil
  <2>1. Leave(c) /\ vmMu' = vmMu  BY <1>5 DEF cancelVMSnapshotForDelete
  <2>2. HoldsOwn(c) /\ ~ At(c, "freeMu") /\ ~ At(c, "freeVmMu") /\ ~ At(c, "source")
        /\ ~ At(c, "freeSource")
      BY <1>1, <1>3, Nested
  <2> QED  BY <1>1, <1>2, <2>1, <2>2, LeaveStep
<1> QED  BY <1>4, <1>5

\* An early return frees the own volume's lock, the only one held there.
LEMMA FailsStep ==
    ASSUME Constants, IInv, NEW c \in Calls, Fails(c)
    PROVE  IInv'
<1>1. PlacesOK /\ HoldersOK /\ Placed(c)  BY Types DEF IInv
<1>2. /\ Leave(c) /\ wants' = wants /\ owner' = owner /\ mu' = mu /\ vmMu' = vmMu
      /\ owner[own[c]] = <<c, "own">> /\ mu # c /\ vmMu # c /\ wants[<<c, "source">>] = Nil
    BY DEF Fails
<1>3. own[c] \in TheVolumes /\ source[c] \in TheVolumes  BY <1>1 DEF PlacesOK
<1>4. HoldsOwn(c)  BY <1>1, <1>2, <1>3 DEF Placed, Own
<1>5. ~ At(c, "freeMu") /\ ~ At(c, "freeVmMu")  BY <1>1, <1>2 DEF Placed, Mutexes
<1>6. ~ At(c, "source") /\ ~ At(c, "freeSource")
    BY <1>1, <1>2, <1>3 DEF Placed, Source, Constants
<1> QED  BY <1>2, <1>4, <1>5, <1>6, LeaveStep

\* Asking for the own volume's lock keeps the invariant.
LEMMA AskOwnStep ==
    ASSUME Constants, IInv, NEW c \in Calls, VolumeStep(c), At(c, "askOwn")
    PROVE  IInv'
<1>1. PlacesOK /\ HoldersOK /\ Placed(c)  BY Types DEF IInv
<1>2. run[c] # <<>> /\ \A s : At(c, s) <=> s = "askOwn"  BY DEF At
<1>3. V!Ask(<<c, "own">>, own[c]) /\ Step(c) /\ mu' = mu /\ vmMu' = vmMu  BY <1>2 DEF VolumeStep
<1>4. <<c, "own">> \in LockUses /\ own[c] \in TheVolumes  BY <1>1 DEF LockUses, PlacesOK
<1>5. /\ wants' \in [LockUses -> TheVolumes \cup {Nil}]
      /\ owner' \in [TheVolumes -> LockUses \cup {Nil}]
      /\ \A w \in LockUses \ {<<c, "own">>} : KeepsUse(w)
    BY <1>1, <1>3, <1>4, UsesApart
<1>6. HoldersOK'  BY <1>1, <1>3, <1>5 DEF HoldersOK
<1>7. ~ HoldsOwn(c)  BY <1>1, <1>2, Nested
<1>8. wants[<<c, "own">>] = Nil /\ wants'[<<c, "own">>] = own[c] /\ owner' = owner
    BY <1>1, <1>2, <1>3, <1>4, <1>7 DEF V!Ask, Placed, Own, HoldersOK, Constants
<1>9. Mutexes(c)'  BY <1>1, <1>2, <1>3, StepPlace DEF Placed, Mutexes
<1>10. Own(c)'
    BY <1>1, <1>2, <1>3, <1>4, <1>7, <1>8, StepPlace, StepMoves, Zenon
    DEF Placed, Own, TheVolumes, HoldersOK, Constants
<1>11. Source(c)'
  <2>1. KeepsUse(<<c, "source">>)  BY <1>5 DEF LockUses
  <2> QED  BY <1>1, <1>2, <1>3, <1>7, <2>1, StepPlace, StepMoves DEF Placed, Source, KeepsUse, TheVolumes
<1>12. \A d \in Calls \ {c} : KeepsUse(<<d, "own">>) /\ KeepsUse(<<d, "source">>)
    BY <1>5 DEF LockUses
<1> QED  BY <1>2, <1>3, <1>6, <1>9, <1>10, <1>11, <1>12, StepRest

\* Giving back the own volume's lock ends the call.
LEMMA GiveOwnStep ==
    ASSUME Constants, IInv, NEW c \in Calls, VolumeStep(c), At(c, "freeOwn")
    PROVE  IInv'
<1>1. PlacesOK /\ HoldersOK /\ Placed(c)  BY Types DEF IInv
<1>2. run[c] # <<>> /\ \A s : At(c, s) <=> s = "freeOwn"  BY DEF At
<1>3. V!Give(<<c, "own">>) /\ Step(c) /\ mu' = mu /\ vmMu' = vmMu  BY <1>2 DEF VolumeStep
<1>4. <<c, "own">> \in LockUses /\ own[c] \in TheVolumes  BY <1>1 DEF LockUses, PlacesOK
<1>5. /\ wants' \in [LockUses -> TheVolumes \cup {Nil}]
      /\ owner' \in [TheVolumes -> LockUses \cup {Nil}]
      /\ \A w \in LockUses \ {<<c, "own">>} : KeepsUse(w)
    BY <1>1, <1>3, <1>4, UsesApart
<1>6. HoldersOK'  BY <1>1, <1>3, <1>5 DEF HoldersOK
<1>7. HoldsOwn(c)  BY <1>1, <1>2, Nested
<1>8. wants[<<c, "own">>] = own[c] /\ owner[own[c]] = <<c, "own">> /\ wants'[<<c, "own">>] = Nil /\ owner' = [owner EXCEPT ![own[c]] = Nil]
    BY <1>1, <1>2, <1>3, <1>4, <1>7 DEF V!Give, Placed, Own, HoldersOK, Constants
<1>9. Mutexes(c)'  BY <1>1, <1>2, <1>3, StepPlace DEF Placed, Mutexes
<1>10. Own(c)'
    BY <1>1, <1>2, <1>3, <1>4, <1>7, <1>8, StepPlace, StepMoves, ZenonT(40)
    DEF Placed, Own, TheVolumes, HoldersOK, Constants
<1>11. Source(c)'
  <2>1. KeepsUse(<<c, "source">>)  BY <1>5 DEF LockUses
  <2> QED  BY <1>1, <1>2, <1>3, <1>7, <2>1, StepPlace, StepMoves DEF Placed, Source, KeepsUse, TheVolumes
<1>12. \A d \in Calls \ {c} : KeepsUse(<<d, "own">>) /\ KeepsUse(<<d, "source">>)
    BY <1>5 DEF LockUses
<1> QED  BY <1>2, <1>3, <1>6, <1>9, <1>10, <1>11, <1>12, StepRest

\* A restore asks for its source's lock while it has its own.
LEMMA AskSourceStep ==
    ASSUME Constants, IInv, NEW c \in Calls, VolumeStep(c), At(c, "askSource")
    PROVE  IInv'
<1>1. PlacesOK /\ HoldersOK /\ Placed(c)  BY Types DEF IInv
<1>2. run[c] # <<>> /\ \A s : At(c, s) <=> s = "askSource"  BY DEF At
<1>3. V!Ask(<<c, "source">>, source[c]) /\ Step(c) /\ mu' = mu /\ vmMu' = vmMu  BY <1>2 DEF VolumeStep
<1>4. <<c, "source">> \in LockUses /\ source[c] \in TheVolumes  BY <1>1 DEF LockUses, PlacesOK
<1>5. /\ wants' \in [LockUses -> TheVolumes \cup {Nil}]
      /\ owner' \in [TheVolumes -> LockUses \cup {Nil}]
      /\ \A w \in LockUses \ {<<c, "source">>} : KeepsUse(w)
    BY <1>1, <1>3, <1>4, UsesApart
<1>6. HoldersOK'  BY <1>1, <1>3, <1>5 DEF HoldersOK
<1>7. HoldsOwn(c)  BY <1>1, <1>2, Nested
<1>8. wants[<<c, "source">>] = Nil /\ wants'[<<c, "source">>] = source[c] /\ owner' = owner
    BY <1>1, <1>2, <1>3, <1>4, <1>7 DEF V!Ask, Placed, Source, HoldersOK, Constants
<1>9. Mutexes(c)'  BY <1>1, <1>2, <1>3, StepPlace DEF Placed, Mutexes
<1>10. Source(c)'
    BY <1>1, <1>2, <1>3, <1>4, <1>7, <1>8, StepPlace, StepMoves, Zenon
    DEF Placed, Source, TheVolumes, HoldersOK, Constants
<1>11. Own(c)'
  <2>1. KeepsUse(<<c, "own">>)  BY <1>5 DEF LockUses
  <2> QED  BY <1>1, <1>2, <1>3, <1>7, <2>1, StepPlace, StepMoves DEF Placed, Own, KeepsUse, TheVolumes
<1>12. \A d \in Calls \ {c} : KeepsUse(<<d, "own">>) /\ KeepsUse(<<d, "source">>)
    BY <1>5 DEF LockUses
<1> QED  BY <1>2, <1>3, <1>6, <1>9, <1>10, <1>11, <1>12, StepRest

\* A restore gives its source's lock back.
LEMMA GiveSourceStep ==
    ASSUME Constants, IInv, NEW c \in Calls, VolumeStep(c), At(c, "freeSource")
    PROVE  IInv'
<1>1. PlacesOK /\ HoldersOK /\ Placed(c)  BY Types DEF IInv
<1>2. run[c] # <<>> /\ \A s : At(c, s) <=> s = "freeSource"  BY DEF At
<1>3. V!Give(<<c, "source">>) /\ Step(c) /\ mu' = mu /\ vmMu' = vmMu  BY <1>2 DEF VolumeStep
<1>4. <<c, "source">> \in LockUses /\ source[c] \in TheVolumes  BY <1>1 DEF LockUses, PlacesOK
<1>5. /\ wants' \in [LockUses -> TheVolumes \cup {Nil}]
      /\ owner' \in [TheVolumes -> LockUses \cup {Nil}]
      /\ \A w \in LockUses \ {<<c, "source">>} : KeepsUse(w)
    BY <1>1, <1>3, <1>4, UsesApart
<1>6. HoldersOK'  BY <1>1, <1>3, <1>5 DEF HoldersOK
<1>7. HoldsOwn(c)  BY <1>1, <1>2, Nested
<1>8. wants[<<c, "source">>] = source[c] /\ owner[source[c]] = <<c, "source">> /\ wants'[<<c, "source">>] = Nil /\ owner' = [owner EXCEPT ![source[c]] = Nil]
    BY <1>1, <1>2, <1>3, <1>4, <1>7 DEF V!Give, Placed, Source, HoldersOK, Constants
<1>9. Mutexes(c)'  BY <1>1, <1>2, <1>3, StepPlace DEF Placed, Mutexes
<1>10. Source(c)'
    BY <1>1, <1>2, <1>3, <1>4, <1>7, <1>8, StepPlace, StepMoves, Zenon
    DEF Placed, Source, TheVolumes, HoldersOK, Constants
<1>11. Own(c)'
  <2>1. KeepsUse(<<c, "own">>)  BY <1>5 DEF LockUses
  <2> QED  BY <1>1, <1>2, <1>3, <1>7, <2>1, StepPlace, StepMoves DEF Placed, Own, KeepsUse, TheVolumes
<1>12. \A d \in Calls \ {c} : KeepsUse(<<d, "own">>) /\ KeepsUse(<<d, "source">>)
    BY <1>5 DEF LockUses
<1> QED  BY <1>2, <1>3, <1>6, <1>9, <1>10, <1>11, <1>12, StepRest

\* A call that gets its own volume's lock is at the step that says so.
LEMMA TakeOwnStep ==
    ASSUME Constants, IInv, NEW c \in Calls, VolumeLock(c), At(c, "own")
    PROVE  IInv'
<1>1. PlacesOK /\ HoldersOK /\ Placed(c)  BY Types DEF IInv
<1>2. run[c] # <<>> /\ \A s : At(c, s) <=> s = "own"  BY DEF At
<1>3. V!Take(<<c, "own">>) /\ Step(c) /\ mu' = mu /\ vmMu' = vmMu  BY <1>2 DEF VolumeLock
<1>4. <<c, "own">> \in LockUses /\ own[c] \in TheVolumes  BY <1>1 DEF LockUses, PlacesOK
<1>5. /\ wants' \in [LockUses -> TheVolumes \cup {Nil}]
      /\ owner' \in [TheVolumes -> LockUses \cup {Nil}]
      /\ \A w \in LockUses \ {<<c, "own">>} : KeepsUse(w)
    BY <1>1, <1>3, <1>4, UsesApart
<1>6. HoldersOK'  BY <1>1, <1>3, <1>5 DEF HoldersOK
<1>7. ~ HoldsOwn(c)  BY <1>1, <1>2, Nested
<1>8. wants' = wants /\ wants[<<c, "own">>] = own[c] /\ owner[own[c]] = Nil /\ owner' = [owner EXCEPT ![own[c]] = <<c, "own">>]
    BY <1>1, <1>2, <1>3, <1>4, <1>7, Zenon DEF V!Take, Placed, Own, HoldersOK, Constants
<1>9. Mutexes(c)'  BY <1>1, <1>2, <1>3, StepPlace DEF Placed, Mutexes
<1>10. Own(c)'
    BY <1>1, <1>2, <1>3, <1>4, <1>7, <1>8, StepPlace, StepMoves, ZenonT(40)
    DEF Placed, Own, TheVolumes, HoldersOK, Constants
<1>11. Source(c)'
  <2>1. KeepsUse(<<c, "source">>)  BY <1>5 DEF LockUses
  <2> QED  BY <1>1, <1>2, <1>3, <1>7, <2>1, StepPlace, StepMoves DEF Placed, Source, KeepsUse, TheVolumes
<1>12. \A d \in Calls \ {c} : KeepsUse(<<d, "own">>) /\ KeepsUse(<<d, "source">>)
    BY <1>5 DEF LockUses
<1> QED  BY <1>2, <1>3, <1>6, <1>9, <1>10, <1>11, <1>12, StepRest

\* So is a restore that gets its source's.
LEMMA TakeSourceStep ==
    ASSUME Constants, IInv, NEW c \in Calls, VolumeLock(c), At(c, "source")
    PROVE  IInv'
<1>1. PlacesOK /\ HoldersOK /\ Placed(c)  BY Types DEF IInv
<1>2. run[c] # <<>> /\ \A s : At(c, s) <=> s = "source"  BY DEF At
<1>3. V!Take(<<c, "source">>) /\ Step(c) /\ mu' = mu /\ vmMu' = vmMu  BY <1>2 DEF VolumeLock
<1>4. <<c, "source">> \in LockUses /\ source[c] \in TheVolumes  BY <1>1, Zenon DEF LockUses, PlacesOK
<1>5. /\ wants' \in [LockUses -> TheVolumes \cup {Nil}]
      /\ owner' \in [TheVolumes -> LockUses \cup {Nil}]
      /\ \A w \in LockUses \ {<<c, "source">>} : KeepsUse(w)
    BY <1>1, <1>3, <1>4, UsesApart
<1>6. HoldersOK'  BY <1>1, <1>3, <1>5 DEF HoldersOK
<1>7. HoldsOwn(c)  BY <1>1, <1>2, Nested
<1>8. wants' = wants /\ wants[<<c, "source">>] = source[c] /\ owner[source[c]] = Nil /\ owner' = [owner EXCEPT ![source[c]] = <<c, "source">>]
    BY <1>1, <1>2, <1>3, <1>4, <1>7, Zenon DEF V!Take, Placed, Source, HoldersOK, Constants
<1>9. Mutexes(c)'  BY <1>1, <1>2, <1>3, StepPlace DEF Placed, Mutexes
<1>10. Source(c)'
    BY <1>1, <1>2, <1>3, <1>4, <1>7, <1>8, StepPlace, StepMoves, ZenonT(40)
    DEF Placed, Source, TheVolumes, HoldersOK, Constants
<1>11. Own(c)'
  <2>1. KeepsUse(<<c, "own">>)  BY <1>5 DEF LockUses
  <2> QED  BY <1>1, <1>2, <1>3, <1>7, <2>1, StepPlace, StepMoves DEF Placed, Own, KeepsUse, TheVolumes
<1>12. \A d \in Calls \ {c} : KeepsUse(<<d, "own">>) /\ KeepsUse(<<d, "source">>)
    BY <1>5 DEF LockUses
<1> QED  BY <1>2, <1>3, <1>6, <1>9, <1>10, <1>11, <1>12, StepRest

\* A call starts with no lock.
LEMMA BeginStep ==
    ASSUME Constants, IInv, NEW c \in Calls, Begin(c)
    PROVE  IInv'
<1>1. PlacesOK /\ HoldersOK /\ Placed(c) /\ run[c] = <<>>  BY Types DEF IInv, Begin
<1>2. wants' = wants /\ owner' = owner /\ mu' = mu /\ vmMu' = vmMu  BY DEF Begin
<1>3. PICK p \in Programs, v \in TheVolumes, s \in TheVolumes :
          /\ p \in {RestoreSnapshot, RestoreAgain} => s < v
          /\ run' = [run EXCEPT ![c] = p] /\ at' = [at EXCEPT ![c] = 1]
          /\ own' = [own EXCEPT ![c] = v] /\ source' = [source EXCEPT ![c] = s]
    BY ZenonT(40) DEF Begin
<1>4. Len(p) \in Nat /\ Len(p) >= 2 /\ p # <<>>  BY ProgramLen
<1>5. PlacesOK'  BY <1>1, <1>3, <1>4 DEF PlacesOK
<1>6. run'[c] = p /\ at'[c] = 1 /\ own'[c] = v /\ source'[c] = s  BY <1>1, <1>3 DEF PlacesOK
<1>7. ~ HoldsOwn(c)'  BY <1>6 DEF HoldsOwn
<1>8. \A x \in {"own", "source", "freeSource", "freeMu", "freeVmMu"} : ~ At(c, x)'
    BY <1>6, ProgramStarts DEF At
<1>9. \A x : ~ At(c, x)  BY <1>1 DEF At
<1>10. ~ HoldsOwn(c)  BY <1>1 DEF HoldsOwn
<1>11. Mutexes(c)'  BY <1>1, <1>2, <1>8, <1>9 DEF Placed, Mutexes
<1>12. Own(c)'  BY <1>1, <1>2, <1>7, <1>8, <1>9, <1>10, Zenon DEF Placed, Own, TheVolumes
<1>13. Source(c)'  BY <1>1, <1>2, <1>8, <1>9 DEF Placed, Source, TheVolumes
<1>14. Older(c)'  BY <1>3, <1>6 DEF Older
<1>15. CallsTyped'  BY <1>1, <1>2, <1>5, Types, Zenon DEF CallsTyped, PlacesOK, HoldersOK
<1>16. \A d \in Calls \ {c} : Stays(d)  BY <1>1, <1>2, <1>3 DEF Stays, KeepsUse, PlacesOK
<1> QED  BY <1>11, <1>12, <1>13, <1>14, <1>15, <1>16, Rest DEF Placed

\* At first there are no calls, and no locks are held.
LEMMA InitInv == ASSUME Constants, CallsInit PROVE IInv
<1>1. CallsTyped  BY DEF CallsInit, V!Init, CallsTyped, Constants, TheVolumes
<1>2. ASSUME NEW c \in Calls PROVE Placed(c)
  <2>1. run[c] = <<>>  BY DEF CallsInit
  <2>2. ~ HoldsOwn(c) /\ \A s : ~ At(c, s)  BY <2>1 DEF HoldsOwn, At
  <2>3. <<c, "own">> \in LockUses /\ <<c, "source">> \in LockUses  BY DEF LockUses
  <2>4. <<>> \notin {RestoreSnapshot, RestoreAgain}  BY ProgramLen DEF Programs
  <2>5. Mutexes(c)  BY <2>2 DEF CallsInit, Mutexes, Constants
  <2>6. Own(c)  BY <2>2, <2>3, Zenon DEF CallsInit, V!Init, Own, Constants, TheVolumes
  <2>7. Source(c)  BY <2>2, <2>3, Zenon DEF CallsInit, V!Init, Source, Constants, TheVolumes
  <2>8. Older(c)  BY <2>1, <2>4 DEF Older
  <2> QED  BY <2>5, <2>6, <2>7, <2>8 DEF Placed
<1> QED  BY <1>1, <1>2 DEF IInv

\* No step of any call breaks the invariant.
LEMMA NextInv == ASSUME Constants, IInv, [CallsNext]_callVars PROVE IInv'
<1>1. ASSUME NEW c \in Calls, VolumeStep(c) PROVE IInv'
    BY <1>1, AskOwnStep, GiveOwnStep, AskSourceStep, GiveSourceStep DEF VolumeStep
<1>2. ASSUME NEW c \in Calls, VolumeLock(c) PROVE IInv'
    BY <1>2, TakeOwnStep, TakeSourceStep DEF VolumeLock
<1>3. CASE UNCHANGED callVars
  <2>1. CallsTyped'  BY <1>3 DEF IInv, CallsTyped, callVars
  <2>2. \A d \in Calls : Stays(d)  BY <1>3 DEF Stays, KeepsUse, callVars
  <2> QED  BY <2>1, <2>2, Elsewhere DEF IInv
<1> QED
    BY <1>1, <1>2, <1>3, BeginStep, FailsStep, MuUnlockStep, VMUnlockStep, TryLockStep, MuLockStep, VMLockStep
    DEF CallsNext, Unlocked

-----------------------------------------------------------------------------
(* What the invariant says *)

\* A call that is over is at no step, so it holds nothing.
LEMMA InvNothingKept == ASSUME Constants, IInv PROVE NothingKept
<1> SUFFICES ASSUME NEW c \in Calls, run[c] = <<>>
             PROVE  /\ mu # c /\ vmMu # c
                    /\ wants[<<c, "own">>] = Nil /\ wants[<<c, "source">>] = Nil
  <2>1. ASSUME NEW c \in Calls PROVE {c} \X {"own", "source"} = {<<c, "own">>, <<c, "source">>}
      OBVIOUS
  <2> QED  BY <2>1, Zenon DEF NothingKept
<1>1. ~ HoldsOwn(c) /\ \A s : ~ At(c, s)  BY DEF HoldsOwn, At
<1> QED  BY <1>1 DEF IInv, Placed, Mutexes, Own, Source

\* A set of numbers has a least one.
LEMMA Least ==
    ASSUME NEW T \in SUBSET Nat, T # {}
    PROVE  \E x \in T : \A y \in T : x <= y
<1> DEFINE R == {ss \in Nat \X Nat : ss[1] < ss[2]}
<1>1. OpToRel(<, Nat) = R  BY DEF OpToRel
<1>2. IsWellFoundedOn(R, Nat)  BY <1>1, NatLessThanWellFounded, Zenon
<1>3. PICK x \in T : \A y \in T : ~ (<<y, x>> \in R)
  <2> HIDE DEF R
  <2> QED  BY <1>2, WFMin, Zenon
<1>4. ASSUME NEW y \in T, y < x PROVE FALSE
  <2>1. <<y, x>> \in Nat \X Nat  BY <1>4
  <2>2. <<y, x>> \in R  BY <1>4, <2>1, Zenon
  <2> QED  BY <1>3, <2>2
<1> QED  BY <1>4

\* Who holds what a waiting call waits for: a call that does not wait itself,
\* or the holder of its own volume.
LEMMA BlockerPlace ==
    ASSUME Constants, IInv, NEW c \in Calls, NEW d \in Blockers(c)
    PROVE  /\ d \in Calls
           /\ \/ At(d, "freeMu") \/ At(d, "freeVmMu") \/ At(d, "freeSource")
              \/ At(c, "own") /\ HoldsOwn(d) /\ own[d] = own[c]
              \/ At(c, "source") /\ HoldsOwn(d) /\ own[d] = source[c]
<1>1. PlacesOK /\ HoldersOK /\ Placed(d) /\ d \in Calls  BY Types DEF IInv, Blockers
<1>2. own[c] \in TheVolumes /\ source[c] \in TheVolumes  BY <1>1 DEF PlacesOK
<1>3. CASE At(c, "mu") /\ mu = d  BY <1>1, <1>3 DEF Placed, Mutexes
<1>4. CASE At(c, "vmMu") /\ vmMu = d  BY <1>1, <1>4 DEF Placed, Mutexes
<1>5. CASE At(c, "own") /\ owner[own[c]] \in {d} \X {"own", "source"}
    BY <1>1, <1>2, <1>5 DEF Placed, Own, Source
<1>6. CASE At(c, "source") /\ owner[source[c]] \in {d} \X {"own", "source"}
    BY <1>1, <1>2, <1>6 DEF Placed, Own, Source
<1> QED  BY <1>1, <1>3, <1>4, <1>5, <1>6, Zenon DEF Blockers

\* In a set of calls that all wait for calls of the set, each waits for a volume
\* newer than one that another waits for: there is no such set.
LEMMA InvNoCircle == ASSUME Constants, IInv PROVE NoCircle
<1> SUFFICES ASSUME NEW S \in SUBSET Calls, S # {}, \A c \in S : Blockers(c) \cap S # {}
             PROVE  FALSE
    BY DEF NoCircle
<1> DEFINE Waited(c) == IF At(c, "own") THEN own[c] ELSE source[c]
<1>1. PlacesOK /\ \A c \in S : Placed(c)  BY Types DEF IInv
<1>2. \A c \in S : own[c] \in Nat /\ source[c] \in Nat
  <2>1. TheVolumes \subseteq Nat  BY DEF TheVolumes, Constants
  <2> QED  BY <1>1, <2>1, Zenon DEF PlacesOK
<1>3. ASSUME NEW c \in S
      PROVE  At(c, "mu") \/ At(c, "vmMu") \/ At(c, "own") \/ At(c, "source")
    BY DEF Blockers
<1>4. ASSUME NEW c \in S PROVE \E d \in S : Waited(d) < Waited(c)
  <2>1. PICK d \in S : d \in Blockers(c)  OBVIOUS
  <2>2. ~ (At(d, "freeMu") \/ At(d, "freeVmMu") \/ At(d, "freeSource"))  BY <1>3 DEF At
  <2>3. HoldsOwn(d) /\ own[d] = Waited(c)
    <3>1. \/ At(c, "own") /\ HoldsOwn(d) /\ own[d] = own[c]
          \/ At(c, "source") /\ HoldsOwn(d) /\ own[d] = source[c]
        BY <2>1, <2>2, BlockerPlace
    <3>2. At(c, "source") => ~ At(c, "own")  BY DEF At
    <3> QED  BY <3>1, <3>2
  <2>4. At(d, "mu") \/ At(d, "vmMu") \/ At(d, "source")  BY <1>1, <1>3, <2>3, Nested
  <2>5. PICK e \in S : e \in Blockers(d)  OBVIOUS
  <2>6. e \in Calls /\ At(d, "source")
    <3>1. ~ (At(e, "freeMu") \/ At(e, "freeVmMu") \/ At(e, "freeSource"))  BY <1>3 DEF At
    <3>2. At(d, "own") \/ At(d, "source")  BY <2>5, <3>1, BlockerPlace
    <3> QED  BY <2>4, <3>2 DEF At
  <2>7. source[d] < own[d]  BY <1>1, <2>6, Nested DEF Placed, Older
  <2>8. Waited(d) = source[d]  BY <2>6 DEF At
  <2> QED  BY <2>3, <2>7, <2>8
<1> HIDE DEF Waited
<1>5. \A c \in S : Waited(c) \in Nat  BY <1>2 DEF Waited
<1>6. PICK c \in S : \A d \in S : Waited(c) <= Waited(d)
  <2> DEFINE T == {Waited(d) : d \in S}
  <2>1. T \in SUBSET Nat /\ T # {}  BY <1>5
  <2>2. PICK x \in T : \A y \in T : x <= y  BY <2>1, Least, Zenon
  <2> QED  BY <2>2
<1>7. PICK d \in S : Waited(d) < Waited(c)  BY <1>4
<1> QED  BY <1>5, <1>6, <1>7

\* The assumption on the constants is what the lemmas need.
LEMMA ConstantsHold == Constants
BY CallsAssumption DEF Constants

\* Whatever calls the Manager runs side by side, and on their error paths too:
\* none of them wait for each other in a circle, and a call that is over holds
\* neither Manager.mu nor vmMu nor a volume's lock.
THEOREM InOrderAlways == CallsSpec => []LocksInOrder
<1> USE ConstantsHold
<1>1. CallsInit => IInv  BY InitInv
<1>2. IInv /\ [CallsNext]_callVars => IInv'  BY NextInv
<1>3. IInv => LocksInOrder  BY InvNoCircle, InvNothingKept DEF IInv, LocksInOrder
<1> QED  BY <1>1, <1>2, <1>3, PTL DEF CallsSpec

=============================================================================
