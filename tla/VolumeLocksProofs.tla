------------------------- MODULE VolumeLocksProofs -------------------------
(***************************************************************************)
(* Proofs about VolumeLocks, for any uses, volumes and objects: the map is *)
(* exact, the lock excludes, and the whole implements VolumeMutex.         *)
(***************************************************************************)
EXTENDS VolumeLocks, FiniteSetTheorems, TLAPS

\* A use has a volume and an object from lock's section to unlock's section.
Working ==
    \A u \in Uses : /\ pc[u] = "out" <=> vol[u] = None
                    /\ pc[u] = "out" <=> obj[u] = None

\* The map still knows the object of every such use.
Known == \A u \in Uses : pc[u] # "out" => locks[vol[u]] = obj[u]

\* A mutex is held exactly by the use that is inside it.
Held == \A u \in Uses, o \in Objs : holder[o] = u <=> pc[u] = "in" /\ obj[u] = o

\* A count is the number of users, of which there is one at least.
Counted ==
    \A v \in Volumes : locks[v] # None =>
        /\ refs[locks[v]] = Cardinality(Users(locks[v]))
        /\ \E u \in Uses : vol[u] = v

\* No two volumes share an object.
Apart == \A v, w \in Volumes : locks[v] # None /\ locks[v] = locks[w] => v = w

\* The users of an object in the next state.
UsersNext(o) == {u \in Uses : obj'[u] = o}

IInv == TypeOK /\ Working /\ Known /\ Held /\ Counted /\ Apart

-----------------------------------------------------------------------------

\* The users of an object are finitely many.
LEMMA UsersFinite ==
    ASSUME NEW o
    PROVE  IsFiniteSet(Users(o)) /\ Cardinality(Users(o)) \in Nat
<1>1. Users(o) \subseteq Uses  BY DEF Users
<1>2. IsFiniteSet(Users(o))  BY <1>1, FS_Subset, LocksAssumption
<1> QED  BY <1>2, FS_CardinalityType

\* The invariant holds at the start: nothing is locked.
LEMMA InitInv == Init => IInv
<1> SUFFICES ASSUME Init PROVE IInv  OBVIOUS
<1>1. TypeOK  BY DEF Init, TypeOK
<1>2. Working /\ Known  BY DEF Init, Working, Known
<1>3. Held  BY LocksAssumption DEF Init, Held
<1>4. Counted /\ Apart  BY DEF Init, Counted, Apart
<1> QED  BY <1>1, <1>2, <1>3, <1>4 DEF IInv

\* A use that finds the entry of its volume joins the users of its object.
LEMMA EnterOld ==
    ASSUME IInv, NEW u \in Uses, NEW v \in Volumes, pc[u] = "out", locks[v] # None,
           locks' = locks, refs' = [refs EXCEPT ![locks[v]] = @ + 1],
           obj' = [obj EXCEPT ![u] = locks[v]], vol' = [vol EXCEPT ![u] = v],
           pc' = [pc EXCEPT ![u] = "wait"], holder' = holder
    PROVE  IInv'
<1> DEFINE o == locks[v]
<1>0. o \in Objs /\ obj[u] = None /\ vol[u] = None  BY DEF IInv, TypeOK, Working
<1>1. TypeOK'  BY <1>0 DEF IInv, TypeOK
<1>2. Working'  BY <1>0, LocksAssumption DEF IInv, TypeOK, Working
<1>3. Known'  BY <1>0 DEF IInv, TypeOK, Known
<1>4. Held'  BY <1>0, LocksAssumption DEF IInv, TypeOK, Held
<1>5. Apart'  BY DEF IInv, Apart
<1>6. UsersNext(o) = Users(o) \cup {u} /\ u \notin Users(o)
      BY <1>0, LocksAssumption DEF IInv, TypeOK, Users, UsersNext
<1>7. Cardinality(Users(o) \cup {u}) = Cardinality(Users(o)) + 1
      BY <1>6, UsersFinite, FS_AddElement, Zenon
<1>8. ASSUME NEW p \in Objs, p # o PROVE UsersNext(p) = Users(p)
      BY <1>0, <1>8, LocksAssumption DEF IInv, TypeOK, Users, UsersNext
<1>9. Counted'
  <2> SUFFICES ASSUME NEW w \in Volumes, locks[w] # None
               PROVE  /\ refs'[locks[w]] = Cardinality(UsersNext(locks[w]))
                      /\ \E x \in Uses : vol'[x] = w
      BY DEF Counted, Users, UsersNext
  <2>1. locks[w] \in Objs /\ refs \in [Objs -> Nat] /\ vol \in [Uses -> Volumes \cup {None}]
        BY DEF IInv, TypeOK
  <2>2. refs[locks[w]] = Cardinality(Users(locks[w])) /\ \E x \in Uses : vol[x] = w
        BY DEF IInv, Counted
  <2>3. \E x \in Uses : vol'[x] = w  BY <2>1, <2>2, <1>0, LocksAssumption
  <2>4. CASE locks[w] = o
    <3>1. refs'[locks[w]] = refs[o] + 1  BY <2>1, <2>4
    <3> QED  BY <3>1, <2>2, <2>3, <2>4, <1>6, <1>7
  <2>5. CASE locks[w] # o
    <3>1. refs'[locks[w]] = refs[locks[w]]  BY <2>1, <2>5
    <3> QED  BY <3>1, <2>1, <2>2, <2>3, <2>5, <1>8
  <2> QED  BY <2>4, <2>5
<1> QED  BY <1>1, <1>2, <1>3, <1>4, <1>5, <1>9 DEF IInv

\* A use that finds no entry makes one, with an object of its own.
LEMMA EnterNew ==
    ASSUME IInv, NEW u \in Uses, NEW v \in Volumes, NEW o \in Objs, pc[u] = "out",
           locks[v] = None, Fresh(o), locks' = [locks EXCEPT ![v] = o],
           refs' = [refs EXCEPT ![o] = 1],
           obj' = [obj EXCEPT ![u] = o], vol' = [vol EXCEPT ![u] = v],
           pc' = [pc EXCEPT ![u] = "wait"], holder' = holder
    PROVE  IInv'
<1>0. obj[u] = None /\ vol[u] = None /\ o # None  BY LocksAssumption DEF IInv, TypeOK, Working
<1>1. TypeOK'  BY DEF IInv, TypeOK
<1>2. Working'  BY <1>0, LocksAssumption DEF IInv, TypeOK, Working
<1>3. Known'
      BY <1>0, LocksAssumption DEF IInv, TypeOK, Working, Known
<1>4. Held'  BY <1>0, LocksAssumption DEF IInv, TypeOK, Held
<1>5. Apart'  BY <1>0 DEF IInv, TypeOK, Apart, Fresh
<1>6. UsersNext(o) = {u}  BY DEF IInv, TypeOK, UsersNext, Fresh
<1>7. ASSUME NEW p \in Objs, p # o PROVE UsersNext(p) = Users(p)
      BY <1>0, <1>7, LocksAssumption DEF IInv, TypeOK, Users, UsersNext
<1>8. Counted'
  <2> SUFFICES ASSUME NEW w \in Volumes, locks'[w] # None
               PROVE  /\ refs'[locks'[w]] = Cardinality(UsersNext(locks'[w]))
                      /\ \E x \in Uses : vol'[x] = w
      BY Zenon DEF Counted, Users, UsersNext
  <2>1. /\ locks \in [Volumes -> Objs \cup {None}] /\ refs \in [Objs -> Nat]
        /\ vol \in [Uses -> Volumes \cup {None}]
        BY DEF IInv, TypeOK
  <2>2. CASE w = v
    <3>1. locks'[w] = o /\ refs'[o] = 1 /\ vol'[u] = w  BY <2>1, <2>2
    <3> QED  BY <3>1, <1>6, FS_Singleton, Zenon
  <2>3. CASE w # v
    <3>1. locks'[w] = locks[w] /\ locks[w] \in Objs /\ locks[w] # o
          BY <2>1, <2>3 DEF Fresh
    <3>2. refs[locks[w]] = Cardinality(Users(locks[w])) /\ \E x \in Uses : vol[x] = w
          BY <3>1 DEF IInv, Counted
    <3>3. refs'[locks[w]] = refs[locks[w]]  BY <2>1, <3>1
    <3>4. \E x \in Uses : vol'[x] = w  BY <2>1, <3>2, <1>0, LocksAssumption
    <3> QED  BY <3>1, <3>2, <3>3, <3>4, <1>7
  <2> QED  BY <2>2, <2>3
<1> QED  BY <1>1, <1>2, <1>3, <1>4, <1>5, <1>8 DEF IInv

\* lock's section under volumeLocks.mu: the two cases together.
LEMMA EnterInv ==
    ASSUME IInv, NEW u \in Uses, NEW v \in Volumes, Enter(u, v)
    PROVE  IInv'
<1> PICK o \in Objs : /\ Find(v, o) /\ locks' = [locks EXCEPT ![v] = o]
                      /\ refs' = [refs EXCEPT ![o] = IF locks[v] = None THEN 1 ELSE @ + 1]
                      /\ obj' = [obj EXCEPT ![u] = o]
    BY Zenon DEF Enter
<1>0. /\ pc[u] = "out" /\ vol' = [vol EXCEPT ![u] = v]
      /\ pc' = [pc EXCEPT ![u] = "wait"] /\ holder' = holder
      BY DEF Enter
<1>1. CASE locks[v] = None
  <2>1. Fresh(o) /\ refs' = [refs EXCEPT ![o] = 1]  BY <1>1 DEF Find
  <2> QED  BY <1>0, <1>1, <2>1, EnterNew, Zenon
<1>2. CASE locks[v] # None
  <2>1. o = locks[v]  BY <1>2 DEF Find
  <2>2. locks' = locks  BY <2>1 DEF IInv, TypeOK
  <2>3. refs' = [refs EXCEPT ![locks[v]] = @ + 1]  BY <1>2, <2>1
  <2> QED  BY <1>0, <1>2, <2>1, <2>2, <2>3, EnterOld, Zenon
<1> QED  BY <1>1, <1>2

\* Locking the volume's own mutex.
LEMMA AcquireInv ==
    ASSUME IInv, NEW u \in Uses, Acquire(u)
    PROVE  IInv'
<1>0. /\ pc[u] = "wait" /\ obj[u] \in Objs /\ holder[obj[u]] = None
      /\ holder' = [holder EXCEPT ![obj[u]] = u] /\ pc' = [pc EXCEPT ![u] = "in"]
      /\ locks' = locks /\ refs' = refs /\ vol' = vol /\ obj' = obj
      BY DEF IInv, TypeOK, Working, Acquire
<1>1. TypeOK'  BY <1>0 DEF IInv, TypeOK
<1>2. Working' /\ Known'  BY <1>0 DEF IInv, TypeOK, Working, Known
<1>3. Held'  BY <1>0, LocksAssumption DEF IInv, TypeOK, Held
<1>4. Counted' /\ Apart'  BY <1>0 DEF IInv, Counted, Users, Apart
<1> QED  BY <1>1, <1>2, <1>3, <1>4 DEF IInv

\* Unlocking it.
LEMMA ReleaseInv ==
    ASSUME IInv, NEW u \in Uses, Release(u)
    PROVE  IInv'
<1>0. /\ pc[u] = "in" /\ obj[u] \in Objs /\ holder[obj[u]] = u
      /\ holder' = [holder EXCEPT ![obj[u]] = None] /\ pc' = [pc EXCEPT ![u] = "drop"]
      /\ locks' = locks /\ refs' = refs /\ vol' = vol /\ obj' = obj
      BY DEF IInv, TypeOK, Working, Held, Release
<1>1. TypeOK'  BY <1>0 DEF IInv, TypeOK
<1>2. Working' /\ Known'  BY <1>0 DEF IInv, TypeOK, Working, Known
<1>3. Held'  BY <1>0, LocksAssumption DEF IInv, TypeOK, Held
<1>4. Counted' /\ Apart'  BY <1>0 DEF IInv, Counted, Users, Apart
<1> QED  BY <1>1, <1>2, <1>3, <1>4 DEF IInv

\* What unlock's section finds: the use is counted, so the count stays a number,
\* and it is 0 afterwards exactly when no other use has the object.
LEMMA DropCount ==
    ASSUME IInv, NEW u \in Uses, Drop(u)
    PROVE  /\ obj[u] \in Objs /\ vol[u] \in Volumes /\ locks[vol[u]] = obj[u]
           /\ UsersNext(obj[u]) = Users(obj[u]) \ {u}
           /\ refs[obj[u]] - 1 = Cardinality(UsersNext(obj[u]))
           /\ refs'[obj[u]] = refs[obj[u]] - 1 /\ refs[obj[u]] - 1 \in Nat
           /\ refs[obj[u]] - 1 = 0 <=> UsersNext(obj[u]) = {}
<1> DEFINE o == obj[u]
<1>0. o \in Objs /\ vol[u] \in Volumes /\ locks[vol[u]] = o /\ o # None
      BY LocksAssumption DEF IInv, TypeOK, Working, Known, Drop
<1>1. UsersNext(o) = Users(o) \ {u} /\ u \in Users(o)
      BY <1>0 DEF IInv, TypeOK, Users, UsersNext, Drop
<1>2. refs[o] = Cardinality(Users(o))  BY <1>0 DEF IInv, Counted
<1>3. /\ IsFiniteSet(Users(o) \ {u})
      /\ Cardinality(Users(o) \ {u}) = Cardinality(Users(o)) - 1
      BY <1>1, UsersFinite, FS_RemoveElement
<1>4. /\ Cardinality(Users(o) \ {u}) \in Nat
      /\ Cardinality(Users(o) \ {u}) = 0 <=> Users(o) \ {u} = {}
      BY <1>3, FS_CardinalityType, FS_EmptySet, Zenon
<1>5. refs'[o] = refs[o] - 1  BY <1>0 DEF IInv, TypeOK, Drop
<1> QED  BY <1>0, <1>1, <1>2, <1>3, <1>4, <1>5

\* unlock's section under volumeLocks.mu.
LEMMA DropInv ==
    ASSUME IInv, NEW u \in Uses, Drop(u)
    PROVE  IInv'
<1> DEFINE o == obj[u]
<1>0. /\ pc[u] = "drop" /\ pc' = [pc EXCEPT ![u] = "out"] /\ vol' = [vol EXCEPT ![u] = None]
      /\ obj' = [obj EXCEPT ![u] = None] /\ holder' = holder
      /\ refs' = [refs EXCEPT ![o] = @ - 1]
      /\ locks' = IF refs'[o] = 0 THEN [locks EXCEPT ![vol[u]] = None] ELSE locks
      BY DEF Drop
<1>1. /\ o \in Objs /\ vol[u] \in Volumes /\ locks[vol[u]] = o
      /\ UsersNext(o) = Users(o) \ {u} /\ refs[o] - 1 = Cardinality(UsersNext(o))
      /\ refs'[o] = refs[o] - 1 /\ refs[o] - 1 \in Nat
      /\ refs[o] - 1 = 0 <=> UsersNext(o) = {}
      BY DropCount
<1>2. /\ locks' \in [Volumes -> Objs \cup {None}]
      /\ \A v \in Volumes : locks'[v] # None => locks'[v] = locks[v]
      BY <1>0, <1>1 DEF IInv, TypeOK
<1>3. TypeOK'
  <2>1. refs' \in [Objs -> Nat]  BY <1>0, <1>1 DEF IInv, TypeOK
  <2> QED  BY <1>0, <1>1, <1>2, <2>1 DEF IInv, TypeOK
<1>4. Working'  BY <1>0, <1>1, LocksAssumption DEF IInv, TypeOK, Working
<1>5. Known'
  <2> SUFFICES ASSUME NEW w \in Uses, pc'[w] # "out" PROVE locks'[vol'[w]] = obj'[w]
      BY DEF Known
  <2>1. /\ w # u /\ vol'[w] = vol[w] /\ obj'[w] = obj[w] /\ pc[w] # "out"
        /\ vol[w] \in Volumes /\ locks[vol[w]] = obj[w]
        BY <1>0 DEF IInv, TypeOK, Working, Known
  <2>2. vol[w] = vol[u] => refs'[o] # 0
    <3>1. vol[w] = vol[u] => w \in UsersNext(o)  BY <1>1, <2>1 DEF UsersNext
    <3> QED  BY <1>1, <3>1
  <2> QED  BY <1>0, <1>1, <2>1, <2>2 DEF IInv, TypeOK
<1>6. Held'  BY <1>0, LocksAssumption DEF IInv, TypeOK, Held
<1>7. Apart'  BY <1>1, <1>2 DEF IInv, Apart
<1>8. ASSUME NEW p \in Objs, p # o PROVE UsersNext(p) = Users(p)
      BY <1>0, <1>8, LocksAssumption DEF IInv, TypeOK, Users, UsersNext
<1>9. Counted'
  <2> SUFFICES ASSUME NEW w \in Volumes, locks'[w] # None
               PROVE  /\ refs'[locks'[w]] = Cardinality(UsersNext(locks'[w]))
                      /\ \E x \in Uses : vol'[x] = w
      BY DEF Counted, Users, UsersNext
  <2>1. locks'[w] = locks[w] /\ locks[w] \in Objs  BY <1>2 DEF IInv, TypeOK
  <2>2. CASE w = vol[u]
    <3>1. locks'[w] = o  BY <1>1, <2>1, <2>2
    <3>2. refs'[o] # 0  BY <1>0, <1>1, <2>2 DEF IInv, TypeOK
    <3>3. PICK x \in Uses : obj'[x] = o  BY <1>1, <3>2 DEF UsersNext
    <3>4. x # u /\ obj[x] = o /\ pc[x] # "out"
          BY <1>0, <1>1, <3>3, LocksAssumption DEF IInv, TypeOK, Working
    <3>5. vol[x] \in Volumes /\ locks[vol[x]] = o
          BY <3>4 DEF IInv, TypeOK, Working, Known
    <3>6. vol[x] = w  BY <1>1, <2>2, <3>5, LocksAssumption DEF IInv, Apart
    <3>7. vol'[x] = w  BY <1>0, <3>4, <3>6 DEF IInv, TypeOK
    <3> QED  BY <1>1, <3>1, <3>7
  <2>3. CASE w # vol[u]
    <3>1. locks[w] # o  BY <1>1, <2>1, <2>3, LocksAssumption DEF IInv, Apart
    <3>2. refs[locks[w]] = Cardinality(Users(locks[w])) /\ \E x \in Uses : vol[x] = w
          BY <2>1, LocksAssumption DEF IInv, Counted
    <3>3. refs'[locks[w]] = refs[locks[w]]  BY <1>0, <2>1, <3>1 DEF IInv, TypeOK
    <3>4. \E x \in Uses : vol'[x] = w  BY <1>0, <2>3, <3>2 DEF IInv, TypeOK
    <3> QED  BY <1>8, <2>1, <3>1, <3>2, <3>3, <3>4
  <2> QED  BY <2>2, <2>3
<1> QED  BY <1>3, <1>4, <1>5, <1>6, <1>7, <1>9 DEF IInv

\* Every step keeps the invariant.
LEMMA StepInv == IInv /\ [Next]_vars => IInv'
<1> SUFFICES ASSUME IInv, [Next]_vars PROVE IInv'  OBVIOUS
<1>1. CASE Next
  <2> PICK u \in Uses : Use(u)  BY <1>1 DEF Next
  <2> QED  BY EnterInv, AcquireInv, ReleaseInv, DropInv DEF Use
<1>2. CASE UNCHANGED vars
  <2>1. locks' = locks /\ refs' = refs /\ holder' = holder /\ pc' = pc /\ vol' = vol /\ obj' = obj
        BY <1>2 DEF vars
  <2> QED  BY <2>1 DEF IInv, TypeOK, Working, Known, Held, Counted, Users, Apart
<1> QED  BY <1>1, <1>2

\* The invariant holds in every state.
LEMMA Invariant == Spec => []IInv
<1>1. Init => IInv  BY InitInv
<1>2. IInv /\ [Next]_vars => IInv'  BY StepInv
<1> QED  BY <1>1, <1>2, PTL DEF Spec

-----------------------------------------------------------------------------

\* The map, the counts and the uses keep their types; a count is never negative,
\* however uses of a volume come and go.
THEOREM LocksTyped == Spec => []TypeOK
<1>1. IInv => TypeOK  BY DEF IInv
<1> QED  BY <1>1, Invariant, PTL

\* volumeLocks excludes: two uses of one volume's lock are never inside at once,
\* although the entry of the volume is made and deleted again and again.
THEOREM LocksExclude == Spec => []MutualExclusion
<1>1. IInv => MutualExclusion
  <2> SUFFICES ASSUME IInv, NEW u \in Uses, NEW w \in Uses,
                      pc[u] = "in", pc[w] = "in", vol[u] = vol[w]
               PROVE  u = w
      BY DEF MutualExclusion
  <2>1. obj[u] = obj[w] /\ obj[u] \in Objs  BY DEF IInv, TypeOK, Working, Known
  <2> QED  BY <2>1 DEF IInv, Held
<1> QED  BY <1>1, Invariant, PTL

\* The map has an entry for exactly the volumes in use, with the exact count.
THEOREM LocksExact == Spec => []MapExact
<1>1. IInv => MapExact
  <2> SUFFICES ASSUME IInv PROVE MapExact  OBVIOUS
  <2>1. ASSUME NEW v \in Volumes, NEW u \in Uses, vol[u] = v PROVE locks[v] # None
    <3>1. pc[u] # "out"  BY <2>1, LocksAssumption DEF IInv, Working
    <3> QED  BY <2>1, <3>1 DEF IInv, Working, Known
  <2> QED  BY <2>1 DEF IInv, Counted, MapExact
<1> QED  BY <1>1, Invariant, PTL

-----------------------------------------------------------------------------
(* volumeLocks implements VolumeMutex *)

\* lock's section is the use asking for its volume.
LEMMA EnterAsks ==
    ASSUME IInv, NEW u \in Uses, NEW v \in Volumes, Enter(u, v)
    PROVE  Mutex!Ask(u, v)
<1> PICK o \in Objs : Find(v, o) /\ locks' = [locks EXCEPT ![v] = o]  BY Zenon DEF Enter
<1>0. /\ pc[u] = "out" /\ vol' = [vol EXCEPT ![u] = v]
      /\ pc' = [pc EXCEPT ![u] = "wait"] /\ holder' = holder
      BY DEF Enter
<1>1. Asked[u] = None  BY <1>0 DEF Asked
<1>2. Asked' = [Asked EXCEPT ![u] = v]  BY <1>0, Zenon DEF IInv, TypeOK, Asked
<1>3. locks[v] = None => holder[o] = None  BY DEF IInv, TypeOK, Held, Find, Fresh
<1>4. Owner' = Owner
  <2>1. ASSUME NEW w \in Volumes PROVE Owner'[w] = Owner[w]
        BY <1>0, <1>3, LocksAssumption DEF IInv, TypeOK, Owner, Find
  <2> QED  BY <2>1 DEF Owner
<1> QED  BY <1>1, <1>2, <1>4 DEF Mutex!Ask

\* Locking the object's mutex takes the volume.
LEMMA AcquireTakes ==
    ASSUME IInv, NEW u \in Uses, Acquire(u)
    PROVE  Mutex!Take(u)
<1>0. /\ pc[u] = "wait" /\ obj[u] \in Objs /\ vol[u] \in Volumes /\ locks[vol[u]] = obj[u]
      /\ holder[obj[u]] = None
      /\ holder' = [holder EXCEPT ![obj[u]] = u] /\ pc' = [pc EXCEPT ![u] = "in"]
      /\ locks' = locks /\ vol' = vol
      BY DEF IInv, TypeOK, Working, Known, Acquire
<1>1. Asked[u] = vol[u] /\ Asked[u] # None /\ Owner[Asked[u]] = None
      BY <1>0, LocksAssumption DEF Asked, Owner
<1>2. Asked' = Asked  BY <1>0 DEF IInv, TypeOK, Asked
<1>3. Owner' = [Owner EXCEPT ![vol[u]] = u]
  <2>1. ASSUME NEW w \in Volumes PROVE Owner'[w] = IF w = vol[u] THEN u ELSE Owner[w]
        BY <1>0, LocksAssumption DEF IInv, TypeOK, Apart, Owner
  <2> QED  BY <2>1, Zenon DEF Owner
<1> QED  BY <1>1, <1>2, <1>3 DEF Mutex!Take

\* Unlocking it gives the volume back.
LEMMA ReleaseGives ==
    ASSUME IInv, NEW u \in Uses, Release(u)
    PROVE  Mutex!Give(u)
<1>0. /\ pc[u] = "in" /\ obj[u] \in Objs /\ vol[u] \in Volumes /\ locks[vol[u]] = obj[u]
      /\ holder[obj[u]] = u
      /\ holder' = [holder EXCEPT ![obj[u]] = None] /\ pc' = [pc EXCEPT ![u] = "drop"]
      /\ locks' = locks /\ vol' = vol
      BY DEF IInv, TypeOK, Working, Known, Held, Release
<1>1. Asked[u] = vol[u] /\ Asked[u] # None /\ Owner[Asked[u]] = u
      BY <1>0, LocksAssumption DEF Asked, Owner
<1>2. Asked' = [Asked EXCEPT ![u] = None]  BY <1>0, Zenon DEF IInv, TypeOK, Asked
<1>3. Owner' = [Owner EXCEPT ![vol[u]] = None]
  <2>1. ASSUME NEW w \in Volumes PROVE Owner'[w] = IF w = vol[u] THEN None ELSE Owner[w]
        BY <1>0, LocksAssumption DEF IInv, TypeOK, Apart, Owner
  <2> QED  BY <2>1, Zenon DEF Owner
<1> QED  BY <1>1, <1>2, <1>3 DEF Mutex!Give

\* unlock's section changes nothing a caller can see: an entry goes only when
\* nobody holds or waits for its mutex.
LEMMA DropStutters ==
    ASSUME IInv, NEW u \in Uses, Drop(u)
    PROVE  Asked' = Asked /\ Owner' = Owner
<1> DEFINE o == obj[u]
<1>0. /\ pc[u] = "drop" /\ pc' = [pc EXCEPT ![u] = "out"] /\ vol' = [vol EXCEPT ![u] = None]
      /\ holder' = holder /\ obj' = [obj EXCEPT ![u] = None]
      /\ locks' = IF refs'[o] = 0 THEN [locks EXCEPT ![vol[u]] = None] ELSE locks
      BY DEF Drop
<1>1. /\ o \in Objs /\ vol[u] \in Volumes /\ locks[vol[u]] = o
      /\ refs'[o] = 0 <=> UsersNext(o) = {}
      BY DropCount, Zenon
<1>2. Asked' = Asked  BY <1>0 DEF IInv, TypeOK, Asked
<1>3. refs'[o] = 0 => holder[o] = None
  <2> SUFFICES ASSUME NEW w \in Uses, holder[o] = w, UsersNext(o) = {} PROVE FALSE
      BY <1>1 DEF IInv, TypeOK
  <2>1. pc[w] = "in" /\ obj[w] = o  BY <1>1 DEF IInv, Held
  <2>2. obj'[w] = o  BY <1>0, <2>1 DEF IInv, TypeOK
  <2> QED  BY <2>2 DEF UsersNext
<1>4. Owner' = Owner
  <2>1. ASSUME NEW w \in Volumes PROVE Owner'[w] = Owner[w]
        BY <1>0, <1>1, <1>3, LocksAssumption DEF IInv, TypeOK, Owner
  <2> QED  BY <2>1 DEF Owner
<1> QED  BY <1>2, <1>4

\* volumeLocks implements one mutex per volume: callers cannot tell the map of
\* counted mutexes from a lock for each volume that is always there.
THEOREM LocksImplementMutex == Spec => MutexSpec
<1>1. Init => Mutex!Init  BY DEF Init, Mutex!Init, Asked, Owner
<1>2. IInv /\ [Next]_vars => [Mutex!Next]_<<Asked, Owner>>
  <2> SUFFICES ASSUME IInv, [Next]_vars PROVE [Mutex!Next]_<<Asked, Owner>>  OBVIOUS
  <2>1. CASE Next
    <3> PICK u \in Uses : Use(u)  BY <2>1 DEF Next
    <3>1. CASE \E v \in Volumes : Enter(u, v)  BY <3>1, EnterAsks DEF Mutex!Next
    <3>2. CASE Acquire(u)  BY <3>2, AcquireTakes DEF Mutex!Next
    <3>3. CASE Release(u)  BY <3>3, ReleaseGives DEF Mutex!Next
    <3>4. CASE Drop(u)  BY <3>4, DropStutters
    <3> QED  BY <3>1, <3>2, <3>3, <3>4 DEF Use
  <2>2. CASE UNCHANGED vars  BY <2>2 DEF vars, Asked, Owner
  <2> QED  BY <2>1, <2>2
<1> QED  BY <1>1, <1>2, Invariant, PTL DEF Spec, MutexSpec, Mutex!Spec
=============================================================================
