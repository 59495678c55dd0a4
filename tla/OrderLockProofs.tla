-------------------------- MODULE OrderLockProofs --------------------------
(***************************************************************************)
(* For any number of handlers, orders and mutexes, LockOrder and           *)
(* UnlockOrder keep the handlers of an order apart, leave no entry behind  *)
(* and implement OrderMutex.                                               *)
(*                                                                         *)
(* The invariant ties the three data structures together: a handler that   *)
(* is about to count itself or is counted has the mutex that the map has   *)
(* for its order, and the count of a mutex is the number of such handlers. *)
(***************************************************************************)
EXTENDS OrderLock, FiniteSetTheorems, TLAPS

\* The handlers that rely on their mutex being on the map.
Bound == Counted \cup {"count"}

\* createLock is held exactly between its Lock and Unlock.
Created == \A t \in Threads : pc[t] \in {"load", "count", "uncount"} <=> createLock = t

\* A handler has an order from its call to its return, and a mutex from Load on.
Arguments ==
    \A t \in Threads :
        /\ pc[t] = "idle" <=> order[t] = NoOrder
        /\ pc[t] \in Bound <=> rcm[t] # NoMutex

\* The map has the mutex of every bound handler.
Mapped == \A t \in Threads : pc[t] \in Bound => orderLocks[order[t]] = rcm[t]

\* Orders do not share mutexes.
Injective ==
    \A o, p \in Orders : orderLocks[o] # NoMutex /\ orderLocks[o] = orderLocks[p] => o = p

\* Every entry has a bound handler.
Used ==
    \A o \in Orders :
        orderLocks[o] # NoMutex => \E t \in Threads : pc[t] \in Bound /\ order[t] = o

\* refCount is the number of its users.
Counts == \A m \in Mutexes : refCount[m] = Cardinality(Users(m))

\* Who is past mu.Lock() and not past mu.Unlock() owns the mutex.
Owned == \A t \in Threads : pc[t] \in {"critical", "unlock"} => mu[rcm[t]] = t

Inv ==
    /\ TypeOK /\ Created /\ Arguments /\ Mapped /\ Injective /\ Used /\ Counts /\ Owned

-----------------------------------------------------------------------------
\* The users of a mutex are finitely many.
LEMMA UsersFinite ==
    ASSUME NEW m
    PROVE  IsFiniteSet(Users(m))
BY ConstantsAssumption, FS_Subset DEF Users

\* The invariant holds initially.
LEMMA InitInv == Init => Inv
<1> SUFFICES ASSUME Init PROVE Inv
    OBVIOUS
<1> USE DEF Init
<1>1. TypeOK
    BY ConstantsAssumption DEF TypeOK, PCs
<1>2. Created
    BY ConstantsAssumption DEF Created
<1>3. Arguments /\ Mapped /\ Owned
    BY DEF Arguments, Mapped, Owned, Bound, Counted
<1>4. Injective /\ Used
    BY DEF Injective, Used
<1>5. Counts
  <2>1. \A m \in Mutexes : Users(m) = {}
      BY DEF Users, Counted
  <2> QED
      BY <2>1, FS_EmptySet DEF Counts
<1> QED
    BY <1>1, <1>2, <1>3, <1>4, <1>5 DEF Inv

\* Steps that leave the users of all mutexes and the counts as they are.
LEMMA SameUsers ==
    ASSUME Counts, UNCHANGED refCount,
           \A t \in Threads : /\ pc[t] \in Counted <=> pc'[t] \in Counted
                              /\ pc[t] \in Counted => rcm'[t] = rcm[t]
    PROVE  Counts'
<1>1. \A m \in Mutexes : Users(m)' = Users(m)
    BY DEF Users
<1> QED
    BY <1>1 DEF Counts

LEMMA LockOrderInv ==
    ASSUME Inv, NEW t \in Threads, NEW o \in Orders, LockOrder(t, o)
    PROVE  Inv'
<1> USE DEF Inv, LockOrder, Goto
<1>1. TypeOK'
    BY DEF TypeOK, PCs
<1>2. Created'
    BY DEF Created, TypeOK
<1>3. Arguments'
    BY ConstantsAssumption DEF Arguments, TypeOK, Bound, Counted
<1>4. Mapped' /\ Owned'
    BY DEF Mapped, Owned, TypeOK, Bound, Counted
<1>5. Injective'
    BY DEF Injective
<1>6. Used'
    BY DEF Used, TypeOK, Bound, Counted
<1>7. Counts'
    BY SameUsers DEF TypeOK, Counted
<1> QED
    BY <1>1, <1>2, <1>3, <1>4, <1>5, <1>6, <1>7

LEMMA CreateLockInv ==
    ASSUME Inv, NEW t \in Threads, CreateLock(t)
    PROVE  Inv'
<1> USE DEF Inv, CreateLock, Goto
<1>1. TypeOK'
    BY DEF TypeOK, PCs
<1>2. Created'
    BY ConstantsAssumption DEF Created, TypeOK
<1>3. Arguments'
    BY DEF Arguments, TypeOK, Bound, Counted
<1>4. Mapped' /\ Owned'
    BY DEF Mapped, Owned, TypeOK, Bound, Counted
<1>5. Injective'
    BY DEF Injective
<1>6. Used'
    BY DEF Used, TypeOK, Bound, Counted
<1>7. Counts'
    BY SameUsers DEF TypeOK, Counted
<1> QED
    BY <1>1, <1>2, <1>3, <1>4, <1>5, <1>6, <1>7

LEMMA LoadInv ==
    ASSUME Inv, NEW t \in Threads, Load(t)
    PROVE  Inv'
<1> USE DEF Inv, Load, Goto
<1>0. order[t] \in Orders
    BY DEF Arguments, TypeOK
<1>1. TypeOK'
    BY <1>0 DEF TypeOK, PCs
<1>2. Created'
    BY DEF Created, TypeOK
<1>3. Arguments'
    BY DEF Arguments, TypeOK, Bound, Counted
<1>4. Mapped' /\ Owned'
    BY DEF Mapped, Owned, TypeOK, Bound, Counted
<1>5. Injective'
    BY DEF Injective
<1>6. Used'
    BY DEF Used, TypeOK, Bound, Counted
<1>7. Counts'
    BY SameUsers DEF TypeOK, Counted
<1> QED
    BY <1>1, <1>2, <1>3, <1>4, <1>5, <1>6, <1>7

LEMMA StoreInv ==
    ASSUME Inv, NEW t \in Threads, Store(t)
    PROVE  Inv'
<1> USE DEF Inv, Store, Goto
<1>0. order[t] \in Orders
    BY DEF Arguments, TypeOK
<1> PICK m \in Mutexes :
        /\ Unreachable(m)
        /\ rcm' = [rcm EXCEPT ![t] = m]
        /\ orderLocks' = [orderLocks EXCEPT ![order[t]] = m]
        /\ refCount' = [refCount EXCEPT ![m] = 0]
        /\ mu' = [mu EXCEPT ![m] = Nobody]
    OBVIOUS
<1>1. TypeOK'
    BY <1>0 DEF TypeOK, PCs
<1>2. Created'
    BY DEF Created, TypeOK
<1>3. Arguments'
    BY ConstantsAssumption DEF Arguments, TypeOK, Bound, Counted
<1>4. Mapped'
  <2> SUFFICES ASSUME NEW u \in Threads, pc'[u] \in Bound
               PROVE  orderLocks'[order'[u]] = rcm'[u]
      BY DEF Mapped
  <2>1. CASE u = t
      BY <2>1, <1>0 DEF TypeOK
  <2>2. CASE u # t
    <3>1. orderLocks[order[u]] = rcm[u] /\ rcm[u] # NoMutex
        BY <2>2 DEF Mapped, Arguments, TypeOK
    <3>2. order[u] # order[t]
        BY <3>1
    <3> QED
        BY <3>1, <3>2, <2>2 DEF TypeOK
  <2> QED
      BY <2>1, <2>2
<1>5. Owned'
    BY DEF Owned, TypeOK, Unreachable
<1>6. Injective'
    BY <1>0 DEF Injective, TypeOK, Unreachable
<1>7. Used'
    BY <1>0 DEF Used, TypeOK, Bound
<1>8. Counts'
  <2>1. \A n \in Mutexes : Users(n)' = Users(n)
      BY DEF Users, TypeOK, Counted, Unreachable
  <2>2. Users(m) = {}
      BY DEF Users, Unreachable
  <2> QED
      BY <2>1, <2>2, FS_EmptySet DEF Counts, TypeOK
<1> QED
    BY <1>1, <1>2, <1>3, <1>4, <1>5, <1>6, <1>7, <1>8

LEMMA CountInv ==
    ASSUME Inv, NEW t \in Threads, Count(t)
    PROVE  Inv'
<1> USE DEF Inv, Count, Goto
<1>0. rcm[t] \in Mutexes
    BY DEF Arguments, TypeOK, Bound
<1>1. TypeOK'
    BY <1>0 DEF TypeOK, PCs
<1>2. Created'
    BY ConstantsAssumption DEF Created, TypeOK
<1>3. Arguments'
    BY DEF Arguments, TypeOK, Bound, Counted
<1>4. Mapped' /\ Owned'
    BY DEF Mapped, Owned, TypeOK, Bound, Counted
<1>5. Injective'
    BY DEF Injective
<1>6. Used'
    BY DEF Used, TypeOK, Bound, Counted
<1>7. Counts'
  <2>1. Users(rcm[t])' = Users(rcm[t]) \cup {t} /\ t \notin Users(rcm[t])
      BY DEF Users, TypeOK, Counted
  <2>2. \A m \in Mutexes : m # rcm[t] => Users(m)' = Users(m)
      BY DEF Users, TypeOK, Counted
  <2>3. Cardinality(Users(rcm[t]) \cup {t}) = Cardinality(Users(rcm[t])) + 1
      BY <2>1, UsersFinite, FS_AddElement
  <2> QED
      BY <1>0, <2>1, <2>2, <2>3 DEF Counts, TypeOK
<1> QED
    BY <1>1, <1>2, <1>3, <1>4, <1>5, <1>6, <1>7

LEMMA MuLockInv ==
    ASSUME Inv, NEW t \in Threads, MuLock(t)
    PROVE  Inv'
<1> USE DEF Inv, MuLock, Goto
<1>0. rcm[t] \in Mutexes
    BY DEF Arguments, TypeOK, Bound, Counted
<1>1. TypeOK'
    BY <1>0 DEF TypeOK, PCs
<1>2. Created'
    BY DEF Created, TypeOK
<1>3. Arguments' /\ Mapped'
    BY DEF Arguments, Mapped, TypeOK, Bound, Counted
<1>4. Owned'
    BY <1>0, ConstantsAssumption DEF Owned, TypeOK
<1>5. Injective'
    BY DEF Injective
<1>6. Used'
    BY DEF Used, TypeOK, Bound, Counted
<1>7. Counts'
    BY SameUsers DEF TypeOK, Counted
<1> QED
    BY <1>1, <1>2, <1>3, <1>4, <1>5, <1>6, <1>7

LEMMA UnlockOrderInv ==
    ASSUME Inv, NEW t \in Threads, UnlockOrder(t)
    PROVE  Inv' /\ pc' = [pc EXCEPT ![t] = "unlock"] /\ UNCHANGED <<order, rcm>>
<1> USE DEF Inv, Goto
<1>0. /\ orderLocks[order[t]] = rcm[t] /\ rcm[t] # NoMutex
      /\ pc[t] = "critical" /\ pc' = [pc EXCEPT ![t] = "unlock"]
      /\ UNCHANGED <<order, rcm, orderLocks, createLock, refCount, mu>>
    BY DEF UnlockOrder, Mapped, Arguments, TypeOK, Bound, Counted
<1>1. TypeOK'
    BY <1>0 DEF TypeOK, PCs
<1>2. Created'
    BY <1>0 DEF Created, TypeOK
<1>3. Arguments' /\ Mapped' /\ Owned'
    BY <1>0 DEF Arguments, Mapped, Owned, TypeOK, Bound, Counted
<1>5. Injective'
    BY <1>0 DEF Injective
<1>6. Used'
    BY <1>0 DEF Used, TypeOK, Bound, Counted
<1>7. Counts'
    BY <1>0, SameUsers DEF TypeOK, Counted
<1> QED
    BY <1>0, <1>1, <1>2, <1>3, <1>5, <1>6, <1>7

LEMMA MuUnlockInv ==
    ASSUME Inv, NEW t \in Threads, MuUnlock(t)
    PROVE  Inv'
<1> USE DEF Inv, MuUnlock, Goto
<1>0. rcm[t] \in Mutexes
    BY DEF Arguments, TypeOK, Bound, Counted
<1>1. TypeOK'
    BY <1>0 DEF TypeOK, PCs
<1>2. Created'
    BY DEF Created, TypeOK
<1>3. Arguments' /\ Mapped'
    BY DEF Arguments, Mapped, TypeOK, Bound, Counted
<1>4. Owned'
  <2> SUFFICES ASSUME NEW u \in Threads, pc'[u] \in {"critical", "unlock"}
               PROVE  mu'[rcm'[u]] = u
      BY DEF Owned
  <2>1. u # t /\ mu[rcm[u]] = u /\ mu[rcm[t]] = t
      BY DEF Owned, TypeOK
  <2> QED
      BY <2>1, <1>0 DEF TypeOK
<1>5. Injective'
    BY DEF Injective
<1>6. Used'
    BY DEF Used, TypeOK, Bound, Counted
<1>7. Counts'
    BY SameUsers DEF TypeOK, Counted
<1> QED
    BY <1>1, <1>2, <1>3, <1>4, <1>5, <1>6, <1>7

LEMMA RecreateLockInv ==
    ASSUME Inv, NEW t \in Threads, RecreateLock(t)
    PROVE  Inv'
<1> USE DEF Inv, RecreateLock, Goto
<1>1. TypeOK'
    BY DEF TypeOK, PCs
<1>2. Created'
    BY ConstantsAssumption DEF Created, TypeOK
<1>3. Arguments' /\ Mapped' /\ Owned'
    BY DEF Arguments, Mapped, Owned, TypeOK, Bound, Counted
<1>5. Injective'
    BY DEF Injective
<1>6. Used'
    BY DEF Used, TypeOK, Bound, Counted
<1>7. Counts'
    BY SameUsers DEF TypeOK, Counted
<1> QED
    BY <1>1, <1>2, <1>3, <1>5, <1>6, <1>7

LEMMA UncountInv ==
    ASSUME Inv, NEW t \in Threads, Uncount(t)
    PROVE  Inv'
<1> USE DEF Inv, Goto
<1>p. PICK m \in Mutexes : m = rcm[t]
    BY DEF Uncount, Arguments, Bound, Counted, TypeOK
<1>0. /\ m \in Mutexes /\ order[t] \in Orders /\ orderLocks[order[t]] = m
      /\ createLock = t /\ pc[t] = "uncount" /\ t \in Users(m)
    BY <1>p DEF Uncount, Arguments, Mapped, Created, TypeOK, Users, Bound, Counted
<1>1. /\ IsFiniteSet(Users(m)) /\ refCount[m] = Cardinality(Users(m))
      /\ Cardinality(Users(m)) \in Nat /\ Cardinality(Users(m)) # 0
    BY <1>0, UsersFinite, FS_CardinalityType, FS_EmptySet DEF Counts
<1>2. \A u \in Threads : pc[u] \in Bound /\ order[u] = order[t] => u \in Users(m)
    BY <1>0 DEF Mapped, Created, Users, Bound
<1>3. \A u \in Users(m) : u \in Threads /\ pc[u] \in Bound /\ order[u] = order[t]
  <2> SUFFICES ASSUME NEW u \in Users(m)
               PROVE  u \in Threads /\ pc[u] \in Bound /\ order[u] = order[t]
      OBVIOUS
  <2>1. u \in Threads /\ pc[u] \in Bound /\ rcm[u] = m /\ pc[u] # "idle"
      BY DEF Users, Bound, Counted
  <2>2. orderLocks[order[u]] = m /\ order[u] \in Orders
      BY <2>1 DEF Mapped, Arguments, TypeOK
  <2> QED
      BY <1>0, <2>1, <2>2, ConstantsAssumption DEF Injective
<1>4. refCount[m] = 1 => Users(m) = {t}
  <2>1. SUFFICES ASSUME refCount[m] = 1 PROVE Users(m) = {t}
      OBVIOUS
  <2>2. PICK x : Users(m) = {x}
      BY <2>1, <1>1, FS_Singleton
  <2> QED
      BY <2>2, <1>0
<1>5. refCount[m] # 1 => \E u \in Users(m) : u # t
  <2>1. SUFFICES ASSUME Users(m) = {t} PROVE refCount[m] = 1
      BY <1>0
  <2> QED
      BY <2>1, <1>1, FS_Singleton
<1>a. TypeOK'
    BY <1>p, <1>0, <1>1 DEF Uncount, TypeOK, PCs
<1>b. Created'
    BY <1>0, ConstantsAssumption DEF Uncount, Created, TypeOK
<1>c. Arguments'
    BY <1>0 DEF Uncount, Arguments, TypeOK, Bound, Counted
<1>d. Mapped'
  <2> SUFFICES ASSUME NEW u \in Threads, pc'[u] \in Bound
               PROVE  orderLocks'[order'[u]] = rcm'[u]
      BY DEF Mapped
  <2>1. /\ u # t /\ pc[u] \in Bound /\ order'[u] = order[u] /\ rcm'[u] = rcm[u]
        /\ orderLocks[order[u]] = rcm[u]
      BY DEF Uncount, Mapped, TypeOK, Bound, Counted
  <2>2. CASE refCount[m] = 1
    <3>1. order[u] # order[t]
        BY <1>2, <1>4, <2>1, <2>2
    <3>2. order[u] \in Orders
        BY <2>1 DEF Arguments, TypeOK, Bound, Counted
    <3> QED
        BY <1>p, <3>1, <3>2, <2>1, <2>2 DEF Uncount, TypeOK
  <2>3. CASE refCount[m] # 1
      BY <1>p, <2>1, <2>3 DEF Uncount
  <2> QED
      BY <2>2, <2>3
<1>e. Injective'
    BY <1>0 DEF Uncount, Injective, TypeOK
<1>f. Used'
  <2> SUFFICES ASSUME NEW o \in Orders, orderLocks'[o] # NoMutex
               PROVE  \E u \in Threads : pc'[u] \in Bound /\ order'[u] = o
      BY DEF Used
  <2>1. orderLocks[o] # NoMutex
      BY <1>0 DEF Uncount, TypeOK
  <2>2. CASE o = order[t]
    <3>1. refCount[m] # 1
        BY <1>p, <2>2, <1>0 DEF Uncount, TypeOK
    <3>2. PICK u \in Users(m) : u # t
        BY <3>1, <1>5
    <3> QED
        BY <3>2, <2>2, <1>3 DEF Uncount, TypeOK
  <2>3. CASE o # order[t]
    <3>1. PICK u \in Threads : pc[u] \in Bound /\ order[u] = o
        BY <2>1 DEF Used
    <3> QED
        BY <3>1, <2>3 DEF Uncount, TypeOK
  <2> QED
      BY <2>2, <2>3
<1>g. Counts'
  <2>1. Users(m)' = Users(m) \ {t}
      BY <1>p, <1>0 DEF Uncount, Users, TypeOK, Counted
  <2>2. \A n \in Mutexes : n # m => Users(n)' = Users(n)
      BY <1>p, <1>0, ConstantsAssumption DEF Uncount, Users, TypeOK, Counted
  <2>3. Cardinality(Users(m) \ {t}) = Cardinality(Users(m)) - 1
      BY <1>0, <1>1, FS_RemoveElement
  <2> QED
      BY <1>p, <1>0, <1>1, <2>1, <2>2, <2>3 DEF Uncount, Counts, TypeOK
<1>h. Owned'
    BY DEF Uncount, Owned, TypeOK
<1> QED
    BY <1>a, <1>b, <1>c, <1>d, <1>e, <1>f, <1>g, <1>h

\* Every step preserves the invariant.
LEMMA NextInv == Inv /\ [Next]_vars => Inv'
<1> SUFFICES ASSUME Inv, [Next]_vars PROVE Inv'
    OBVIOUS
<1>1. CASE UNCHANGED vars
    BY <1>1 DEF vars, Inv, TypeOK, Created, Arguments, Mapped, Injective, Used, Counts, Users, Owned
<1>2. ASSUME NEW t \in Threads, Locking(t) PROVE Inv'
    BY <1>2, CreateLockInv, LoadInv, StoreInv, CountInv, MuLockInv DEF Locking
<1>3. ASSUME NEW t \in Threads, Unlocking(t) PROVE Inv'
    BY <1>3, UnlockOrderInv, MuUnlockInv, RecreateLockInv, UncountInv DEF Unlocking
<1> QED
    BY <1>1, <1>2, <1>3, LockOrderInv DEF Next

\* The invariant of LockOrder and UnlockOrder.
LEMMA InvAlways == Spec => []Inv
    BY InitInv, NextInv, PTL DEF Spec

\* Types: in particular the count of a mutex never becomes negative.
THEOREM TypeCorrect == Spec => []TypeOK
<1>1. Inv => TypeOK
    BY DEF Inv
<1> QED
    BY <1>1, InvAlways, PTL

\* Handlers of the same order are never inside LockOrder ... UnlockOrder at
\* the same time: they have the same mutex, because the map has it for both.
LEMMA InvExcludes == Inv => MutualExclusion
<1> SUFFICES ASSUME Inv, NEW t \in Threads, NEW u \in Threads,
                    pc[t] \in {"critical", "unlock"}, pc[u] \in {"critical", "unlock"},
                    order[t] = order[u]
             PROVE  t = u
    BY DEF MutualExclusion
<1>1. rcm[t] = rcm[u]
    BY DEF Inv, Mapped, Bound, Counted
<1> QED
    BY <1>1 DEF Inv, Owned

\* MutualExclusion for any number of handlers, orders and mutexes.
THEOREM LockExcludes == Spec => []MutualExclusion
    BY InvExcludes, InvAlways, PTL

\* The map holds an order only while a handler uses its lock.
THEOREM LockLeaksNothing == Spec => []NoLeak
<1>1. Inv => NoLeak
    BY DEF Inv, Used, NoLeak
<1> QED
    BY <1>1, InvAlways, PTL

-----------------------------------------------------------------------------
\* The initial states map to initial states of the abstract lock.
LEMMA InitRefines == Init => Abstract!Init
    BY DEF Init, Abstract!Init, wanted, held

\* Every step maps to a step of the abstract lock or to a stutter.
LEMMA StepRefines == Inv /\ [Next]_vars => [Abstract!Next]_Abstract!vars
<1> SUFFICES ASSUME Inv, [Next]_vars PROVE [Abstract!Next]_Abstract!vars
    OBVIOUS
<1> USE DEF Inv, Goto
<1>1. CASE UNCHANGED vars
    BY <1>1 DEF vars, Abstract!vars, wanted, held
<1>2. ASSUME NEW t \in Threads, NEW o \in Orders, LockOrder(t, o)
      PROVE  Abstract!Request(t, o)
    BY <1>2 DEF LockOrder, Abstract!Request, wanted, held, TypeOK, Arguments
<1>3. ASSUME NEW t \in Threads, CreateLock(t) \/ Load(t) \/ Store(t) \/ Count(t) \/ RecreateLock(t)
      PROVE  UNCHANGED Abstract!vars
    BY <1>3 DEF CreateLock, Load, Store, Count, RecreateLock, Abstract!vars, wanted, held, TypeOK
<1>4. ASSUME NEW t \in Threads, UnlockOrder(t)
      PROVE  UNCHANGED Abstract!vars
    BY <1>4, UnlockOrderInv DEF Abstract!vars, wanted, held, TypeOK, UnlockOrder
<1>5. ASSUME NEW t \in Threads, Uncount(t)
      PROVE  UNCHANGED Abstract!vars
    BY <1>5 DEF Uncount, Abstract!vars, wanted, held, TypeOK
<1>6. ASSUME NEW t \in Threads, MuLock(t)
      PROVE  Abstract!Acquire(t)
  <2>1. order[t] \in Orders /\ order[t] # NoOrder
      BY <1>6, ConstantsAssumption DEF MuLock, Arguments, TypeOK
  <2>2. \A u \in Threads : held[u] # order[t]
    <3> SUFFICES ASSUME NEW u \in Threads, pc[u] \in {"critical", "unlock"}, order[u] = order[t]
                 PROVE  FALSE
        BY <2>1 DEF held
    <3>1. rcm[u] = rcm[t]
        BY <1>6 DEF MuLock, Mapped, Bound, Counted
    <3> QED
        BY <1>6, <3>1, ConstantsAssumption DEF MuLock, Owned
  <2> QED
      BY <1>6, <2>1, <2>2 DEF MuLock, Abstract!Acquire, wanted, held, TypeOK
<1>7. ASSUME NEW t \in Threads, MuUnlock(t)
      PROVE  Abstract!Release(t)
    BY <1>7, ConstantsAssumption DEF MuUnlock, Abstract!Release, wanted, held, TypeOK, Arguments
<1> QED
    BY <1>1, <1>2, <1>3, <1>4, <1>5, <1>6, <1>7 DEF Next, Locking, Unlocking, Abstract!Next

\* LockOrder and UnlockOrder implement one lock per order.
THEOREM LockImplementsMutex == Spec => ImplementsOrderMutex
    BY InitRefines, StepRefines, InvAlways, PTL DEF Spec, ImplementsOrderMutex, Abstract!Spec

=============================================================================
