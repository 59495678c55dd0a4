----------------------------- MODULE OrderLock -----------------------------
(***************************************************************************)
(* LockOrder and UnlockOrder: a map from trade numbers to mutexes that are *)
(* counted, so that the last user of a mutex takes it off the map.  The    *)
(* map and the counts change under createLock, but UnlockOrder looks its   *)
(* mutex up before it takes createLock: the count is what keeps the entry  *)
(* of a held mutex on the map.                                             *)
(*                                                                         *)
(* A mutex that nothing refers to any more may be allocated again.         *)
(***************************************************************************)
EXTENDS Naturals, FiniteSets

CONSTANTS
    Threads,   \* payment handlers of one process
    Orders,    \* trade numbers
    Mutexes,   \* addresses of refCountedMutex objects
    NoOrder, NoMutex, Nobody

ASSUME ConstantsAssumption ==
    /\ IsFiniteSet(Threads)
    /\ NoOrder \notin Orders /\ NoMutex \notin Mutexes /\ Nobody \notin Threads

VARIABLES
    pc,          \* pc[t]: where t stands
    order,       \* order[t]: the argument tradeNo
    rcm,         \* rcm[t]: the local variable rcm
    orderLocks,  \* the map
    createLock,  \* the holder of createLock
    refCount,    \* refCount[m]
    mu           \* mu[m]: the holder of the mutex

vars == <<pc, order, rcm, orderLocks, createLock, refCount, mu>>

Init ==
    /\ pc = [t \in Threads |-> "idle"]
    /\ order = [t \in Threads |-> NoOrder]
    /\ rcm = [t \in Threads |-> NoMutex]
    /\ orderLocks = [o \in Orders |-> NoMutex]
    /\ createLock = Nobody
    /\ refCount = [m \in Mutexes |-> 0]
    /\ mu = [m \in Mutexes |-> Nobody]

Goto(t, from, to) == pc[t] = from /\ pc' = [pc EXCEPT ![t] = to]

-----------------------------------------------------------------------------
(***************************************************************************)
(* LockOrder(tradeNo).                                                     *)
(***************************************************************************)

LockOrder(t, o) ==
    /\ Goto(t, "idle", "create")
    /\ order' = [order EXCEPT ![t] = o]
    /\ UNCHANGED <<rcm, orderLocks, createLock, refCount, mu>>

CreateLock(t) ==
    /\ Goto(t, "create", "load")
    /\ createLock = Nobody
    /\ createLock' = t
    /\ UNCHANGED <<order, rcm, orderLocks, refCount, mu>>

\* The map has a mutex for the order.
Load(t) ==
    /\ Goto(t, "load", "count")
    /\ orderLocks[order[t]] # NoMutex
    /\ rcm' = [rcm EXCEPT ![t] = orderLocks[order[t]]]
    /\ UNCHANGED <<order, orderLocks, createLock, refCount, mu>>

Unreachable(m) ==
    /\ \A o \in Orders : orderLocks[o] # m
    /\ \A t \in Threads : rcm[t] # m

\* It has none: a new one is allocated and stored.
Store(t) ==
    /\ Goto(t, "load", "count")
    /\ orderLocks[order[t]] = NoMutex
    /\ \E m \in Mutexes :
        /\ Unreachable(m)
        /\ rcm' = [rcm EXCEPT ![t] = m]
        /\ orderLocks' = [orderLocks EXCEPT ![order[t]] = m]
        /\ refCount' = [refCount EXCEPT ![m] = 0]
        /\ mu' = [mu EXCEPT ![m] = Nobody]
    /\ UNCHANGED <<order, createLock>>

\* refCount++ and createLock.Unlock().
Count(t) ==
    /\ Goto(t, "count", "lock")
    /\ refCount' = [refCount EXCEPT ![rcm[t]] = @ + 1]
    /\ createLock' = Nobody
    /\ UNCHANGED <<order, rcm, orderLocks, mu>>

MuLock(t) ==
    /\ Goto(t, "lock", "critical")
    /\ mu[rcm[t]] = Nobody
    /\ mu' = [mu EXCEPT ![rcm[t]] = t]
    /\ UNCHANGED <<order, rcm, orderLocks, createLock, refCount>>

-----------------------------------------------------------------------------
(***************************************************************************)
(* UnlockOrder(tradeNo).                                                   *)
(***************************************************************************)

\* The mutex is looked up without createLock; without an entry, return.
UnlockOrder(t) ==
    /\ pc[t] = "critical"
    /\ IF orderLocks[order[t]] # NoMutex
       THEN /\ Goto(t, "critical", "unlock")
            /\ rcm' = [rcm EXCEPT ![t] = orderLocks[order[t]]]
            /\ UNCHANGED order
       ELSE /\ Goto(t, "critical", "idle")
            /\ order' = [order EXCEPT ![t] = NoOrder]
            /\ rcm' = [rcm EXCEPT ![t] = NoMutex]
    /\ UNCHANGED <<orderLocks, createLock, refCount, mu>>

\* Mutant: the mutex stays locked.
MuUnlockForgotten(t) ==
    /\ Goto(t, "unlock", "uncreate")
    /\ UNCHANGED <<order, rcm, orderLocks, createLock, refCount, mu>>

MuUnlock(t) ==
    /\ Goto(t, "unlock", "uncreate")
    /\ mu' = [mu EXCEPT ![rcm[t]] = Nobody]
    /\ UNCHANGED <<order, rcm, orderLocks, createLock, refCount>>

RecreateLock(t) ==
    /\ Goto(t, "uncreate", "uncount")
    /\ createLock = Nobody
    /\ createLock' = t
    /\ UNCHANGED <<order, rcm, orderLocks, refCount, mu>>

\* Mutant: every user takes the mutex off the map.
UncountDeletes(t) ==
    /\ Goto(t, "uncount", "idle")
    /\ refCount' = [refCount EXCEPT ![rcm[t]] = @ - 1]
    /\ orderLocks' = [orderLocks EXCEPT ![order[t]] = NoMutex]
    /\ createLock' = Nobody
    /\ order' = [order EXCEPT ![t] = NoOrder]
    /\ rcm' = [rcm EXCEPT ![t] = NoMutex]
    /\ UNCHANGED mu

\* Mutant: nobody takes it off.
UncountKeeps(t) ==
    /\ Goto(t, "uncount", "idle")
    /\ refCount' = [refCount EXCEPT ![rcm[t]] = @ - 1]
    /\ createLock' = Nobody
    /\ order' = [order EXCEPT ![t] = NoOrder]
    /\ rcm' = [rcm EXCEPT ![t] = NoMutex]
    /\ UNCHANGED <<orderLocks, mu>>

\* refCount--, the entry is deleted at zero, createLock.Unlock().
Uncount(t) ==
    /\ Goto(t, "uncount", "idle")
    /\ refCount' = [refCount EXCEPT ![rcm[t]] = @ - 1]
    /\ orderLocks' = IF refCount[rcm[t]] = 1 THEN [orderLocks EXCEPT ![order[t]] = NoMutex]
                     ELSE orderLocks
    /\ createLock' = Nobody
    /\ order' = [order EXCEPT ![t] = NoOrder]
    /\ rcm' = [rcm EXCEPT ![t] = NoMutex]
    /\ UNCHANGED mu

Locking(t) == CreateLock(t) \/ Load(t) \/ Store(t) \/ Count(t) \/ MuLock(t)

Unlocking(t) == UnlockOrder(t) \/ MuUnlock(t) \/ RecreateLock(t) \/ Uncount(t)

Next == \E t \in Threads : Locking(t) \/ Unlocking(t) \/ \E o \in Orders : LockOrder(t, o)

Spec == Init /\ [][Next]_vars

\* A handler that holds the lock goes on, and Go's mutexes do not starve a
\* goroutine that waits for one.
FairSpec ==
    /\ Spec
    /\ \A t \in Threads : SF_vars(Locking(t)) /\ SF_vars(Unlocking(t))

-----------------------------------------------------------------------------
PCs == {"idle", "create", "load", "count", "lock", "critical", "unlock", "uncreate", "uncount"}

TypeOK ==
    /\ pc \in [Threads -> PCs]
    /\ order \in [Threads -> Orders \cup {NoOrder}]
    /\ rcm \in [Threads -> Mutexes \cup {NoMutex}]
    /\ orderLocks \in [Orders -> Mutexes \cup {NoMutex}]
    /\ createLock \in Threads \cup {Nobody}
    /\ refCount \in [Mutexes -> Nat]
    /\ mu \in [Mutexes -> Threads \cup {Nobody}]

\* The threads that refCount counts: between Count and Uncount.
Counted == {"lock", "critical", "unlock", "uncreate", "uncount"}
Users(m) == {t \in Threads : rcm[t] = m /\ pc[t] \in Counted}

(***************************************************************************)
(* The lock of an order keeps its handlers apart: from mu.Lock() to        *)
(* mu.Unlock() a handler is alone with its order.                          *)
(***************************************************************************)
MutualExclusion ==
    \A t, u \in Threads :
        /\ pc[t] \in {"critical", "unlock"} /\ pc[u] \in {"critical", "unlock"}
        /\ order[t] = order[u]
        => t = u

(***************************************************************************)
(* Nothing leaks: an order is on the map only while some handler uses its  *)
(* lock.                                                                   *)
(***************************************************************************)
NoLeak ==
    \A o \in Orders : orderLocks[o] # NoMutex => \E t \in Threads : order[t] = o

\* LockOrder and UnlockOrder as the abstract lock sees them.
wanted == [t \in Threads |-> IF pc[t] \in {"uncreate", "uncount"} THEN NoOrder ELSE order[t]]
held == [t \in Threads |-> IF pc[t] \in {"critical", "unlock"} THEN order[t] ELSE NoOrder]

Abstract == INSTANCE OrderMutex WITH wants <- wanted, holds <- held

(***************************************************************************)
(* LockOrder and UnlockOrder implement one lock per order.                 *)
(***************************************************************************)
ImplementsOrderMutex == Abstract!Spec

(***************************************************************************)
(* Every handler that asks for a lock gets it.                             *)
(***************************************************************************)
EveryLockIsGranted == \A t \in Threads : (pc[t] = "create") ~> (pc[t] = "critical")

=============================================================================
