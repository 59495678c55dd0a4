---------------------------- MODULE OrderMutex -----------------------------
(***************************************************************************)
(* What LockOrder and UnlockOrder promise to the payment handlers of one   *)
(* process: at most one of them at a time holds the lock of an order, and  *)
(* handlers of different orders do not wait for each other.                *)
(***************************************************************************)
CONSTANTS Threads, Orders, NoOrder   \* NoOrder is not an order

VARIABLES
    wants,  \* wants[t]: the order whose lock t has asked for and not released
    holds   \* holds[t]: the order whose lock t holds

vars == <<wants, holds>>

Init ==
    /\ wants = [t \in Threads |-> NoOrder]
    /\ holds = [t \in Threads |-> NoOrder]

Request(t, o) ==
    /\ wants[t] = NoOrder
    /\ wants' = [wants EXCEPT ![t] = o]
    /\ UNCHANGED holds

Acquire(t) ==
    /\ wants[t] # NoOrder /\ holds[t] = NoOrder
    /\ \A u \in Threads : holds[u] # wants[t]
    /\ holds' = [holds EXCEPT ![t] = wants[t]]
    /\ UNCHANGED wants

Release(t) ==
    /\ holds[t] # NoOrder
    /\ wants' = [wants EXCEPT ![t] = NoOrder]
    /\ holds' = [holds EXCEPT ![t] = NoOrder]

Next == \E t \in Threads : Acquire(t) \/ Release(t) \/ \E o \in Orders : Request(t, o)

Spec == Init /\ [][Next]_vars

=============================================================================
