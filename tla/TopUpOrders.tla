----------------------------- MODULE TopUpOrders -----------------------------
(***************************************************************************)
(* Top-up orders (model/topup.go, controller/topup*.go): a user asks for    *)
(* an order, pays it at a payment provider, and a webhook of the provider   *)
(* or an administrator completes it and credits the user's quota.           *)
(*                                                                         *)
(* Handlers are goroutines of the server.  Completion runs between          *)
(* LockOrder and UnlockOrder (one mutex per order and process, see          *)
(* OrderLock); requesting a payment and Waffo's failure notice do not.      *)
(* A database transaction reads the row first and writes later: the row     *)
(* lock the code asks for with "gorm:query_option" is ignored by gorm v2    *)
(* and is not relied upon.                                                 *)
(*                                                                         *)
(* The customer and the provider (gate, acked) are external: they pay or    *)
(* close an open order and repeat a notification until it is acknowledged,  *)
(* sometimes more often.                                                   *)
(***************************************************************************)
EXTENDS Integers, FiniteSets

CONSTANTS
    Handlers,       \* goroutines
    Orders,         \* trade numbers
    Node,           \* the process each handler runs in: [Handlers -> process]
    Amount,         \* TopUp.Amount
    Money,          \* TopUp.Money
    QuotaPerUnit,   \* common.QuotaPerUnit
    NoOrder,
    MaxFaults       \* bound on failing statements and crashes

ASSUME TopUpAssumption ==
    /\ Amount \in Nat \ {0} /\ Money \in Nat \ {0} /\ QuotaPerUnit \in Nat \ {0}
    /\ MaxFaults \in Nat
    /\ NoOrder \notin Orders

Providers == {"epay", "stripe", "creem", "waffo", "waffo_pancake", "binance_pay"}

VARIABLES
    provider,   \* TopUp.PaymentProvider
    status,     \* TopUp.Status, "none" before the insert
    credited,   \* the quota credited for the order so far
    gate,       \* the order at the provider
    acked,      \* the provider has got an answer to its notice of payment
    pc,         \* next step of a handler
    kind,       \* what the handler does
    ord,        \* the order it does it for
    faults      \* failed statements and crashes so far

vars == <<provider, status, credited, gate, acked, pc, kind, ord, faults>>

Init ==
    /\ provider = [o \in Orders |-> "none"]
    /\ status = [o \in Orders |-> "none"]
    /\ credited = [o \in Orders |-> 0]
    /\ gate = [o \in Orders |-> "none"]
    /\ acked = [o \in Orders |-> FALSE]
    /\ pc = [h \in Handlers |-> "idle"]
    /\ kind = [h \in Handlers |-> "none"]
    /\ ord = [h \in Handlers |-> NoOrder]
    /\ faults = 0

-----------------------------------------------------------------------------
\* Handler h starts doing k for order o at step p.
Begin(h, k, o, p) ==
    /\ pc[h] = "idle"
    /\ pc' = [pc EXCEPT ![h] = p]
    /\ kind' = [kind EXCEPT ![h] = k]
    /\ ord' = [ord EXCEPT ![h] = o]

\* Handler h returns; a lock it holds is released by the deferred UnlockOrder.
Return(h) ==
    /\ pc' = [pc EXCEPT ![h] = "idle"]
    /\ kind' = [kind EXCEPT ![h] = "none"]
    /\ ord' = [ord EXCEPT ![h] = NoOrder]

Goto(h, p) == pc' = [pc EXCEPT ![h] = p] /\ UNCHANGED <<kind, ord>>

Fault == faults < MaxFaults /\ faults' = faults + 1


\* The handler answers the provider: result says whether it succeeded.
\* Epay got its answer at the start; Stripe gets 200 whatever happened.
Answer(h, result) ==
    LET o == ord[h] IN
    acked' = [acked EXCEPT ![o] =
                @ \/ (kind[h] = "notify" /\ (result \/ provider[o] = "stripe"))]

-----------------------------------------------------------------------------
\* RequestEpay, RequestStripePay: ask the provider for a link, then insert
\* the order; if either fails there is no order the customer could pay.
RequestLinked(h, o, p) ==
    /\ p \in {"epay", "stripe"}
    /\ pc[h] = "idle" /\ status[o] = "none"
    /\ provider' = [provider EXCEPT ![o] = p]
    /\ status' = [status EXCEPT ![o] = "pending"]
    /\ gate' = [gate EXCEPT ![o] = "open"]
    /\ UNCHANGED <<credited, acked, pc, kind, ord, faults>>

\* The others insert the order first and call the provider with it.
RequestInsert(h, o, p) ==
    /\ p \in Providers \ {"epay", "stripe"}
    /\ status[o] = "none"
    /\ Begin(h, "request", o, "calling")
    /\ provider' = [provider EXCEPT ![o] = p]
    /\ status' = [status EXCEPT ![o] = "pending"]
    /\ UNCHANGED <<credited, gate, acked, faults>>

\* The provider has made the order: its link goes to the customer.
LinkCreated(h) ==
    /\ pc[h] = "calling"
    /\ gate' = [gate EXCEPT ![ord[h]] = "open"]
    /\ Return(h)
    /\ UNCHANGED <<provider, status, credited, acked, faults>>

\* The provider refuses.  Creem's order stays pending; the others save the
\* order they inserted as failed, whatever the row says by now, and ignore
\* an error of that write.
LinkRefused(h) ==
    LET o == ord[h] IN
    /\ pc[h] = "calling"
    /\ Return(h)
    /\ \/ /\ provider[o] # "creem"
          /\ status' = [status EXCEPT ![o] = "failed"]
          /\ UNCHANGED faults
       \/ /\ provider[o] = "creem"
          /\ UNCHANGED <<status, faults>>
       \/ /\ provider[o] # "creem"
          /\ Fault
          /\ UNCHANGED status
    /\ UNCHANGED <<provider, credited, gate, acked>>

\* The customer pays, or the order is closed unpaid at the provider.
Pay(o) ==
    /\ gate[o] = "open"
    /\ gate' = [gate EXCEPT ![o] = "paid"]
    /\ UNCHANGED <<provider, status, credited, acked, pc, kind, ord, faults>>

Close(o) ==
    /\ gate[o] = "open"
    /\ gate' = [gate EXCEPT ![o] = "closed"]
    /\ UNCHANGED <<provider, status, credited, acked, pc, kind, ord, faults>>

-----------------------------------------------------------------------------
\* The notice of payment arrives.  EpayNotify answers "success" before it
\* looks at the order.
Notify(h, o) ==
    /\ gate[o] = "paid"
    /\ Begin(h, "notify", o, "lock")
    /\ acked' = [acked EXCEPT ![o] = @ \/ provider[o] = "epay"]
    /\ UNCHANGED <<provider, status, credited, gate, faults>>

\* An administrator completes an order (AdminCompleteTopUp).
Manual(h, o) ==
    /\ status[o] # "none"
    /\ Begin(h, "manual", o, "lock")
    /\ UNCHANGED <<provider, status, credited, gate, acked, faults>>

\* Stripe reports that the checkout expired (sessionExpired) or that a
\* delayed payment failed (sessionAsyncPaymentFailed).
StripeClosed(h, o, k) ==
    /\ k \in {"expired", "failed"}
    /\ provider[o] = "stripe" /\ gate[o] = "closed"
    /\ Begin(h, k, o, "lock")
    /\ UNCHANGED <<provider, status, credited, gate, acked, faults>>

\* Waffo reports a status other than PAY_SUCCESS, at any time of the order, late
\* or not meant to be the last: handled without LockOrder.
WaffoClosed(h, o) ==
    /\ provider[o] = "waffo" /\ gate[o] # "none"
    /\ Begin(h, "failed", o, "read")
    /\ UNCHANGED <<provider, status, credited, gate, acked, faults>>

\* h is between LockOrder and UnlockOrder.
Inside(h) ==
    /\ pc[h] \in {"read", "commit", "credit"}
    /\ ~(kind[h] = "failed" /\ provider[ord[h]] = "waffo")

\* Mutant: LockOrder forgotten.
LockForgotten(h) ==
    /\ pc[h] = "lock"
    /\ Goto(h, "read")
    /\ UNCHANGED <<provider, status, credited, gate, acked, faults>>

\* LockOrder returns when no handler of the process holds the order's mutex.
Lock(h) ==
    /\ pc[h] = "lock"
    /\ ~\E g \in Handlers : Inside(g) /\ ord[g] = ord[h] /\ Node[g] = Node[h]
    /\ Goto(h, "read")
    /\ UNCHANGED <<provider, status, credited, gate, acked, faults>>

\* Mutant: the status of the row is not looked at.
ReadAny(h) ==
    /\ pc[h] = "read"
    /\ Goto(h, "commit")
    /\ UNCHANGED <<provider, status, credited, gate, acked, faults>>

\* The row is read; only a pending order is worked on.
ReadPending(h) ==
    /\ pc[h] = "read"
    /\ status[ord[h]] = "pending"
    /\ Goto(h, "commit")
    /\ UNCHANGED <<provider, status, credited, gate, acked, faults>>

\* An order that is not pending: Creem's webhook answers OK, Waffo's, Waffo
\* Pancake's and Binance's do so when the order has succeeded.
ReadDone(h) ==
    LET o == ord[h] IN
    /\ pc[h] = "read"
    /\ status[o] # "pending"
    /\ Answer(h, provider[o] = "creem" \/ status[o] = "success")
    /\ Return(h)
    /\ UNCHANGED <<provider, status, credited, gate, faults>>

\* What completing an order credits: Recharge (Stripe) takes Money in units,
\* RechargeCreem Amount as quota, the other webhooks Amount in units.
Quota(o) ==
    IF provider[o] = "stripe" THEN Money * QuotaPerUnit
    ELSE IF provider[o] = "creem" THEN Amount ELSE Amount * QuotaPerUnit

\* ManualCompleteTopUp knows Money in units and Amount in units only.
ManualQuota(o) ==
    IF provider[o] = "stripe" THEN Money * QuotaPerUnit ELSE Amount * QuotaPerUnit

\* Mutant: the quota update is left out of the transaction and forgotten.
RechargeForgets(h) ==
    LET o == ord[h] IN
    /\ pc[h] = "commit" /\ kind[h] = "notify" /\ provider[o] # "epay"
    /\ status' = [status EXCEPT ![o] = "success"]
    /\ Answer(h, TRUE)
    /\ Return(h)
    /\ UNCHANGED <<provider, credited, gate, faults>>

\* Recharge, RechargeCreem, RechargeWaffo, RechargeWaffoPancake,
\* RechargeBinancePay: status and quota in one transaction.
Recharge(h) ==
    LET o == ord[h] IN
    /\ pc[h] = "commit" /\ kind[h] = "notify" /\ provider[o] # "epay"
    /\ status' = [status EXCEPT ![o] = "success"]
    /\ credited' = [credited EXCEPT ![o] = @ + Quota(o)]
    /\ Answer(h, TRUE)
    /\ Return(h)
    /\ UNCHANGED <<provider, gate, faults>>

\* ManualCompleteTopUp: the same for an administrator.
ManualComplete(h) ==
    LET o == ord[h] IN
    /\ pc[h] = "commit" /\ kind[h] = "manual"
    /\ status' = [status EXCEPT ![o] = "success"]
    /\ credited' = [credited EXCEPT ![o] = @ + ManualQuota(o)]
    /\ Return(h)
    /\ UNCHANGED <<provider, gate, acked, faults>>

\* EpayNotify saves the status first ...
EpayUpdate(h) ==
    LET o == ord[h] IN
    /\ pc[h] = "commit" /\ kind[h] = "notify" /\ provider[o] = "epay"
    /\ status' = [status EXCEPT ![o] = "success"]
    /\ Goto(h, "credit")
    /\ UNCHANGED <<provider, credited, gate, acked, faults>>

\* ... and credits the quota in a statement of its own.
EpayCredit(h) ==
    LET o == ord[h] IN
    /\ pc[h] = "credit"
    /\ credited' = [credited EXCEPT ![o] = @ + Quota(o)]
    /\ Return(h)
    /\ UNCHANGED <<provider, status, gate, acked, faults>>

\* UpdatePendingTopUpStatus and the write of sessionAsyncPaymentFailed.
Unpaid(h) ==
    /\ pc[h] = "commit" /\ kind[h] \in {"expired", "failed"}
    /\ status' = [status EXCEPT ![ord[h]] = kind[h]]
    /\ Return(h)
    /\ UNCHANGED <<provider, credited, gate, acked, faults>>

\* A statement or the commit fails: the handler returns with an error.
Fails(h) ==
    /\ pc[h] \in {"read", "commit", "credit"}
    /\ Fault
    /\ Answer(h, FALSE)
    /\ Return(h)
    /\ UNCHANGED <<provider, status, credited, gate>>

\* A process ends: its handlers and its locks are gone.
Crash(n) ==
    /\ \E h \in Handlers : Node[h] = n /\ pc[h] # "idle"
    /\ Fault
    /\ pc' = [h \in Handlers |-> IF Node[h] = n THEN "idle" ELSE pc[h]]
    /\ kind' = [h \in Handlers |-> IF Node[h] = n THEN "none" ELSE kind[h]]
    /\ ord' = [h \in Handlers |-> IF Node[h] = n THEN NoOrder ELSE ord[h]]
    /\ UNCHANGED <<provider, status, credited, gate, acked>>

-----------------------------------------------------------------------------
Nodes == {Node[h] : h \in Handlers}

\* The steps of a handler that has started.
Step(h) ==
    \/ LinkCreated(h) \/ LinkRefused(h)
    \/ Lock(h) \/ ReadPending(h) \/ ReadDone(h)
    \/ Recharge(h) \/ ManualComplete(h) \/ EpayUpdate(h) \/ EpayCredit(h) \/ Unpaid(h)

Next ==
    \/ \E h \in Handlers : Step(h) \/ Fails(h)
    \/ \E h \in Handlers, o \in Orders :
          \/ \E p \in Providers : RequestLinked(h, o, p) \/ RequestInsert(h, o, p)
          \/ Notify(h, o) \/ Manual(h, o) \/ WaffoClosed(h, o)
          \/ \E k \in {"expired", "failed"} : StripeClosed(h, o, k)
    \/ \E o \in Orders : Pay(o) \/ Close(o)
    \/ \E n \in Nodes : Crash(n)

Spec == Init /\ [][Next]_vars

\* A handler that has started goes on (goroutines are scheduled, a mutex does
\* not starve), and a provider repeats a notice until it is answered.
FairSpec ==
    /\ Spec
    /\ \A h \in Handlers : WF_vars(Step(h)) /\ SF_vars(Lock(h))
    /\ \A o \in Orders : SF_vars(~acked[o] /\ \E h \in Handlers : Notify(h, o))

-----------------------------------------------------------------------------
\* Types of the rows, the handlers and the provider's view.
TypeOK ==
    /\ provider \in [Orders -> Providers \cup {"none"}]
    /\ status \in [Orders -> {"none", "pending", "success", "failed", "expired"}]
    /\ credited \in [Orders -> Nat]
    /\ gate \in [Orders -> {"none", "open", "paid", "closed"}]
    /\ acked \in [Orders -> BOOLEAN]
    /\ pc \in [Handlers -> {"idle", "calling", "lock", "read", "commit", "credit"}]
    /\ kind \in [Handlers -> {"none", "request", "notify", "manual", "expired", "failed"}]
    /\ ord \in [Handlers -> Orders \cup {NoOrder}]
    /\ faults \in 0 .. MaxFaults

\* An order is credited at most once, however often its webhook is delivered,
\* whatever fails or crashes in between, and although the administrator may
\* complete it at the same time: LockOrder serialises the handlers and each
\* re-reads the status before it credits (one process).
CreditedOnce ==
    \A o \in Orders : credited[o] \in {0, Quota(o), ManualQuota(o)}

\* A successful order has been credited.  Only EpayNotify, which saves the
\* status before it credits the quota, can leave a gap: while it is between
\* the two, and for good if the second fails.
SuccessIsCredited ==
    \A o \in Orders :
        status[o] = "success" =>
            \/ credited[o] > 0
            \/ /\ provider[o] = "epay"
               /\ faults > 0 \/ \E h \in Handlers : pc[h] = "credit" /\ ord[h] = o

\* Once an order has succeeded, failed or expired its status stays.  Orders of
\* Waffo, Waffo Pancake and Binance Pay are not promised this: a failure of
\* theirs is written without LockOrder (controller/topup_waffo.go 232, 276, 283
\* and 385, topup_waffo_pancake.go 201, topup_binance_pay.go 133) and may
\* overwrite, or be overwritten by, a completion that overlaps with it.
FinalStays ==
    [][\A o \in Orders :
          provider[o] \in {"epay", "stripe", "creem"} /\ status[o] \in {"success", "failed", "expired"}
              => status'[o] = status[o]]_vars


=============================================================================
