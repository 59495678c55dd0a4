----------------------- MODULE SubscriptionLifecycle -----------------------
(***************************************************************************)
(* The subscriptions of one user (model/subscription.go): how orders,      *)
(* renewal invoices and an administrator create them, how they end, and    *)
(* what that does to the user's group.                                     *)
(*                                                                         *)
(* A handler runs in a worker.  Its transaction is two steps: one that     *)
(* reads, checks and decides, one that commits the writes; between them    *)
(* other transactions may commit (the READ COMMITTED of PostgreSQL and     *)
(* the consistent reads of MySQL), unless SerialTx is TRUE (SQLite, one    *)
(* writer).  The cached group is written after the commit, in a third      *)
(* step.  A handler that returns early changes nothing and is no step.     *)
(*                                                                         *)
(* The callbacks of one order exclude each other: they hold the in-process *)
(* lock of the trade number (LockOrder, module OrderLock).  The row lock   *)
(* the code asks for besides it is not relied on.                          *)
(***************************************************************************)
EXTENDS Integers, Sequences, FiniteSets

CONSTANTS
    Workers,          \* handlers that run at the same time
    Plans,            \* subscription plans
    UpgradeGroup,     \* [Plans -> group]: plan.UpgradeGroup, NoGroup when empty
    Duration,         \* [Plans -> Nat]: what calcPlanEndTime adds
    MaxPurchase,      \* [Plans -> Nat]: plan.MaxPurchasePerUser, 0 for no limit
    BaseGroup,        \* the group of the user before any purchase
    NoGroup,          \* the empty string
    Orders, OrderPlan,       \* orders and [Orders -> Plans]
    Invoices, InvoicePlan,   \* Stripe invoices and [Invoices -> Plans]
    Admin, AdminPlans,       \* source of a row an administrator binds, plans bound so
    RedisEnabled,     \* common.RedisEnabled
    SerialTx,         \* TRUE: transactions do not overlap
    MaxSubs,          \* bound: rows of user_subscriptions
    MaxTime,          \* bound: clock
    MaxFailures       \* bound: failing transactions and cache writes

\* Trade numbers and invoice ids are different, and no source is the administrator.
ASSUME SubscriptionAssumption ==
    /\ Duration \in [Plans -> Nat] /\ MaxPurchase \in [Plans -> Nat]
    /\ OrderPlan \in [Orders -> Plans] /\ InvoicePlan \in [Invoices -> Plans]
    /\ AdminPlans \subseteq Plans
    /\ BaseGroup # NoGroup
    /\ Orders \cap Invoices = {} /\ Admin \notin Orders \cup Invoices
    /\ RedisEnabled \in BOOLEAN /\ SerialTx \in BOOLEAN

VARIABLES
    now,        \* the database clock
    group,      \* users.group
    cache,      \* the Group field of the Redis hash, NoGroup when not cached
    subs,       \* user_subscriptions: a sequence, the index is the id
    orders,     \* subscription_orders.status, "none" when there is no row
    topups,     \* orders that have a top_ups row with status success
    invoices,   \* stripe_subscription_invoices: the recorded invoices
    tx,         \* what each worker is doing
    failures

vars == <<now, group, cache, subs, orders, topups, invoices, tx, failures>>

Groups == {BaseGroup} \cup {UpgradeGroup[p] : p \in Plans}

TxOps == {"complete", "expireOrder", "bind", "invoice", "invalidate", "delete", "sweep"}

\* arg: the order, invoice, plan or row; time: the timestamp the handler read;
\* newGroup: the group it decided to write, NoGroup for none; prev: the
\* PrevUserGroup of the row it creates; cached: the group it will cache.
Idle == [op |-> "idle", arg |-> Admin, time |-> 0,
         newGroup |-> NoGroup, prev |-> NoGroup, cached |-> NoGroup]

Init ==
    /\ now = 0
    /\ group = BaseGroup
    /\ cache = NoGroup
    /\ subs = <<>>
    /\ orders = [o \in Orders |-> "none"]
    /\ topups = {}
    /\ invoices = {}
    /\ tx = [w \in Workers |-> Idle]
    /\ failures = 0

-----------------------------------------------------------------------------
(* Rows *)

Exists(i) == subs[i].status # "deleted"

Upgrades(i) == subs[i].upgradeGroup # NoGroup

\* status = 'active' AND end_time > t
InForce(i, t) == subs[i].status = "active" /\ subs[i].endTime > t

\* status = 'active' AND end_time <= t
Due(i, t) == subs[i].status = "active" /\ subs[i].endTime <= t

CountUserSubscriptionsByPlan(p) ==
    Cardinality({i \in DOMAIN subs : Exists(i) /\ subs[i].plan = p})

LimitReached(p) == MaxPurchase[p] > 0 /\ CountUserSubscriptionsByPlan(p) >= MaxPurchase[p]

-----------------------------------------------------------------------------
(* Workers and transactions *)

InTx(w) == tx[w].op \in TxOps

CanBegin(w) == tx[w].op = "idle" /\ (SerialTx => \A v \in Workers : ~InTx(v))

Begin(w, op, arg, newGroup, prev, cached) ==
    /\ CanBegin(w)
    /\ tx' = [tx EXCEPT ![w] = [op |-> op, arg |-> arg, time |-> now,
                                newGroup |-> newGroup, prev |-> prev, cached |-> cached]]
    /\ UNCHANGED <<now, group, cache, subs, orders, topups, invoices, failures>>

\* Mutant: the callbacks take no lock.
NeverLocked(o) == FALSE

\* The callbacks of a trade number hold its lock until the handler returns.
OrderLocked(o) == \E w \in Workers : tx[w].op # "idle" /\ tx[w].arg = o

\* After the commit the handler writes the cached group, or is done.
Committed(w) ==
    tx' = [tx EXCEPT ![w] = IF RedisEnabled /\ tx[w].cached # NoGroup
                            THEN [tx[w] EXCEPT !.op = "cache"] ELSE Idle]

WriteGroup(w) == group' = IF tx[w].newGroup = NoGroup THEN group ELSE tx[w].newGroup

\* A statement or the commit fails: everything is rolled back, the handler
\* returns an error and releases its lock.
TxFails(w) ==
    /\ InTx(w)
    /\ failures < MaxFailures
    /\ failures' = failures + 1
    /\ tx' = [tx EXCEPT ![w] = Idle]
    /\ UNCHANGED <<now, group, cache, subs, orders, topups, invoices>>

-----------------------------------------------------------------------------
(* Creation: createUserSubscriptionFromPlanTx *)

\* The group is upgraded unless the user is in it already, and only then the
\* row remembers the group to go back to.
ChangesGroup(p) == UpgradeGroup[p] # NoGroup /\ group # UpgradeGroup[p]

BeginCreate(w, op, arg, p, cached) ==
    /\ Len(subs) < MaxSubs
    /\ IF ChangesGroup(p) THEN Begin(w, op, arg, UpgradeGroup[p], group, cached)
                          ELSE Begin(w, op, arg, NoGroup, NoGroup, cached)

InsertRow(w, p, source) ==
    subs' = Append(subs, [plan |-> p, source |-> source, status |-> "active",
                          endTime |-> tx[w].time + Duration[p],
                          upgradeGroup |-> UpgradeGroup[p], prevUserGroup |-> tx[w].prev])

\* SubscriptionRequestEpay, ...Stripe, ...Creem: a pending order, if the limit
\* allows; an order whose payment cannot be launched is expired at once.
RequestOrder(o) ==
    /\ orders[o] = "none"
    /\ ~LimitReached(OrderPlan[o])
    /\ \E s \in {"pending", "expired"} : orders' = [orders EXCEPT ![o] = s]
    /\ UNCHANGED <<now, group, cache, subs, topups, invoices, tx, failures>>

\* CompleteSubscriptionOrder, called by any number of notifications.
BeginComplete(w, o) ==
    /\ ~OrderLocked(o)
    /\ orders[o] = "pending"
    /\ ~LimitReached(OrderPlan[o])
    /\ BeginCreate(w, "complete", o, OrderPlan[o], UpgradeGroup[OrderPlan[o]])

CommitComplete(w) ==
    /\ tx[w].op = "complete"
    /\ InsertRow(w, OrderPlan[tx[w].arg], tx[w].arg)
    /\ WriteGroup(w)
    /\ topups' = topups \cup {tx[w].arg}
    /\ orders' = [orders EXCEPT ![tx[w].arg] = "success"]
    /\ Committed(w)
    /\ UNCHANGED <<now, cache, invoices, failures>>

\* Mutant: an order that is no longer pending is expired too.
BeginExpireOrderAny(w, o) ==
    /\ ~OrderLocked(o)
    /\ orders[o] # "none"
    /\ Begin(w, "expireOrder", o, NoGroup, NoGroup, NoGroup)

\* ExpireSubscriptionOrder, called when the checkout session expired.
BeginExpireOrder(w, o) ==
    /\ ~OrderLocked(o)
    /\ orders[o] = "pending"
    /\ Begin(w, "expireOrder", o, NoGroup, NoGroup, NoGroup)

CommitExpireOrder(w) ==
    /\ tx[w].op = "expireOrder"
    /\ orders' = [orders EXCEPT ![tx[w].arg] = "expired"]
    /\ Committed(w)
    /\ UNCHANGED <<now, group, cache, subs, topups, invoices, failures>>

AdminBindSubscription(w, p) ==
    /\ ~LimitReached(p)
    /\ BeginCreate(w, "bind", p, p, UpgradeGroup[p])

CommitBind(w) ==
    /\ tx[w].op = "bind"
    /\ InsertRow(w, tx[w].arg, Admin)
    /\ WriteGroup(w)
    /\ Committed(w)
    /\ UNCHANGED <<now, cache, orders, topups, invoices, failures>>

\* CompleteStripeSubscriptionInvoice for a renewal of a known plan and user:
\* no purchase limit, and the cached group is left alone.  (Other invoices are
\* recorded and create nothing.)
CompleteStripeSubscriptionInvoice(w, v) ==
    BeginCreate(w, "invoice", v, InvoicePlan[v], NoGroup)

\* Mutant: a duplicate record is no error.
CommitInvoiceAgain(w) ==
    /\ tx[w].op = "invoice"
    /\ InsertRow(w, InvoicePlan[tx[w].arg], tx[w].arg)
    /\ WriteGroup(w)
    /\ invoices' = invoices \cup {tx[w].arg}
    /\ Committed(w)
    /\ UNCHANGED <<now, cache, orders, topups, failures>>

\* The unique index decides when the record is written: a duplicate rolls back.
CommitInvoice(w) ==
    /\ tx[w].op = "invoice"
    /\ IF tx[w].arg \in invoices
       THEN UNCHANGED <<subs, group, invoices>>
       ELSE /\ InsertRow(w, InvoicePlan[tx[w].arg], tx[w].arg)
            /\ WriteGroup(w)
            /\ invoices' = invoices \cup {tx[w].arg}
    /\ Committed(w)
    /\ UNCHANGED <<now, cache, orders, topups, failures>>

-----------------------------------------------------------------------------
(* The end of a subscription *)

\* Mutant: other subscriptions in force are not looked for.
DowngradeTargetBlind(i) ==
    IF Upgrades(i) /\ group = subs[i].upgradeGroup /\ subs[i].prevUserGroup # group
    THEN subs[i].prevUserGroup ELSE NoGroup

\* downgradeUserGroupForSubscriptionTx: the group the user goes back to.
DowngradeTarget(i) ==
    IF /\ Upgrades(i) /\ group = subs[i].upgradeGroup
       /\ ~\E j \in DOMAIN subs : j # i /\ Upgrades(j) /\ InForce(j, now)
       /\ subs[i].prevUserGroup # group
    THEN subs[i].prevUserGroup ELSE NoGroup

\* AdminInvalidateUserSubscription looks at the row's id only, not its status.
AdminInvalidate(w, i) ==
    /\ Exists(i)
    /\ Begin(w, "invalidate", i, DowngradeTarget(i), NoGroup, DowngradeTarget(i))

\* A row deleted meanwhile is not updated, the group is.
CommitInvalidate(w) ==
    /\ tx[w].op = "invalidate"
    /\ LET i == tx[w].arg IN
       subs' = IF Exists(i) THEN [subs EXCEPT ![i].status = "cancelled",
                                              ![i].endTime = tx[w].time]
                            ELSE subs
    /\ WriteGroup(w)
    /\ Committed(w)
    /\ UNCHANGED <<now, cache, orders, topups, invoices, failures>>

\* Mutant: a deleted subscription leaves the group alone.
AdminDeleteKeepsGroup(w, i) ==
    /\ Exists(i)
    /\ Begin(w, "delete", i, NoGroup, NoGroup, NoGroup)

AdminDelete(w, i) ==
    /\ Exists(i)
    /\ Begin(w, "delete", i, DowngradeTarget(i), NoGroup, DowngradeTarget(i))

CommitDelete(w) ==
    /\ tx[w].op = "delete"
    /\ subs' = [subs EXCEPT ![tx[w].arg].status = "deleted"]
    /\ WriteGroup(w)
    /\ Committed(w)
    /\ UNCHANGED <<now, cache, orders, topups, invoices, failures>>

\* ORDER BY end_time DESC, id DESC LIMIT 1
Latest(S) ==
    CHOOSE i \in S : \A j \in S :
        \/ subs[j].endTime < subs[i].endTime
        \/ subs[j].endTime = subs[i].endTime /\ j <= i

ExpiredUpgrades ==
    {i \in DOMAIN subs : Upgrades(i) /\ (subs[i].status = "expired" \/ Due(i, now))}

\* The group ExpireDueSubscriptions goes back to: the one before the upgrade
\* that ended last.
SweepTarget ==
    IF (\E i \in DOMAIN subs : Upgrades(i) /\ InForce(i, now)) \/ ExpiredUpgrades = {}
    THEN NoGroup
    ELSE LET last == subs[Latest(ExpiredUpgrades)] IN
         IF group = last.upgradeGroup /\ group # last.prevUserGroup
         THEN last.prevUserGroup ELSE NoGroup

ExpireDueSubscriptions(w) ==
    /\ \E i \in DOMAIN subs : Due(i, now)
    /\ Begin(w, "sweep", Admin, SweepTarget, NoGroup, SweepTarget)

\* Mutant: end_time < now.
CommitSweepStrict(w) ==
    /\ tx[w].op = "sweep"
    /\ subs' = [i \in DOMAIN subs |->
                  IF Due(i, tx[w].time - 1) THEN [subs[i] EXCEPT !.status = "expired"] ELSE subs[i]]
    /\ WriteGroup(w)
    /\ Committed(w)
    /\ UNCHANGED <<now, cache, orders, topups, invoices, failures>>

CommitSweep(w) ==
    /\ tx[w].op = "sweep"
    /\ subs' = [i \in DOMAIN subs |->
                  IF Due(i, tx[w].time) THEN [subs[i] EXCEPT !.status = "expired"] ELSE subs[i]]
    /\ WriteGroup(w)
    /\ Committed(w)
    /\ UNCHANGED <<now, cache, orders, topups, invoices, failures>>

-----------------------------------------------------------------------------
(* The cached group *)

\* UpdateUserGroupCache: the field is set only while the hash is cached.
UpdateUserGroupCache(w) ==
    /\ tx[w].op = "cache"
    /\ cache' = IF cache = NoGroup THEN NoGroup ELSE tx[w].cached
    /\ tx' = [tx EXCEPT ![w] = Idle]
    /\ UNCHANGED <<now, group, subs, orders, topups, invoices, failures>>

\* The error is dropped.
CacheWriteFails(w) ==
    /\ tx[w].op \in {"cache", "populate"}
    /\ failures < MaxFailures
    /\ failures' = failures + 1
    /\ tx' = [tx EXCEPT ![w] = Idle]
    /\ UNCHANGED <<now, group, cache, subs, orders, topups, invoices>>

\* GetUserCache on a miss reads the row and fills the hash in a goroutine.
GetUserCache(w) ==
    /\ RedisEnabled
    /\ tx[w].op = "idle"
    /\ cache = NoGroup
    /\ tx' = [tx EXCEPT ![w] = [Idle EXCEPT !.op = "populate", !.cached = group]]
    /\ UNCHANGED <<now, group, cache, subs, orders, topups, invoices, failures>>

PopulateCache(w) ==
    /\ tx[w].op = "populate"
    /\ cache' = tx[w].cached
    /\ tx' = [tx EXCEPT ![w] = Idle]
    /\ UNCHANGED <<now, group, subs, orders, topups, invoices, failures>>

\* The hash has a time to live.
CacheExpires ==
    /\ cache # NoGroup
    /\ cache' = NoGroup
    /\ UNCHANGED <<now, group, subs, orders, topups, invoices, tx, failures>>

Tick ==
    /\ now < MaxTime
    /\ now' = now + 1
    /\ UNCHANGED <<group, cache, subs, orders, topups, invoices, tx, failures>>

-----------------------------------------------------------------------------

OrderStep(w) ==
    \/ \E o \in Orders : BeginComplete(w, o) \/ BeginExpireOrder(w, o)
    \/ CommitComplete(w)
    \/ CommitExpireOrder(w)

GrantStep(w) ==
    \/ \E p \in AdminPlans : AdminBindSubscription(w, p)
    \/ CommitBind(w)
    \/ \E v \in Invoices : CompleteStripeSubscriptionInvoice(w, v)
    \/ CommitInvoice(w)

EndStep(w) ==
    \/ \E i \in DOMAIN subs : AdminInvalidate(w, i) \/ AdminDelete(w, i)
    \/ CommitInvalidate(w)
    \/ CommitDelete(w)
    \/ ExpireDueSubscriptions(w)
    \/ CommitSweep(w)

CacheStep(w) ==
    \/ UpdateUserGroupCache(w)
    \/ GetUserCache(w)
    \/ PopulateCache(w)

Next ==
    \/ \E o \in Orders : RequestOrder(o)
    \/ \E w \in Workers : OrderStep(w) \/ GrantStep(w) \/ EndStep(w) \/ CacheStep(w)
    \/ \E w \in Workers : TxFails(w) \/ CacheWriteFails(w)
    \/ CacheExpires
    \/ Tick

Spec == Init /\ [][Next]_vars

\* Every handler that runs comes to its end, and the master node sweeps every
\* minute (StartSubscriptionQuotaResetTask).
Finish(w) ==
    \/ CommitComplete(w) \/ CommitExpireOrder(w) \/ CommitBind(w) \/ CommitInvoice(w)
    \/ CommitInvalidate(w) \/ CommitDelete(w) \/ CommitSweep(w)
    \/ UpdateUserGroupCache(w) \/ PopulateCache(w)

Fairness ==
    /\ \A w \in Workers : WF_vars(Finish(w))
    /\ SF_vars(\E w \in Workers : ExpireDueSubscriptions(w))

FairSpec == Spec /\ Fairness

-----------------------------------------------------------------------------
(* Properties *)

RowType ==
    [plan : Plans, source : Orders \cup Invoices \cup {Admin},
     status : {"active", "expired", "cancelled", "deleted"}, endTime : Nat,
     upgradeGroup : Groups \cup {NoGroup}, prevUserGroup : Groups \cup {NoGroup}]

TxType ==
    [op : TxOps \cup {"idle", "cache", "populate"},
     arg : Orders \cup Invoices \cup Plans \cup Nat \cup {Admin}, time : Nat,
     newGroup : Groups \cup {NoGroup}, prev : Groups \cup {NoGroup},
     cached : Groups \cup {NoGroup}]

\* The state keeps its types.
TypeOK ==
    /\ now \in Nat /\ failures \in Nat
    /\ group \in Groups \ {NoGroup}
    /\ cache \in Groups \cup {NoGroup}
    /\ subs \in Seq(RowType)
    /\ orders \in [Orders -> {"none", "pending", "success", "expired"}]
    /\ topups \subseteq Orders /\ invoices \subseteq Invoices
    /\ tx \in [Workers -> TxType]

RowsFrom(source) == {i \in DOMAIN subs : subs[i].source = source}

(***************************************************************************)
(* Whatever is paid for grants exactly one subscription.  An order has     *)
(* created one row and one top_ups row if its status is success, and none  *)
(* otherwise, however often it is notified and whatever expires it         *)
(* meanwhile (CompleteSubscriptionOrder); a renewal invoice has created    *)
(* one row together with its record, even when its deliveries overlap      *)
(* (CompleteStripeSubscriptionInvoice and the unique index).               *)
(***************************************************************************)
GrantsOnce ==
    /\ \A o \in Orders :
         IF orders[o] = "success"
         THEN Cardinality(RowsFrom(o)) = 1 /\ o \in topups
         ELSE RowsFrom(o) = {} /\ o \notin topups
    /\ \A v \in Invoices :
         Cardinality(RowsFrom(v)) = (IF v \in invoices THEN 1 ELSE 0)

(***************************************************************************)
(* An order that succeeded or expired stays so (CompleteSubscriptionOrder, *)
(* ExpireSubscriptionOrder): no late commit overwrites it.                 *)
(***************************************************************************)
OrderStatusFinal ==
    [][\A o \in Orders : orders[o] \in {"success", "expired"} => orders'[o] = orders[o]]_vars

\* Rows of a plan that were bought or bound; renewals are exempt from the limit.
Purchased(p) ==
    {i \in DOMAIN subs : Exists(i) /\ subs[i].plan = p /\ subs[i].source \notin Invoices}

\* Handlers that can have counted the rows before any of them adds its own.
Overlap == IF SerialTx THEN 1 ELSE Cardinality(Workers)

(***************************************************************************)
(* The purchase limit against handlers that count at the same time         *)
(* (createUserSubscriptionFromPlanTx counts and inserts in one transaction *)
(* without a lock): however many orders are pending and bindings are made, *)
(* the purchases of a plan exceed MaxPurchasePerUser by no more than the   *)
(* other handlers that run beside one, and not at all when transactions    *)
(* do not overlap.  The excess does not build up over time.                *)
(***************************************************************************)
PurchaseLimit ==
    \A p \in Plans : MaxPurchase[p] > 0 =>
        Cardinality(Purchased(p)) <= MaxPurchase[p] + (Overlap - 1)

(***************************************************************************)
(* While a subscription that upgrades the group is in force, the user is   *)
(* in an upgraded group: the end of another subscription does not take it  *)
(* away (downgradeUserGroupForSubscriptionTx, ExpireDueSubscriptions).     *)
(***************************************************************************)
GroupHeld ==
    (\E i \in DOMAIN subs : Upgrades(i) /\ InForce(i, now)) => group # BaseGroup

(***************************************************************************)
(* The group goes back to what it was when the only upgrade the user ever  *)
(* had is over, whether it expired, was invalidated or was deleted.        *)
(***************************************************************************)
SingleUpgradeReverts ==
    \A i \in DOMAIN subs :
        /\ Upgrades(i) /\ subs[i].status # "active"
        /\ \A j \in DOMAIN subs : Upgrades(j) => j = i
        => group = BaseGroup

(***************************************************************************)
(* Every subscription that is past its end is eventually taken out of      *)
(* force by the sweep (or by an administrator).                            *)
(***************************************************************************)
DueIsExpired ==
    \A i \in 1 .. MaxSubs :
        (i \in DOMAIN subs /\ Due(i, now)) ~> ~(i \in DOMAIN subs /\ Due(i, now))

=============================================================================
