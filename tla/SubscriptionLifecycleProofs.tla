--------------------- MODULE SubscriptionLifecycleProofs ---------------------
(***************************************************************************)
(* Proofs about the subscriptions of a user, for any number of handlers,   *)
(* plans, orders, invoices and rows, any durations and any clock.          *)
(*                                                                         *)
(* GrantsOnce and OrderStatusFinal hold with overlapping transactions: an  *)
(* order that a transaction works on is pending and is nobody else's,      *)
(* because of the order lock; the unique index does the same for invoices. *)
(* What a transaction decides about the group is right only while nobody   *)
(* commits between its decision and its own commit; the theorems about it  *)
(* assume transactions one at a time.  The purchase limit is bounded with  *)
(* and without overlap.                                                    *)
(***************************************************************************)
EXTENDS SubscriptionLifecycle, FiniteSetTheorems, TLAPS

-----------------------------------------------------------------------------
(* The invariants *)

OrderOps == {"complete", "expireOrder"}
CreateOps == {"complete", "bind", "invoice"}
EndOps == {"invalidate", "delete"}

\* What a transaction works on.
ArgOK(r) ==
    /\ r.op \in OrderOps => r.arg \in Orders
    /\ r.op = "bind" => r.arg \in Plans
    /\ r.op = "invoice" => r.arg \in Invoices
    /\ r.op \in EndOps => r.arg \in DOMAIN subs

Base == TypeOK /\ \A w \in Workers : ArgOK(tx[w])

\* A transaction that completes or expires an order is the only one that does,
\* and the order is pending until it commits.
OrderHeld ==
    \A w \in Workers : tx[w].op \in OrderOps =>
        /\ orders[tx[w].arg] = "pending"
        /\ \A v \in Workers : tx[v].op \in OrderOps /\ tx[v].arg = tx[w].arg => v = w

GrantInv == Base /\ OrderHeld /\ GrantsOnce

\* Transactions do not overlap.
OneTx == \A v, w \in Workers : InTx(v) /\ InTx(w) => v = w

\* The plan of a row that a transaction creates.
PlanOf(r) ==
    IF r.op = "complete" THEN OrderPlan[r.arg]
    ELSE IF r.op = "bind" THEN r.arg ELSE InvoicePlan[r.arg]

\* DowngradeTarget and SweepTarget, had they been decided at time t.
DowngradeAt(i, t) ==
    IF /\ Upgrades(i) /\ group = subs[i].upgradeGroup
       /\ ~\E j \in DOMAIN subs : j # i /\ Upgrades(j) /\ InForce(j, t)
       /\ subs[i].prevUserGroup # group
    THEN subs[i].prevUserGroup ELSE NoGroup

ExpiredUpgradesAt(t) ==
    {i \in DOMAIN subs : Upgrades(i) /\ (subs[i].status = "expired" \/ Due(i, t))}

SweepAt(t) ==
    IF (\E i \in DOMAIN subs : Upgrades(i) /\ InForce(i, t)) \/ ExpiredUpgradesAt(t) = {}
    THEN NoGroup
    ELSE LET last == subs[Latest(ExpiredUpgradesAt(t))] IN
         IF group = last.upgradeGroup /\ group # last.prevUserGroup
         THEN last.prevUserGroup ELSE NoGroup

\* What a transaction has decided is what it would decide now, had it the same
\* time: nobody has committed since.
DecidedBy(r) ==
    /\ r.time <= now
    /\ r.op \in CreateOps =>
         IF ChangesGroup(PlanOf(r))
         THEN r.newGroup = UpgradeGroup[PlanOf(r)] /\ r.prev = group
         ELSE r.newGroup = NoGroup /\ r.prev = NoGroup
    /\ r.op \in {"complete", "bind"} => ~LimitReached(PlanOf(r))
    /\ r.op \in EndOps => r.newGroup = DowngradeAt(r.arg, r.time)
    /\ r.op = "sweep" => r.newGroup = SweepAt(r.time)
    /\ r.op = "expireOrder" => r.newGroup = NoGroup

Decided == OneTx /\ \A w \in Workers : DecidedBy(tx[w])

\* No plan upgrades to the group that every user starts in.
RealUpgrades == \A p \in Plans : UpgradeGroup[p] # BaseGroup

\* The user's first upgrade starts from the base group, and as long as it is
\* the only one, its state says which group the user is in.
OnlyUpgrade(i) == Upgrades(i) /\ \A j \in DOMAIN subs : Upgrades(j) => j = i

FirstUpgrade ==
    /\ (\A i \in DOMAIN subs : ~Upgrades(i)) => group = BaseGroup
    /\ \A i \in DOMAIN subs : OnlyUpgrade(i) =>
         /\ subs[i].prevUserGroup = BaseGroup
         /\ group = IF subs[i].status = "active" THEN subs[i].upgradeGroup ELSE BaseGroup

\* The limit as it holds for transactions one at a time.
StrictLimit == \A p \in Plans : MaxPurchase[p] > 0 => Cardinality(Purchased(p)) <= MaxPurchase[p]

SerialInv == Base /\ Decided /\ StrictLimit

\* The handlers that are about to add a purchase of plan p.
Granting(p) == {w \in Workers : tx[w].op \in {"complete", "bind"} /\ PlanOf(tx[w]) = p}

\* With overlap: those who have counted already are counted with the rows.
CrowdLimit ==
    \A p \in Plans : MaxPurchase[p] > 0 =>
        Cardinality(Purchased(p)) + Cardinality(Granting(p))
            <= MaxPurchase[p] + (Cardinality(Workers) - 1)

\* Rows have the group of their plan.
RowGroups == \A i \in DOMAIN subs : subs[i].upgradeGroup = UpgradeGroup[subs[i].plan]

GroupInv == RowGroups /\ Base /\ Decided /\ GroupHeld /\ FirstUpgrade

-----------------------------------------------------------------------------
(* Types *)

MaybeGroup == Groups \cup {NoGroup}
ArgType == Orders \cup Invoices \cup Plans \cup Nat \cup {Admin}

LEMMA PlanFacts ==
    /\ \A p \in Plans : UpgradeGroup[p] \in Groups /\ Duration[p] \in Nat /\ MaxPurchase[p] \in Nat
    /\ \A o \in Orders : OrderPlan[o] \in Plans
    /\ \A v \in Invoices : InvoicePlan[v] \in Plans
    /\ AdminPlans \subseteq Plans
    /\ BaseGroup \in Groups /\ BaseGroup # NoGroup
    /\ \A o \in Orders : o \notin Invoices /\ o # Admin
    /\ \A v \in Invoices : v # Admin
BY SubscriptionAssumption DEF Groups

LEMMA IdleFacts ==
    /\ Idle \in TxType /\ Idle.op = "idle" /\ Idle.arg = Admin /\ Idle.time = 0
    /\ Idle.newGroup = NoGroup /\ Idle.prev = NoGroup /\ Idle.cached = NoGroup
BY DEF Idle, TxType

\* The rows as a function.
LEMMA RowsFun ==
    ASSUME TypeOK
    PROVE  /\ DOMAIN subs = 1 .. Len(subs) /\ Len(subs) \in Nat
           /\ \A i \in DOMAIN subs : subs[i] \in RowType
BY DEF TypeOK

\* Rows that are changed are still rows.
LEMMA RowsStay ==
    ASSUME TypeOK, NEW s, s \in [DOMAIN subs -> RowType]
    PROVE  s \in Seq(RowType) /\ DOMAIN s = DOMAIN subs
BY RowsFun

\* A row that is added.
LEMMA RowAdded ==
    ASSUME TypeOK, NEW r \in RowType, subs' = Append(subs, r)
    PROVE  /\ subs' \in Seq(RowType)
           /\ DOMAIN subs' = DOMAIN subs \cup {Len(subs) + 1}
           /\ Len(subs) + 1 \notin DOMAIN subs
           /\ \A i \in DOMAIN subs : subs'[i] = subs[i]
           /\ subs'[Len(subs) + 1] = r
<1>1. subs \in Seq(RowType)
    BY DEF TypeOK
<1> QED
    BY <1>1

\* A transaction begins.
LEMMA BeginTx ==
    ASSUME TypeOK, NEW w \in Workers, NEW op \in TxOps, NEW arg \in ArgType,
           NEW g1 \in MaybeGroup, NEW g2 \in MaybeGroup, NEW g3 \in MaybeGroup,
           Begin(w, op, arg, g1, g2, g3)
    PROVE  /\ tx' \in [Workers -> TxType]
           /\ tx'[w].op = op /\ tx'[w].arg = arg /\ tx'[w].time = now
           /\ tx'[w].newGroup = g1 /\ tx'[w].prev = g2 /\ tx'[w].cached = g3
           /\ \A v \in Workers : v # w => tx'[v] = tx[v]
           /\ UNCHANGED <<now, group, cache, subs, orders, topups, invoices, failures>>
           /\ CanBegin(w)
<1> DEFINE r == [op |-> op, arg |-> arg, time |-> now, newGroup |-> g1, prev |-> g2, cached |-> g3]
<1>1. r \in TxType
    BY DEF TypeOK, TxType, MaybeGroup, ArgType
<1>2. tx' = [tx EXCEPT ![w] = r]
    BY DEF Begin
<1>3. tx'[w] = r /\ \A v \in Workers : v # w => tx'[v] = tx[v]
    BY <1>2 DEF TypeOK
<1>4. tx' \in [Workers -> TxType]
    BY <1>1, <1>2 DEF TypeOK
<1>5. UNCHANGED <<now, group, cache, subs, orders, topups, invoices, failures>> /\ CanBegin(w)
    BY DEF Begin
<1> QED
    BY <1>3, <1>4, <1>5

\* A transaction commits.
LEMMA CommitTx ==
    ASSUME TypeOK, NEW w \in Workers, Committed(w)
    PROVE  /\ tx' \in [Workers -> TxType]
           /\ tx'[w].op \in {"idle", "cache"}
           /\ tx'[w].op = "cache" => tx'[w].cached = tx[w].cached /\ tx[w].cached # NoGroup
           /\ tx'[w].op = "idle" => ~RedisEnabled \/ tx[w].cached = NoGroup
           /\ tx'[w].time \in {0, tx[w].time}
           /\ \A v \in Workers : v # w => tx'[v] = tx[v]
<1>1. tx[w] \in TxType
    BY DEF TypeOK
<1>2. CASE RedisEnabled /\ tx[w].cached # NoGroup
  <2>1. tx' = [tx EXCEPT ![w] = [tx[w] EXCEPT !.op = "cache"]]
      BY <1>2 DEF Committed
  <2>2. [tx[w] EXCEPT !.op = "cache"] \in TxType
      BY <1>1 DEF TxType
  <2>3. /\ [tx[w] EXCEPT !.op = "cache"].op = "cache"
        /\ [tx[w] EXCEPT !.op = "cache"].cached = tx[w].cached
        /\ [tx[w] EXCEPT !.op = "cache"].time = tx[w].time
      BY <1>1 DEF TxType
  <2> QED
      BY <1>2, <2>1, <2>2, <2>3 DEF TypeOK
<1>3. CASE ~(RedisEnabled /\ tx[w].cached # NoGroup)
  <2>1. tx' = [tx EXCEPT ![w] = Idle]
      BY <1>3 DEF Committed
  <2> QED
      BY <1>3, <2>1, IdleFacts DEF TypeOK
<1> QED
    BY <1>2, <1>3

\* A handler ends.
LEMMA IdleTx ==
    ASSUME TypeOK, NEW w \in Workers, tx' = [tx EXCEPT ![w] = Idle]
    PROVE  /\ tx' \in [Workers -> TxType]
           /\ tx'[w] = Idle
           /\ \A v \in Workers : v # w => tx'[v] = tx[v]
BY IdleFacts DEF TypeOK

LEMMA GroupWritten ==
    ASSUME TypeOK, NEW w \in Workers, WriteGroup(w)
    PROVE  /\ group' \in Groups \ {NoGroup}
           /\ tx[w].newGroup = NoGroup => group' = group
           /\ tx[w].newGroup # NoGroup => group' = tx[w].newGroup
<1>1. tx[w].newGroup \in MaybeGroup
    BY DEF TypeOK, TxType, MaybeGroup
<1> QED
    BY <1>1 DEF TypeOK, WriteGroup, MaybeGroup

-----------------------------------------------------------------------------
(* The row that ended last *)

\* The rows of S that come before i in ORDER BY end_time DESC, id DESC.
Before(S, i) ==
    {j \in S : subs[i].endTime < subs[j].endTime \/ (subs[i].endTime = subs[j].endTime /\ i < j)}

\* There is a first one: take the row that has the fewest before it.
LEMMA LatestExists ==
    ASSUME TypeOK, NEW S \in SUBSET DOMAIN subs, S # {}
    PROVE  Latest(S) \in S
<1>1. \A i \in S : i \in Nat /\ subs[i].endTime \in Nat
    BY RowsFun DEF RowType
<1>2. IsFiniteSet(S)
  <2>1. IsFiniteSet(DOMAIN subs)
      BY RowsFun, FS_Interval
  <2> QED
      BY <2>1, FS_Subset
<1> DEFINE T == {Before(S, i) : i \in S}
<1>3. T \subseteq FiniteSubsetsOf(S) /\ T # {}
  <2>1. FiniteSubsetsOf(S) = SUBSET S
      BY <1>2, FS_FiniteSubsetsOfFinite
  <2>2. \A i \in S : Before(S, i) \in SUBSET S
      BY DEF Before
  <2> QED
      BY <2>1, <2>2
<1>4. PICK U \in T : \A V \in T : ~(<<V, U>> \in StrictSubsetOrdering(S))
  <2> HIDE DEF T
  <2> QED
      BY <1>3, FS_StrictSubsetOrderingWellFounded, WFMin
<1>5. PICK i \in S : U = Before(S, i)
    OBVIOUS
<1>6. U = {}
  <2>1. SUFFICES ASSUME NEW j \in U PROVE FALSE
      OBVIOUS
  <2>2. j \in S
      BY <1>5, <2>1 DEF Before
  <2>3. Before(S, j) \subseteq U
      BY <1>1, <1>5, <2>1, <2>2 DEF Before
  <2>4. j \notin Before(S, j)
      BY <1>1, <2>2 DEF Before
  <2>5. Before(S, j) \in T
      BY <2>2
  <2>6. <<Before(S, j), U>> \in StrictSubsetOrdering(S)
    <3>1. Before(S, j) \in SUBSET S /\ U \in SUBSET S /\ Before(S, j) # U
        BY <1>5, <2>1, <2>4 DEF Before
    <3> QED
        BY <2>3, <3>1 DEF StrictSubsetOrdering
  <2> QED
      BY <1>4, <2>5, <2>6
<1>7. \A j \in S : \/ subs[j].endTime < subs[i].endTime
                   \/ subs[j].endTime = subs[i].endTime /\ j <= i
    BY <1>1, <1>5, <1>6 DEF Before
<1> QED
    BY <1>7 DEF Latest

\* The groups that subscriptions go back to.
LEMMA DowngradeType ==
    ASSUME TypeOK, NEW i \in DOMAIN subs, NEW t
    PROVE  DowngradeAt(i, t) \in MaybeGroup
<1>1. subs[i].prevUserGroup \in MaybeGroup
    BY RowsFun DEF RowType, MaybeGroup
<1> QED
    BY <1>1 DEF DowngradeAt, MaybeGroup

LEMMA SweepType ==
    ASSUME TypeOK, NEW t
    PROVE  SweepAt(t) \in MaybeGroup
<1>1. CASE ExpiredUpgradesAt(t) = {}
    BY <1>1 DEF SweepAt, MaybeGroup
<1>2. CASE ExpiredUpgradesAt(t) # {}
  <2>1. Latest(ExpiredUpgradesAt(t)) \in DOMAIN subs
    <3>1. ExpiredUpgradesAt(t) \in SUBSET DOMAIN subs
        BY DEF ExpiredUpgradesAt
    <3> QED
        BY <1>2, <3>1, LatestExists
  <2>2. subs[Latest(ExpiredUpgradesAt(t))].prevUserGroup \in MaybeGroup
      BY <2>1, RowsFun DEF RowType, MaybeGroup
  <2> QED
      BY <2>2 DEF SweepAt, MaybeGroup
<1> QED
    BY <1>1, <1>2

LEMMA DecisionsNow ==
    /\ \A i : DowngradeTarget(i) = DowngradeAt(i, now)
    /\ SweepTarget = SweepAt(now)
BY DEF DowngradeTarget, DowngradeAt, SweepTarget, SweepAt, ExpiredUpgrades, ExpiredUpgradesAt

-----------------------------------------------------------------------------
(* What the steps do *)

\* Worker w begins a transaction.
Begun(w, op, arg) ==
    /\ CanBegin(w)
    /\ tx' \in [Workers -> TxType]
    /\ tx'[w].op = op /\ tx'[w].arg = arg /\ tx'[w].time = now
    /\ \A v \in Workers : v # w => tx'[v] = tx[v]
    /\ UNCHANGED <<now, group, cache, subs, orders, topups, invoices, failures>>

\* Worker w has committed; it may still have to write the cache.
Ended(w) ==
    /\ tx' \in [Workers -> TxType]
    /\ tx'[w].op \in {"idle", "cache"}
    /\ tx'[w].op = "cache" => tx'[w].cached = tx[w].cached /\ tx[w].cached # NoGroup
    /\ tx'[w].op = "idle" => ~RedisEnabled \/ tx[w].cached = NoGroup
    /\ tx'[w].time \in {0, tx[w].time}
    /\ \A v \in Workers : v # w => tx'[v] = tx[v]
    /\ UNCHANGED <<now, cache, failures>>

\* The group is written as decided.
Regrouped(w) ==
    /\ group' \in Groups \ {NoGroup}
    /\ tx[w].newGroup = NoGroup => group' = group
    /\ tx[w].newGroup # NoGroup => group' = tx[w].newGroup

\* A row of plan p is added.
Inserted(w, p, source) ==
    LET n == Len(subs) + 1 IN
    /\ subs' \in Seq(RowType)
    /\ DOMAIN subs' = DOMAIN subs \cup {n} /\ n \notin DOMAIN subs
    /\ \A i \in DOMAIN subs : subs'[i] = subs[i]
    /\ subs'[n].plan = p /\ subs'[n].source = source /\ subs'[n].status = "active"
    /\ subs'[n].upgradeGroup = UpgradeGroup[p] /\ subs'[n].prevUserGroup = tx[w].prev

\* Rows may end, and stay what they are otherwise.
RowsKept ==
    /\ subs' \in Seq(RowType)
    /\ DOMAIN subs' = DOMAIN subs
    /\ \A i \in DOMAIN subs :
         /\ subs'[i].plan = subs[i].plan /\ subs'[i].source = subs[i].source
         /\ subs'[i].upgradeGroup = subs[i].upgradeGroup
         /\ subs'[i].prevUserGroup = subs[i].prevUserGroup
         /\ subs[i].status = "deleted" => subs'[i].status = "deleted"
         /\ subs'[i].status = "active" =>
              subs[i].status = "active" /\ subs'[i].endTime = subs[i].endTime

LEMMA CreateBegins ==
    ASSUME TypeOK, NEW w \in Workers, NEW op \in CreateOps, NEW arg \in ArgType,
           NEW p \in Plans, NEW g \in MaybeGroup, BeginCreate(w, op, arg, p, g)
    PROVE  /\ Begun(w, op, arg) /\ tx'[w].cached = g
           /\ IF ChangesGroup(p) THEN tx'[w].newGroup = UpgradeGroup[p] /\ tx'[w].prev = group
                                 ELSE tx'[w].newGroup = NoGroup /\ tx'[w].prev = NoGroup
<1>1. op \in TxOps
    BY DEF CreateOps, TxOps
<1>2. UpgradeGroup[p] \in MaybeGroup /\ group \in MaybeGroup /\ NoGroup \in MaybeGroup
    BY PlanFacts DEF MaybeGroup, TypeOK
<1>3. CASE ChangesGroup(p)
  <2>1. Begin(w, op, arg, UpgradeGroup[p], group, g)
      BY <1>3 DEF BeginCreate
  <2> QED
      BY <1>1, <1>2, <1>3, <2>1, BeginTx DEF Begun
<1>4. CASE ~ChangesGroup(p)
  <2>1. Begin(w, op, arg, NoGroup, NoGroup, g)
      BY <1>4 DEF BeginCreate
  <2> QED
      BY <1>1, <1>2, <1>4, <2>1, BeginTx DEF Begun
<1> QED
    BY <1>3, <1>4

LEMMA CompleteBegins ==
    ASSUME TypeOK, NEW w \in Workers, NEW o \in Orders, BeginComplete(w, o)
    PROVE  /\ Begun(w, "complete", o) /\ tx'[w].cached = UpgradeGroup[OrderPlan[o]]
           /\ ~OrderLocked(o) /\ orders[o] = "pending" /\ ~LimitReached(OrderPlan[o])
           /\ LET p == OrderPlan[o] IN
              IF ChangesGroup(p) THEN tx'[w].newGroup = UpgradeGroup[p] /\ tx'[w].prev = group
                                 ELSE tx'[w].newGroup = NoGroup /\ tx'[w].prev = NoGroup
<1>1. /\ BeginCreate(w, "complete", o, OrderPlan[o], UpgradeGroup[OrderPlan[o]])
      /\ ~OrderLocked(o) /\ orders[o] = "pending" /\ ~LimitReached(OrderPlan[o])
    BY DEF BeginComplete
<1>2. o \in ArgType /\ OrderPlan[o] \in Plans /\ UpgradeGroup[OrderPlan[o]] \in MaybeGroup
    BY PlanFacts DEF ArgType, MaybeGroup
<1>3. "complete" \in CreateOps
    BY DEF CreateOps
<1> QED
    BY <1>1, <1>2, <1>3, CreateBegins

LEMMA BindBegins ==
    ASSUME TypeOK, NEW w \in Workers, NEW p \in AdminPlans, AdminBindSubscription(w, p)
    PROVE  /\ Begun(w, "bind", p) /\ tx'[w].cached = UpgradeGroup[p] /\ p \in Plans
           /\ ~LimitReached(p)
           /\ IF ChangesGroup(p) THEN tx'[w].newGroup = UpgradeGroup[p] /\ tx'[w].prev = group
                                 ELSE tx'[w].newGroup = NoGroup /\ tx'[w].prev = NoGroup
<1>1. BeginCreate(w, "bind", p, p, UpgradeGroup[p]) /\ ~LimitReached(p)
    BY DEF AdminBindSubscription
<1>2. p \in ArgType /\ p \in Plans /\ UpgradeGroup[p] \in MaybeGroup
    BY PlanFacts DEF ArgType, MaybeGroup
<1>3. "bind" \in CreateOps
    BY DEF CreateOps
<1> QED
    BY <1>1, <1>2, <1>3, CreateBegins

LEMMA InvoiceBegins ==
    ASSUME TypeOK, NEW w \in Workers, NEW v \in Invoices, CompleteStripeSubscriptionInvoice(w, v)
    PROVE  /\ Begun(w, "invoice", v) /\ tx'[w].cached = NoGroup
           /\ LET p == InvoicePlan[v] IN
              IF ChangesGroup(p) THEN tx'[w].newGroup = UpgradeGroup[p] /\ tx'[w].prev = group
                                 ELSE tx'[w].newGroup = NoGroup /\ tx'[w].prev = NoGroup
<1>1. BeginCreate(w, "invoice", v, InvoicePlan[v], NoGroup)
    BY DEF CompleteStripeSubscriptionInvoice
<1>2. v \in ArgType /\ InvoicePlan[v] \in Plans /\ NoGroup \in MaybeGroup
    BY PlanFacts DEF ArgType, MaybeGroup
<1>3. "invoice" \in CreateOps
    BY DEF CreateOps
<1> QED
    BY <1>1, <1>2, <1>3, CreateBegins

LEMMA ExpireOrderBegins ==
    ASSUME TypeOK, NEW w \in Workers, NEW o \in Orders, BeginExpireOrder(w, o)
    PROVE  /\ Begun(w, "expireOrder", o)
           /\ tx'[w].newGroup = NoGroup /\ tx'[w].cached = NoGroup
           /\ ~OrderLocked(o) /\ orders[o] = "pending"
<1>1. /\ Begin(w, "expireOrder", o, NoGroup, NoGroup, NoGroup)
      /\ ~OrderLocked(o) /\ orders[o] = "pending"
    BY DEF BeginExpireOrder
<1>2. o \in ArgType /\ NoGroup \in MaybeGroup /\ "expireOrder" \in TxOps
    BY DEF ArgType, MaybeGroup, TxOps
<1> QED
    BY <1>1, <1>2, BeginTx DEF Begun

LEMMA EndBegins ==
    ASSUME TypeOK, NEW w \in Workers, NEW i \in DOMAIN subs,
           AdminInvalidate(w, i) \/ AdminDelete(w, i)
    PROVE  /\ Begun(w, "invalidate", i) \/ Begun(w, "delete", i)
           /\ tx'[w].newGroup = DowngradeAt(i, now) /\ tx'[w].cached = DowngradeAt(i, now)
<1>1. DowngradeTarget(i) = DowngradeAt(i, now) /\ DowngradeAt(i, now) \in MaybeGroup
    BY DecisionsNow, DowngradeType
<1>2. i \in ArgType /\ NoGroup \in MaybeGroup /\ "invalidate" \in TxOps /\ "delete" \in TxOps
    BY RowsFun DEF ArgType, MaybeGroup, TxOps
<1>3. CASE AdminInvalidate(w, i)
  <2>1. Begin(w, "invalidate", i, DowngradeAt(i, now), NoGroup, DowngradeAt(i, now))
      BY <1>1, <1>3 DEF AdminInvalidate
  <2> QED
      BY <1>1, <1>2, <2>1, BeginTx DEF Begun
<1>4. CASE AdminDelete(w, i)
  <2>1. Begin(w, "delete", i, DowngradeAt(i, now), NoGroup, DowngradeAt(i, now))
      BY <1>1, <1>4 DEF AdminDelete
  <2> QED
      BY <1>1, <1>2, <2>1, BeginTx DEF Begun
<1> QED
    BY <1>3, <1>4

LEMMA SweepBegins ==
    ASSUME TypeOK, NEW w \in Workers, ExpireDueSubscriptions(w)
    PROVE  /\ Begun(w, "sweep", Admin)
           /\ tx'[w].newGroup = SweepAt(now) /\ tx'[w].cached = SweepAt(now)
<1>1. SweepTarget = SweepAt(now) /\ SweepAt(now) \in MaybeGroup
    BY DecisionsNow, SweepType
<1>2. Admin \in ArgType /\ NoGroup \in MaybeGroup /\ "sweep" \in TxOps
    BY DEF ArgType, MaybeGroup, TxOps
<1>3. Begin(w, "sweep", Admin, SweepAt(now), NoGroup, SweepAt(now))
    BY <1>1 DEF ExpireDueSubscriptions
<1> QED
    BY <1>1, <1>2, <1>3, BeginTx DEF Begun

LEMMA InsertsRow ==
    ASSUME TypeOK, NEW w \in Workers, NEW p \in Plans,
           NEW source \in Orders \cup Invoices \cup {Admin}, InsertRow(w, p, source)
    PROVE  Inserted(w, p, source)
<1> DEFINE r == [plan |-> p, source |-> source, status |-> "active",
                 endTime |-> tx[w].time + Duration[p],
                 upgradeGroup |-> UpgradeGroup[p], prevUserGroup |-> tx[w].prev]
<1>1. r \in RowType
  <2>1. tx[w].time \in Nat /\ tx[w].prev \in Groups \cup {NoGroup}
      BY DEF TypeOK, TxType
  <2>2. Duration[p] \in Nat /\ UpgradeGroup[p] \in Groups
      BY PlanFacts
  <2>3. tx[w].time + Duration[p] \in Nat
      BY <2>1, <2>2
  <2> QED
      BY <2>1, <2>2, <2>3 DEF RowType
<1>2. subs' = Append(subs, r)
    BY DEF InsertRow
<1>3. /\ r.plan = p /\ r.source = source /\ r.status = "active"
      /\ r.upgradeGroup = UpgradeGroup[p] /\ r.prevUserGroup = tx[w].prev
    OBVIOUS
<1> HIDE DEF r
<1> QED
    BY <1>1, <1>2, <1>3, RowAdded DEF Inserted

LEMMA EndsTx ==
    ASSUME TypeOK, NEW w \in Workers, Committed(w), UNCHANGED <<now, cache, failures>>
    PROVE  Ended(w)
BY CommitTx DEF Ended

LEMMA CompleteCommits ==
    ASSUME Base, NEW w \in Workers, CommitComplete(w)
    PROVE  /\ tx[w].op = "complete" /\ tx[w].arg \in Orders
           /\ Ended(w) /\ Regrouped(w) /\ Inserted(w, OrderPlan[tx[w].arg], tx[w].arg)
           /\ orders' = [orders EXCEPT ![tx[w].arg] = "success"]
           /\ topups' = topups \cup {tx[w].arg} /\ invoices' = invoices
<1>1. TypeOK /\ tx[w].op = "complete" /\ tx[w].arg \in Orders
    BY DEF Base, ArgOK, CommitComplete, OrderOps
<1>2. OrderPlan[tx[w].arg] \in Plans
    BY <1>1, PlanFacts
<1>3. InsertRow(w, OrderPlan[tx[w].arg], tx[w].arg) /\ WriteGroup(w) /\ Committed(w)
    BY DEF CommitComplete
<1>4. Inserted(w, OrderPlan[tx[w].arg], tx[w].arg)
    BY <1>1, <1>2, <1>3, InsertsRow
<1>5. Ended(w) /\ Regrouped(w)
    BY <1>1, <1>3, EndsTx, GroupWritten DEF CommitComplete, Regrouped
<1> QED
    BY <1>1, <1>4, <1>5 DEF CommitComplete

LEMMA BindCommits ==
    ASSUME Base, NEW w \in Workers, CommitBind(w)
    PROVE  /\ tx[w].op = "bind" /\ tx[w].arg \in Plans
           /\ Ended(w) /\ Regrouped(w) /\ Inserted(w, tx[w].arg, Admin)
           /\ UNCHANGED <<orders, topups, invoices>>
<1>1. TypeOK /\ tx[w].op = "bind" /\ tx[w].arg \in Plans
    BY DEF Base, ArgOK, CommitBind
<1>2. InsertRow(w, tx[w].arg, Admin) /\ WriteGroup(w) /\ Committed(w)
    BY DEF CommitBind
<1>3. Inserted(w, tx[w].arg, Admin)
    BY <1>1, <1>2, InsertsRow
<1>4. Ended(w) /\ Regrouped(w)
    BY <1>1, <1>2, EndsTx, GroupWritten DEF CommitBind, Regrouped
<1> QED
    BY <1>1, <1>3, <1>4 DEF CommitBind

LEMMA InvoiceCommits ==
    ASSUME Base, NEW w \in Workers, CommitInvoice(w)
    PROVE  /\ tx[w].op = "invoice" /\ tx[w].arg \in Invoices
           /\ Ended(w) /\ UNCHANGED <<orders, topups>>
           /\ \/ tx[w].arg \in invoices /\ UNCHANGED <<subs, group, invoices>>
              \/ /\ tx[w].arg \notin invoices /\ invoices' = invoices \cup {tx[w].arg}
                 /\ Regrouped(w) /\ Inserted(w, InvoicePlan[tx[w].arg], tx[w].arg)
<1>1. TypeOK /\ tx[w].op = "invoice" /\ tx[w].arg \in Invoices
    BY DEF Base, ArgOK, CommitInvoice
<1>2. Ended(w) /\ UNCHANGED <<orders, topups>>
    BY <1>1, EndsTx DEF CommitInvoice
<1>3. CASE tx[w].arg \in invoices
    BY <1>1, <1>2, <1>3 DEF CommitInvoice
<1>4. CASE tx[w].arg \notin invoices
  <2>1. /\ InsertRow(w, InvoicePlan[tx[w].arg], tx[w].arg) /\ WriteGroup(w)
        /\ invoices' = invoices \cup {tx[w].arg}
      BY <1>4 DEF CommitInvoice
  <2>2. InvoicePlan[tx[w].arg] \in Plans
      BY <1>1, PlanFacts
  <2>3. Inserted(w, InvoicePlan[tx[w].arg], tx[w].arg)
      BY <1>1, <2>1, <2>2, InsertsRow
  <2>4. Regrouped(w)
      BY <1>1, <2>1, GroupWritten DEF Regrouped
  <2> QED
      BY <1>1, <1>2, <1>4, <2>1, <2>3, <2>4
<1> QED
    BY <1>3, <1>4

\* Invalidation and deletion end one row.
LEMMA EndCommits ==
    ASSUME Base, NEW w \in Workers, CommitInvalidate(w) \/ CommitDelete(w)
    PROVE  /\ tx[w].op \in EndOps /\ tx[w].arg \in DOMAIN subs
           /\ Ended(w) /\ Regrouped(w) /\ RowsKept
           /\ subs'[tx[w].arg].status # "active"
           /\ \A j \in DOMAIN subs : j # tx[w].arg => subs'[j] = subs[j]
           /\ UNCHANGED <<orders, topups, invoices>>
<1> DEFINE i == tx[w].arg
<1>1. TypeOK /\ tx[w].op \in EndOps /\ i \in DOMAIN subs
    BY DEF Base, ArgOK, CommitInvalidate, CommitDelete, EndOps
<1>2. WriteGroup(w) /\ Committed(w) /\ UNCHANGED <<now, cache, orders, topups, invoices, failures>>
    BY DEF CommitInvalidate, CommitDelete
<1>3. Ended(w) /\ Regrouped(w)
    BY <1>1, <1>2, EndsTx, GroupWritten DEF Regrouped
<1>4. subs[i] \in RowType /\ tx[w].time \in Nat
    BY <1>1, RowsFun DEF TypeOK, TxType
<1>5. PICK r \in RowType :
        /\ subs' = [subs EXCEPT ![i] = r]
        /\ r.plan = subs[i].plan /\ r.source = subs[i].source
        /\ r.upgradeGroup = subs[i].upgradeGroup /\ r.prevUserGroup = subs[i].prevUserGroup
        /\ r.status # "active" /\ (subs[i].status = "deleted" => r.status = "deleted")
  <2>1. CASE CommitInvalidate(w) /\ Exists(i)
    <3> DEFINE q == [subs[i] EXCEPT !.status = "cancelled", !.endTime = tx[w].time]
    <3>1. subs' = [subs EXCEPT ![i] = q]
      <4>1. subs' = [subs EXCEPT ![i].status = "cancelled", ![i].endTime = tx[w].time]
          BY <2>1 DEF CommitInvalidate
      <4> QED
          BY <4>1, <1>1
    <3>2. q \in RowType
        BY <1>4 DEF RowType
    <3>3. /\ q.plan = subs[i].plan /\ q.source = subs[i].source /\ q.status = "cancelled"
          /\ q.upgradeGroup = subs[i].upgradeGroup /\ q.prevUserGroup = subs[i].prevUserGroup
        BY <1>4 DEF RowType
    <3> QED
        BY <2>1, <3>1, <3>2, <3>3 DEF Exists
  <2>2. CASE CommitInvalidate(w) /\ ~Exists(i)
    <3>1. subs' = subs /\ subs[i].status = "deleted"
        BY <2>2 DEF CommitInvalidate, Exists
    <3>2. subs' = [subs EXCEPT ![i] = subs[i]]
        BY <1>1, <3>1, RowsFun DEF TypeOK
    <3> QED
        BY <1>4, <3>1, <3>2
  <2>3. CASE CommitDelete(w)
    <3> DEFINE q == [subs[i] EXCEPT !.status = "deleted"]
    <3>1. subs' = [subs EXCEPT ![i] = q]
        BY <2>3, <1>1 DEF CommitDelete
    <3>2. q \in RowType
        BY <1>4 DEF RowType
    <3>3. /\ q.plan = subs[i].plan /\ q.source = subs[i].source /\ q.status = "deleted"
          /\ q.upgradeGroup = subs[i].upgradeGroup /\ q.prevUserGroup = subs[i].prevUserGroup
        BY <1>4 DEF RowType
    <3> QED
        BY <3>1, <3>2, <3>3
  <2> QED
      BY <2>1, <2>2, <2>3
<1>6. /\ subs' \in [DOMAIN subs -> RowType]
      /\ subs'[i] = r /\ \A j \in DOMAIN subs : j # i => subs'[j] = subs[j]
    BY <1>1, <1>5, RowsFun
<1>7. subs' \in Seq(RowType) /\ DOMAIN subs' = DOMAIN subs
    BY <1>1, <1>6, RowsStay
<1>8. RowsKept
    BY <1>1, <1>5, <1>6, <1>7 DEF RowsKept
<1> QED
    BY <1>1, <1>2, <1>3, <1>5, <1>6, <1>8

\* The sweep ends the rows that were due when it began.
LEMMA SweepCommits ==
    ASSUME Base, NEW w \in Workers, CommitSweep(w)
    PROVE  /\ tx[w].op = "sweep"
           /\ Ended(w) /\ Regrouped(w) /\ RowsKept
           /\ \A j \in DOMAIN subs :
                /\ subs'[j].status = IF Due(j, tx[w].time) THEN "expired" ELSE subs[j].status
                /\ subs'[j].endTime = subs[j].endTime
           /\ UNCHANGED <<orders, topups, invoices>>
<1>1. TypeOK /\ tx[w].op = "sweep"
    BY DEF Base, CommitSweep
<1>2. WriteGroup(w) /\ Committed(w) /\ UNCHANGED <<now, cache, orders, topups, invoices, failures>>
    BY DEF CommitSweep
<1>3. Ended(w) /\ Regrouped(w)
    BY <1>1, <1>2, EndsTx, GroupWritten DEF Regrouped
<1>4. ASSUME NEW j \in DOMAIN subs
      PROVE  /\ subs'[j] \in RowType
             /\ subs'[j].plan = subs[j].plan /\ subs'[j].source = subs[j].source
             /\ subs'[j].upgradeGroup = subs[j].upgradeGroup
             /\ subs'[j].prevUserGroup = subs[j].prevUserGroup
             /\ subs'[j].status = IF Due(j, tx[w].time) THEN "expired" ELSE subs[j].status
             /\ subs'[j].endTime = subs[j].endTime
  <2>1. subs[j] \in RowType
      BY <1>1, RowsFun
  <2>2. subs'[j] = IF Due(j, tx[w].time) THEN [subs[j] EXCEPT !.status = "expired"] ELSE subs[j]
      BY DEF CommitSweep
  <2>3. CASE Due(j, tx[w].time)
    <3>1. subs'[j] = [subs[j] EXCEPT !.status = "expired"]
        BY <2>2, <2>3
    <3> QED
        BY <2>1, <2>3, <3>1 DEF RowType
  <2>4. CASE ~Due(j, tx[w].time)
      BY <2>1, <2>2, <2>4
  <2> QED
      BY <2>3, <2>4
<1>5. subs' \in [DOMAIN subs -> RowType]
  <2>1. DOMAIN subs' = DOMAIN subs /\ subs' = [j \in DOMAIN subs |-> subs'[j]]
      BY DEF CommitSweep
  <2> QED
      BY <1>4, <2>1
<1>6. subs' \in Seq(RowType) /\ DOMAIN subs' = DOMAIN subs
    BY <1>1, <1>5, RowsStay
<1>7. RowsKept
    BY <1>4, <1>6 DEF RowsKept, Due
<1> QED
    BY <1>1, <1>2, <1>3, <1>4, <1>7

LEMMA ExpireOrderCommits ==
    ASSUME Base, NEW w \in Workers, CommitExpireOrder(w)
    PROVE  /\ tx[w].op = "expireOrder" /\ tx[w].arg \in Orders
           /\ Ended(w) /\ UNCHANGED <<group, subs, topups, invoices>>
           /\ orders' = [orders EXCEPT ![tx[w].arg] = "expired"]
<1>1. TypeOK /\ tx[w].op = "expireOrder" /\ tx[w].arg \in Orders
    BY DEF Base, ArgOK, CommitExpireOrder, OrderOps
<1>2. Ended(w)
    BY <1>1, EndsTx DEF CommitExpireOrder
<1> QED
    BY <1>1, <1>2 DEF CommitExpireOrder

-----------------------------------------------------------------------------
(* Types are kept *)

LEMMA InitBase == Init => Base
<1> SUFFICES ASSUME Init PROVE Base
    OBVIOUS
<1>1. tx \in [Workers -> TxType] /\ \A w \in Workers : tx[w] = Idle
    BY IdleFacts DEF Init
<1>2. TypeOK
    BY <1>1, PlanFacts DEF Init, TypeOK
<1>3. \A w \in Workers : ArgOK(tx[w])
    BY <1>1, IdleFacts DEF ArgOK, OrderOps, EndOps
<1> QED
    BY <1>2, <1>3 DEF Base

LEMMA BegunBase ==
    ASSUME Base, NEW w \in Workers, NEW op, NEW arg, Begun(w, op, arg), ArgOK(tx'[w])
    PROVE  Base'
<1>1. TypeOK'
    BY DEF Base, TypeOK, Begun
<1>2. \A v \in Workers : ArgOK(tx'[v])
    BY DEF Base, Begun
<1>3. subs' = subs
    BY DEF Begun
<1> QED
    BY <1>1, <1>2, <1>3 DEF Base, ArgOK

LEMMA EndedBase ==
    ASSUME Base, NEW w \in Workers, Ended(w), group' \in Groups \ {NoGroup},
           subs' \in Seq(RowType), DOMAIN subs \subseteq DOMAIN subs',
           orders' \in [Orders -> {"none", "pending", "success", "expired"}],
           topups' \subseteq Orders, invoices' \subseteq Invoices
    PROVE  Base'
<1>1. TypeOK'
    BY DEF Base, TypeOK, Ended
<1>2. ASSUME NEW v \in Workers PROVE ArgOK(tx[v])'
  <2>1. CASE v = w
    <3>1. tx'[v].op \in {"idle", "cache"}
        BY <2>1 DEF Ended
    <3> QED
        BY <3>1 DEF ArgOK, OrderOps, EndOps
  <2>2. CASE v # w
    <3>1. tx'[v] = tx[v] /\ ArgOK(tx[v])
        BY <2>2 DEF Ended, Base
    <3> QED
        BY <3>1 DEF ArgOK
  <2> QED
      BY <2>1, <2>2
<1> QED
    BY <1>1, <1>2 DEF Base

\* Steps that leave the rows alone and do not begin or commit a transaction.
Aside(w) ==
    /\ tx' \in [Workers -> TxType]
    /\ tx'[w].op \in {"idle", "populate"} /\ tx'[w].time = 0
    /\ \A v \in Workers : v # w => tx'[v] = tx[v]
    /\ UNCHANGED <<now, group, subs, orders, topups, invoices>>

LEMMA AsideSteps ==
    ASSUME TypeOK, NEW w \in Workers,
           CacheStep(w) \/ TxFails(w) \/ CacheWriteFails(w)
    PROVE  Aside(w) /\ cache' \in Groups \cup {NoGroup} /\ failures' \in Nat
<1>1. tx[w].cached \in Groups \cup {NoGroup} /\ group \in Groups
    BY DEF TypeOK, TxType
<1>2. CASE UpdateUserGroupCache(w)
    BY <1>1, <1>2, IdleTx, IdleFacts DEF UpdateUserGroupCache, Aside, TypeOK
<1>3. CASE PopulateCache(w)
    BY <1>1, <1>3, IdleTx, IdleFacts DEF PopulateCache, Aside, TypeOK
<1>4. CASE TxFails(w)
    BY <1>1, <1>4, IdleTx, IdleFacts DEF TxFails, Aside, TypeOK
<1>5. CASE CacheWriteFails(w)
    BY <1>1, <1>5, IdleTx, IdleFacts DEF CacheWriteFails, Aside, TypeOK
<1>6. CASE GetUserCache(w)
  <2> DEFINE r == [Idle EXCEPT !.op = "populate", !.cached = group]
  <2>1. tx' = [tx EXCEPT ![w] = r] /\ UNCHANGED <<now, group, cache, subs, orders, topups, invoices, failures>>
      BY <1>6 DEF GetUserCache
  <2>2. r \in TxType /\ r.op = "populate" /\ r.time = 0
      BY <1>1 DEF Idle, TxType
  <2> HIDE DEF r
  <2> QED
      BY <2>1, <2>2 DEF Aside, TypeOK
<1> QED
    BY <1>2, <1>3, <1>4, <1>5, <1>6 DEF CacheStep

LEMMA AsideBase ==
    ASSUME Base, NEW w \in Workers, Aside(w), cache' \in Groups \cup {NoGroup}, failures' \in Nat
    PROVE  Base'
<1>1. TypeOK'
    BY DEF Base, TypeOK, Aside
<1>2. ASSUME NEW v \in Workers PROVE ArgOK(tx[v])'
  <2>1. CASE v = w
    <3>1. tx'[v].op \in {"idle", "populate"}
        BY <2>1 DEF Aside
    <3> QED
        BY <3>1 DEF ArgOK, OrderOps, EndOps
  <2>2. CASE v # w
    <3>1. tx'[v] = tx[v] /\ ArgOK(tx[v]) /\ subs' = subs
        BY <2>2 DEF Aside, Base
    <3> QED
        BY <3>1 DEF ArgOK
  <2> QED
      BY <2>1, <2>2
<1> QED
    BY <1>1, <1>2 DEF Base

LEMMA BaseStep ==
    ASSUME Base, [Next]_vars
    PROVE  Base'
<1>0. TypeOK
    BY DEF Base
<1>1. ASSUME NEW o \in Orders, RequestOrder(o) PROVE Base'
    BY <1>1 DEF RequestOrder, Base, TypeOK, ArgOK
<1>2. ASSUME NEW w \in Workers, NEW o \in Orders, BeginComplete(w, o) PROVE Base'
  <2>1. Begun(w, "complete", o)
      BY <1>0, <1>2, CompleteBegins
  <2> QED
      BY <2>1, BegunBase DEF Begun, ArgOK, OrderOps, EndOps
<1>3. ASSUME NEW w \in Workers, NEW o \in Orders, BeginExpireOrder(w, o) PROVE Base'
  <2>1. Begun(w, "expireOrder", o)
      BY <1>0, <1>3, ExpireOrderBegins
  <2> QED
      BY <2>1, BegunBase DEF Begun, ArgOK, OrderOps, EndOps
<1>4. ASSUME NEW w \in Workers, NEW p \in AdminPlans, AdminBindSubscription(w, p) PROVE Base'
  <2>1. Begun(w, "bind", p) /\ p \in Plans
      BY <1>0, <1>4, BindBegins
  <2> QED
      BY <2>1, BegunBase DEF Begun, ArgOK, OrderOps, EndOps
<1>5. ASSUME NEW w \in Workers, NEW v \in Invoices, CompleteStripeSubscriptionInvoice(w, v)
      PROVE  Base'
  <2>1. Begun(w, "invoice", v)
      BY <1>0, <1>5, InvoiceBegins
  <2> QED
      BY <2>1, BegunBase DEF Begun, ArgOK, OrderOps, EndOps
<1>6. ASSUME NEW w \in Workers, NEW i \in DOMAIN subs, AdminInvalidate(w, i) \/ AdminDelete(w, i)
      PROVE  Base'
  <2>1. Begun(w, "invalidate", i) \/ Begun(w, "delete", i)
      BY <1>0, <1>6, EndBegins
  <2> QED
      BY <2>1, BegunBase DEF Begun, ArgOK, OrderOps, EndOps
<1>7. ASSUME NEW w \in Workers, ExpireDueSubscriptions(w) PROVE Base'
  <2>1. Begun(w, "sweep", Admin)
      BY <1>0, <1>7, SweepBegins
  <2> QED
      BY <2>1, BegunBase DEF Begun, ArgOK, OrderOps, EndOps
<1>8. ASSUME NEW w \in Workers, CommitComplete(w) PROVE Base'
    BY <1>0, <1>8, CompleteCommits, EndedBase DEF TypeOK, Regrouped, Inserted
<1>9. ASSUME NEW w \in Workers, CommitExpireOrder(w) PROVE Base'
    BY <1>0, <1>9, ExpireOrderCommits, EndedBase DEF TypeOK
<1>10. ASSUME NEW w \in Workers, CommitBind(w) PROVE Base'
    BY <1>0, <1>10, BindCommits, EndedBase DEF TypeOK, Regrouped, Inserted
<1>11. ASSUME NEW w \in Workers, CommitInvoice(w) PROVE Base'
    BY <1>0, <1>11, InvoiceCommits, EndedBase DEF TypeOK, Regrouped, Inserted
<1>12. ASSUME NEW w \in Workers, CommitInvalidate(w) \/ CommitDelete(w) PROVE Base'
    BY <1>0, <1>12, EndCommits, EndedBase DEF TypeOK, Regrouped, RowsKept
<1>13. ASSUME NEW w \in Workers, CommitSweep(w) PROVE Base'
    BY <1>0, <1>13, SweepCommits, EndedBase DEF TypeOK, Regrouped, RowsKept
<1>14. ASSUME NEW w \in Workers, CacheStep(w) \/ TxFails(w) \/ CacheWriteFails(w) PROVE Base'
    BY <1>0, <1>14, AsideSteps, AsideBase
<1>15. ASSUME CacheExpires \/ Tick PROVE Base'
    BY <1>15 DEF CacheExpires, Tick, Base, TypeOK, ArgOK
<1>16. ASSUME UNCHANGED vars PROVE Base'
    BY <1>16 DEF vars, Base, TypeOK, ArgOK
<1> QED
    BY <1>1, <1>2, <1>3, <1>4, <1>5, <1>6, <1>7, <1>8, <1>9, <1>10, <1>11, <1>12, <1>13, <1>14,
       <1>15, <1>16 DEF Next, OrderStep, GrantStep, EndStep

LEMMA BaseAlways == Spec => []Base
    BY InitBase, BaseStep, PTL DEF Spec

-----------------------------------------------------------------------------
(* Orders are the transaction's own, and pending *)

LEMMA HeldAfterBegin ==
    ASSUME Base, OrderHeld, NEW w \in Workers, NEW op, NEW arg, Begun(w, op, arg),
           op \in OrderOps => ~OrderLocked(arg) /\ orders[arg] = "pending"
    PROVE  OrderHeld'
<1>1. \A v \in Workers : v # w => tx'[v] = tx[v]
    BY DEF Begun
<1>2. tx'[w].op = op /\ tx'[w].arg = arg /\ orders' = orders
    BY DEF Begun
<1>3. op \in OrderOps => \A v \in Workers : ~(tx[v].op \in OrderOps /\ tx[v].arg = arg)
    BY DEF OrderLocked, OrderOps
<1> QED
    BY <1>1, <1>2, <1>3 DEF OrderHeld

LEMMA HeldAfterEnd ==
    ASSUME Base, OrderHeld, NEW w \in Workers, tx'[w].op \notin OrderOps,
           \A v \in Workers : v # w => tx'[v] = tx[v],
           \/ orders' = orders
           \/ tx[w].op \in OrderOps /\ \A o \in Orders : o # tx[w].arg => orders'[o] = orders[o]
    PROVE  OrderHeld'
<1>1. ASSUME NEW v \in Workers, tx'[v].op \in OrderOps
      PROVE  orders'[tx'[v].arg] = "pending"
  <2>1. v # w /\ tx'[v] = tx[v] /\ tx[v].op \in OrderOps
      BY <1>1
  <2>2. tx[v].arg \in Orders /\ orders[tx[v].arg] = "pending"
      BY <2>1 DEF Base, ArgOK, OrderHeld
  <2>3. tx[w].op \in OrderOps => tx[v].arg # tx[w].arg
      BY <2>1 DEF OrderHeld
  <2> QED
      BY <2>1, <2>2, <2>3
<1>2. ASSUME NEW u \in Workers, NEW v \in Workers, tx'[u].op \in OrderOps, tx'[v].op \in OrderOps,
             tx'[u].arg = tx'[v].arg
      PROVE  u = v
  <2>1. tx'[u] = tx[u] /\ tx'[v] = tx[v]
      BY <1>2
  <2> QED
      BY <1>2, <2>1 DEF OrderHeld
<1> QED
    BY <1>1, <1>2 DEF OrderHeld

LEMMA NotOrderOps ==
    /\ \A op \in {"idle", "cache", "populate", "bind", "invoice", "invalidate", "delete", "sweep"} :
          op \notin OrderOps
    /\ "complete" \in OrderOps /\ "expireOrder" \in OrderOps
BY DEF OrderOps

LEMMA HeldStep ==
    ASSUME Base, OrderHeld, [Next]_vars
    PROVE  OrderHeld'
<1>0. TypeOK
    BY DEF Base
<1>1. ASSUME NEW o \in Orders, RequestOrder(o) PROVE OrderHeld'
  <2>1. orders[o] = "none" /\ tx' = tx /\ \A q \in Orders : q # o => orders'[q] = orders[q]
      BY <1>0, <1>1 DEF RequestOrder, TypeOK
  <2>2. \A w \in Workers : tx[w].op \in OrderOps => tx[w].arg \in Orders /\ tx[w].arg # o
      BY <2>1 DEF Base, ArgOK, OrderHeld
  <2> QED
      BY <2>1, <2>2 DEF OrderHeld
<1>2. ASSUME NEW w \in Workers, NEW o \in Orders, BeginComplete(w, o) PROVE OrderHeld'
    BY <1>0, <1>2, CompleteBegins, HeldAfterBegin
<1>3. ASSUME NEW w \in Workers, NEW o \in Orders, BeginExpireOrder(w, o) PROVE OrderHeld'
    BY <1>0, <1>3, ExpireOrderBegins, HeldAfterBegin
<1>4. ASSUME NEW w \in Workers, NEW p \in AdminPlans, AdminBindSubscription(w, p) PROVE OrderHeld'
    BY <1>0, <1>4, BindBegins, HeldAfterBegin, NotOrderOps
<1>5. ASSUME NEW w \in Workers, NEW v \in Invoices, CompleteStripeSubscriptionInvoice(w, v)
      PROVE  OrderHeld'
    BY <1>0, <1>5, InvoiceBegins, HeldAfterBegin, NotOrderOps
<1>6. ASSUME NEW w \in Workers, NEW i \in DOMAIN subs, AdminInvalidate(w, i) \/ AdminDelete(w, i)
      PROVE  OrderHeld'
    BY <1>0, <1>6, EndBegins, HeldAfterBegin, NotOrderOps
<1>7. ASSUME NEW w \in Workers, ExpireDueSubscriptions(w) PROVE OrderHeld'
    BY <1>0, <1>7, SweepBegins, HeldAfterBegin, NotOrderOps
<1>8. ASSUME NEW w \in Workers, CommitComplete(w) PROVE OrderHeld'
  <2>1. Ended(w) /\ tx[w].op \in OrderOps /\ \A o \in Orders : o # tx[w].arg => orders'[o] = orders[o]
      BY <1>0, <1>8, CompleteCommits, NotOrderOps DEF TypeOK
  <2> QED
      BY <2>1, HeldAfterEnd, NotOrderOps DEF Ended
<1>9. ASSUME NEW w \in Workers, CommitExpireOrder(w) PROVE OrderHeld'
  <2>1. Ended(w) /\ tx[w].op \in OrderOps /\ \A o \in Orders : o # tx[w].arg => orders'[o] = orders[o]
      BY <1>0, <1>9, ExpireOrderCommits, NotOrderOps DEF TypeOK
  <2> QED
      BY <2>1, HeldAfterEnd, NotOrderOps DEF Ended
<1>10. ASSUME NEW w \in Workers, CommitBind(w) PROVE OrderHeld'
    BY <1>10, BindCommits, HeldAfterEnd, NotOrderOps DEF Ended
<1>11. ASSUME NEW w \in Workers, CommitInvoice(w) PROVE OrderHeld'
    BY <1>11, InvoiceCommits, HeldAfterEnd, NotOrderOps DEF Ended
<1>12. ASSUME NEW w \in Workers, CommitInvalidate(w) \/ CommitDelete(w) PROVE OrderHeld'
    BY <1>12, EndCommits, HeldAfterEnd, NotOrderOps DEF Ended
<1>13. ASSUME NEW w \in Workers, CommitSweep(w) PROVE OrderHeld'
    BY <1>13, SweepCommits, HeldAfterEnd, NotOrderOps DEF Ended
<1>14. ASSUME NEW w \in Workers, CacheStep(w) \/ TxFails(w) \/ CacheWriteFails(w) PROVE OrderHeld'
    BY <1>0, <1>14, AsideSteps, HeldAfterEnd, NotOrderOps DEF Aside
<1>15. ASSUME CacheExpires \/ Tick PROVE OrderHeld'
    BY <1>15 DEF CacheExpires, Tick, OrderHeld
<1>16. ASSUME UNCHANGED vars PROVE OrderHeld'
    BY <1>16 DEF vars, OrderHeld
<1> QED
    BY <1>1, <1>2, <1>3, <1>4, <1>5, <1>6, <1>7, <1>8, <1>9, <1>10, <1>11, <1>12, <1>13, <1>14,
       <1>15, <1>16 DEF Next, OrderStep, GrantStep, EndStep

-----------------------------------------------------------------------------
(* Orders and invoices grant once *)

LEMMA RowsFromKept ==
    ASSUME RowsKept, NEW x
    PROVE  RowsFrom(x)' = RowsFrom(x)
BY DEF RowsKept, RowsFrom

LEMMA RowsFromInserted ==
    ASSUME NEW w, NEW p, NEW source, Inserted(w, p, source)
    PROVE  /\ RowsFrom(source)' = RowsFrom(source) \cup {Len(subs) + 1}
           /\ \A x : x # source => RowsFrom(x)' = RowsFrom(x)
BY DEF Inserted, RowsFrom

\* The parts of GrantsOnce.
OrderGrants(o) ==
    IF orders[o] = "success"
    THEN Cardinality(RowsFrom(o)) = 1 /\ o \in topups
    ELSE RowsFrom(o) = {} /\ o \notin topups

InvoiceGrants(v) == Cardinality(RowsFrom(v)) = (IF v \in invoices THEN 1 ELSE 0)

LEMMA GrantParts ==
    GrantsOnce <=> (\A o \in Orders : OrderGrants(o)) /\ (\A v \in Invoices : InvoiceGrants(v))
BY DEF GrantsOnce, OrderGrants, InvoiceGrants

\* The rows of an invoice that is not recorded: none.
LEMMA NoRows ==
    ASSUME TypeOK, NEW v, Cardinality(RowsFrom(v)) = 0
    PROVE  RowsFrom(v) = {}
<1>1. IsFiniteSet(DOMAIN subs)
    BY RowsFun, FS_Interval
<1>2. IsFiniteSet(RowsFrom(v))
    BY <1>1, FS_Subset DEF RowsFrom
<1> QED
    BY <1>2, FS_EmptySet

\* Steps that change neither sources nor statuses.
LEMMA GrantsSame ==
    ASSUME GrantsOnce, subs' = subs \/ RowsKept,
           \A o \in Orders : /\ orders'[o] = "success" <=> orders[o] = "success"
                             /\ o \in topups' <=> o \in topups,
           invoices' = invoices
    PROVE  GrantsOnce'
<1>1. \A x : RowsFrom(x)' = RowsFrom(x)
  <2>1. CASE subs' = subs
      BY <2>1 DEF RowsFrom
  <2>2. CASE RowsKept
      BY <2>2, RowsFromKept
  <2> QED
      BY <2>1, <2>2
<1> QED
    BY <1>1 DEF GrantsOnce

LEMMA GrantStepHolds ==
    ASSUME Base, OrderHeld, GrantsOnce, [Next]_vars
    PROVE  GrantsOnce'
<1>0. TypeOK
    BY DEF Base
<1>1. ASSUME NEW o \in Orders, RequestOrder(o) PROVE GrantsOnce'
    BY <1>0, <1>1, GrantsSame DEF RequestOrder, TypeOK
<1>2. ASSUME NEW w \in Workers, NEW o \in Orders, BeginComplete(w, o) PROVE GrantsOnce'
    BY <1>0, <1>2, CompleteBegins, GrantsSame DEF Begun
<1>3. ASSUME NEW w \in Workers, NEW o \in Orders, BeginExpireOrder(w, o) PROVE GrantsOnce'
    BY <1>0, <1>3, ExpireOrderBegins, GrantsSame DEF Begun
<1>4. ASSUME NEW w \in Workers, NEW p \in AdminPlans, AdminBindSubscription(w, p) PROVE GrantsOnce'
    BY <1>0, <1>4, BindBegins, GrantsSame DEF Begun
<1>5. ASSUME NEW w \in Workers, NEW v \in Invoices, CompleteStripeSubscriptionInvoice(w, v)
      PROVE  GrantsOnce'
    BY <1>0, <1>5, InvoiceBegins, GrantsSame DEF Begun
<1>6. ASSUME NEW w \in Workers, NEW i \in DOMAIN subs, AdminInvalidate(w, i) \/ AdminDelete(w, i)
      PROVE  GrantsOnce'
    BY <1>0, <1>6, EndBegins, GrantsSame DEF Begun
<1>7. ASSUME NEW w \in Workers, ExpireDueSubscriptions(w) PROVE GrantsOnce'
    BY <1>0, <1>7, SweepBegins, GrantsSame DEF Begun
<1>8. ASSUME NEW w \in Workers, CommitComplete(w) PROVE GrantsOnce'
  <2>0. PICK q : q = tx[w].arg
      OBVIOUS
  <2>1. /\ tx[w].op = "complete" /\ q \in Orders /\ Inserted(w, OrderPlan[q], q)
        /\ orders' = [orders EXCEPT ![q] = "success"]
        /\ topups' = topups \cup {q} /\ invoices' = invoices
      BY <1>8, <2>0, CompleteCommits
  <2>2. orders[q] = "pending" /\ RowsFrom(q) = {}
      BY <2>0, <2>1, NotOrderOps DEF OrderHeld, GrantsOnce
  <2>3. Cardinality(RowsFrom(q)') = 1
    <3>1. RowsFrom(q)' = {Len(subs) + 1}
        BY <2>1, <2>2, RowsFromInserted
    <3> QED
        BY <3>1, FS_Singleton
  <2>4. \A x : x # q => RowsFrom(x)' = RowsFrom(x)
      BY <2>1, RowsFromInserted
  <2>5. ASSUME NEW o \in Orders PROVE OrderGrants(o)'
    <3>1. CASE o = q
      <4>1. orders'[q] = "success" /\ q \in topups'
          BY <1>0, <2>1 DEF TypeOK
      <4> QED
          BY <2>3, <3>1, <4>1 DEF OrderGrants
    <3>2. CASE o # q
      <4>1. orders'[o] = orders[o] /\ (o \in topups' <=> o \in topups) /\ RowsFrom(o)' = RowsFrom(o)
          BY <1>0, <2>1, <2>4, <3>2 DEF TypeOK
      <4> QED
          BY <4>1, GrantParts DEF OrderGrants
    <3> QED
        BY <3>1, <3>2
  <2>6. ASSUME NEW v \in Invoices PROVE InvoiceGrants(v)'
    <3>1. v # q
        BY <2>1, PlanFacts
    <3> QED
        BY <2>1, <2>4, <3>1, GrantParts DEF InvoiceGrants
  <2> QED
      BY <2>5, <2>6 DEF GrantsOnce, OrderGrants, InvoiceGrants
<1>9. ASSUME NEW w \in Workers, CommitExpireOrder(w) PROVE GrantsOnce'
  <2>1. /\ tx[w].op = "expireOrder" /\ tx[w].arg \in Orders /\ UNCHANGED <<subs, topups, invoices>>
        /\ orders' = [orders EXCEPT ![tx[w].arg] = "expired"]
      BY <1>9, ExpireOrderCommits
  <2>2. orders[tx[w].arg] = "pending"
      BY <2>1, NotOrderOps DEF OrderHeld
  <2>3. \A o \in Orders : orders'[o] = "success" <=> orders[o] = "success"
      BY <1>0, <2>1, <2>2 DEF TypeOK
  <2> QED
      BY <2>1, <2>3, GrantsSame
<1>10. ASSUME NEW w \in Workers, CommitBind(w) PROVE GrantsOnce'
  <2>1. Inserted(w, tx[w].arg, Admin) /\ UNCHANGED <<orders, topups, invoices>>
      BY <1>10, BindCommits
  <2>2. \A x \in Orders \cup Invoices : RowsFrom(x)' = RowsFrom(x)
      BY <2>1, PlanFacts, RowsFromInserted
  <2> QED
      BY <2>1, <2>2 DEF GrantsOnce
<1>11. ASSUME NEW w \in Workers, CommitInvoice(w) PROVE GrantsOnce'
  <2>0. PICK q : q = tx[w].arg
      OBVIOUS
  <2>1. q \in Invoices /\ UNCHANGED <<orders, topups>>
      BY <1>11, <2>0, InvoiceCommits
  <2>2. CASE q \in invoices
      BY <1>11, <2>0, <2>1, <2>2, InvoiceCommits, GrantsSame
  <2>3. CASE q \notin invoices
    <3>1. invoices' = invoices \cup {q} /\ Inserted(w, InvoicePlan[q], q)
        BY <1>11, <2>0, <2>3, InvoiceCommits
    <3>2. RowsFrom(q) = {}
        BY <1>0, <2>1, <2>3, NoRows DEF GrantsOnce
    <3>3. Cardinality(RowsFrom(q)') = 1
      <4>1. RowsFrom(q)' = {Len(subs) + 1}
          BY <3>1, <3>2, RowsFromInserted
      <4> QED
          BY <4>1, FS_Singleton
    <3>4. \A x : x # q => RowsFrom(x)' = RowsFrom(x)
        BY <3>1, RowsFromInserted
    <3>5. ASSUME NEW v \in Invoices PROVE InvoiceGrants(v)'
      <4>1. CASE v = q
          BY <3>1, <3>3, <4>1 DEF InvoiceGrants
      <4>2. CASE v # q
          BY <3>1, <3>4, <4>2, GrantParts DEF InvoiceGrants
      <4> QED
          BY <4>1, <4>2
    <3>6. ASSUME NEW o \in Orders PROVE OrderGrants(o)'
      <4>1. o # q
          BY <2>1, PlanFacts
      <4> QED
          BY <2>1, <3>4, <4>1, GrantParts DEF OrderGrants
    <3> QED
        BY <3>5, <3>6 DEF GrantsOnce, OrderGrants, InvoiceGrants
  <2> QED
      BY <2>2, <2>3
<1>12. ASSUME NEW w \in Workers, CommitInvalidate(w) \/ CommitDelete(w) PROVE GrantsOnce'
    BY <1>12, EndCommits, GrantsSame
<1>13. ASSUME NEW w \in Workers, CommitSweep(w) PROVE GrantsOnce'
    BY <1>13, SweepCommits, GrantsSame
<1>14. ASSUME NEW w \in Workers, CacheStep(w) \/ TxFails(w) \/ CacheWriteFails(w) PROVE GrantsOnce'
    BY <1>0, <1>14, AsideSteps, GrantsSame DEF Aside
<1>15. ASSUME CacheExpires \/ Tick PROVE GrantsOnce'
    BY <1>15, GrantsSame DEF CacheExpires, Tick
<1>16. ASSUME UNCHANGED vars PROVE GrantsOnce'
    BY <1>16, GrantsSame DEF vars
<1> QED
    BY <1>1, <1>2, <1>3, <1>4, <1>5, <1>6, <1>7, <1>8, <1>9, <1>10, <1>11, <1>12, <1>13, <1>14,
       <1>15, <1>16 DEF Next, OrderStep, GrantStep, EndStep

LEMMA GrantAlways == Spec => []GrantInv
<1>1. Init => GrantInv
  <2> SUFFICES ASSUME Init PROVE OrderHeld /\ GrantsOnce
      BY InitBase DEF GrantInv
  <2>1. OrderHeld
      BY IdleFacts, NotOrderOps DEF Init, OrderHeld
  <2>2. \A x : RowsFrom(x) = {}
      BY DEF Init, RowsFrom
  <2>3. GrantsOnce
      BY <2>2, FS_EmptySet DEF Init, GrantsOnce
  <2> QED
      BY <2>1, <2>3
<1>2. GrantInv /\ [Next]_vars => GrantInv'
    BY BaseStep, HeldStep, GrantStepHolds DEF GrantInv
<1> QED
    BY <1>1, <1>2, PTL DEF Spec

LEMMA FinalStep ==
    ASSUME GrantInv, [Next]_vars, NEW o \in Orders, orders[o] \in {"success", "expired"}
    PROVE  orders'[o] = orders[o]
<1>0. Base /\ TypeOK /\ OrderHeld
    BY DEF GrantInv, Base
<1>1. ASSUME NEW q \in Orders, RequestOrder(q) PROVE orders'[o] = orders[o]
    BY <1>0, <1>1 DEF RequestOrder, TypeOK
<1>2. ASSUME NEW w \in Workers, CommitComplete(w) PROVE orders'[o] = orders[o]
  <2>1. /\ tx[w].op = "complete" /\ tx[w].arg \in Orders
        /\ orders' = [orders EXCEPT ![tx[w].arg] = "success"]
      BY <1>0, <1>2, CompleteCommits
  <2>2. tx[w].arg # o
      BY <1>0, <2>1, NotOrderOps DEF OrderHeld
  <2> QED
      BY <1>0, <2>1, <2>2 DEF TypeOK
<1>3. ASSUME NEW w \in Workers, CommitExpireOrder(w) PROVE orders'[o] = orders[o]
  <2>1. /\ tx[w].op = "expireOrder" /\ tx[w].arg \in Orders
        /\ orders' = [orders EXCEPT ![tx[w].arg] = "expired"]
      BY <1>0, <1>3, ExpireOrderCommits
  <2>2. tx[w].arg # o
      BY <1>0, <2>1, NotOrderOps DEF OrderHeld
  <2> QED
      BY <1>0, <2>1, <2>2 DEF TypeOK
<1>4. ASSUME NEW w \in Workers,
             \/ \E q \in Orders : BeginComplete(w, q) \/ BeginExpireOrder(w, q)
             \/ GrantStep(w)
      PROVE  orders' = orders
    BY <1>4 DEF BeginComplete, BeginExpireOrder, BeginCreate, Begin, GrantStep,
                AdminBindSubscription, CommitBind, CompleteStripeSubscriptionInvoice, CommitInvoice
<1>5. ASSUME NEW w \in Workers, EndStep(w) PROVE orders' = orders
    BY <1>5 DEF EndStep, AdminInvalidate, AdminDelete, CommitInvalidate, CommitDelete,
                ExpireDueSubscriptions, CommitSweep, Begin
<1>6. ASSUME NEW w \in Workers, CacheStep(w) \/ TxFails(w) \/ CacheWriteFails(w)
      PROVE  orders' = orders
    BY <1>0, <1>6, AsideSteps DEF Aside
<1>7. ASSUME CacheExpires \/ Tick \/ UNCHANGED vars PROVE orders' = orders
    BY <1>7 DEF CacheExpires, Tick, vars
<1> QED
    BY <1>1, <1>2, <1>3, <1>4, <1>5, <1>6, <1>7 DEF Next, OrderStep

-----------------------------------------------------------------------------
(* Transactions one at a time: decisions are still right when they commit *)

LEMMA NoTxOps ==
    /\ \A op \in {"idle", "cache", "populate"} :
          op \notin TxOps /\ op \notin CreateOps /\ op \notin EndOps
    /\ CreateOps \subseteq TxOps /\ EndOps \subseteq TxOps
BY DEF TxOps, CreateOps, EndOps

\* The same rows and the same group: the same decisions.
LEMMA SameDecisions ==
    ASSUME subs' = subs, group' = group
    PROVE  /\ \A i, t : DowngradeAt(i, t)' = DowngradeAt(i, t)
           /\ \A t : SweepAt(t)' = SweepAt(t)
           /\ \A p : ChangesGroup(p)' <=> ChangesGroup(p)
           /\ \A p : LimitReached(p)' <=> LimitReached(p)
<1>1. \A i, t : DowngradeAt(i, t)' = DowngradeAt(i, t)
    BY DEF DowngradeAt, Upgrades, InForce
<1>2. \A t : ExpiredUpgradesAt(t)' = ExpiredUpgradesAt(t)
    BY DEF ExpiredUpgradesAt, Upgrades, Due
<1>3. \A S : Latest(S)' = Latest(S)
    BY DEF Latest
<1>4. \A t : SweepAt(t)' = SweepAt(t)
    BY <1>2, <1>3 DEF SweepAt, Upgrades, InForce
<1>5. \A p : ChangesGroup(p)' <=> ChangesGroup(p)
    BY DEF ChangesGroup
<1>6. \A p : LimitReached(p)' <=> LimitReached(p)
    BY DEF LimitReached, CountUserSubscriptionsByPlan, Exists
<1> QED
    BY <1>1, <1>4, <1>5, <1>6

\* A decision that was right remains right while nobody commits.
LEMMA DecisionKept ==
    ASSUME Base, NEW v \in Workers, DecidedBy(tx[v]), tx'[v] = tx[v],
           subs' = subs, group' = group, now' \in Nat, now <= now'
    PROVE  DecidedBy(tx[v])'
<1>1. tx[v].time \in Nat /\ now \in Nat
    BY DEF Base, TypeOK, TxType
<1>2. PICK r : r = tx[v]
    OBVIOUS
<1>3. DecidedBy(r)
    BY <1>2
<1>4. r.time <= now'
    BY <1>1, <1>2, <1>3 DEF DecidedBy
<1>5. DecidedBy(r)'
    BY <1>3, <1>4, SameDecisions DEF DecidedBy, PlanOf
<1> QED
    BY <1>2, <1>5

\* A handler that is in no transaction has nothing decided.
LEMMA NothingDecided ==
    ASSUME NEW r, r.op \in {"idle", "cache", "populate"}, r.time <= now
    PROVE  DecidedBy(r)
BY NoTxOps DEF DecidedBy, TxOps, CreateOps, EndOps

LEMMA DecidedBegin ==
    ASSUME SerialTx, Base, Decided, NEW w \in Workers, NEW op, NEW arg, Begun(w, op, arg),
           DecidedBy(tx'[w])
    PROVE  Decided'
<1>1. \A v \in Workers : ~InTx(v)
    BY DEF Begun, CanBegin
<1>2. OneTx'
    BY <1>1 DEF OneTx, InTx, Begun
<1>3. subs' = subs /\ group' = group /\ now' = now /\ now \in Nat
    BY DEF Begun, Base, TypeOK
<1>4. ASSUME NEW v \in Workers PROVE DecidedBy(tx[v])'
  <2>1. CASE v = w
    <3>1. PICK r : r = tx'[w]
        OBVIOUS
    <3>2. DecidedBy(r)
        BY <3>1
    <3>3. DecidedBy(r)'
        BY <1>3, <3>2, SameDecisions DEF DecidedBy, PlanOf
    <3> QED
        BY <2>1, <3>1, <3>3
  <2>2. CASE v # w
      BY <1>3, <2>2, DecisionKept DEF Begun, Decided
  <2> QED
      BY <2>1, <2>2
<1> QED
    BY <1>2, <1>4 DEF Decided

\* A commit: there is no other transaction.
LEMMA DecidedEnd ==
    ASSUME Base, Base', Decided, NEW w \in Workers, InTx(w), Ended(w)
    PROVE  Decided'
<1>1. \A v \in Workers : v # w => ~InTx(v) /\ tx'[v] = tx[v]
    BY DEF Decided, OneTx, Ended
<1>2. ~InTx(w)'
    BY NoTxOps DEF Ended, InTx
<1>3. OneTx'
    BY <1>1, <1>2 DEF OneTx, InTx
<1>4. ASSUME NEW v \in Workers PROVE DecidedBy(tx[v])'
  <2>1. tx'[v].op \in {"idle", "cache", "populate"}
    <3>1. CASE v = w
        BY <3>1 DEF Ended
    <3>2. CASE v # w
        BY <1>1, <3>2 DEF InTx, Base, TypeOK, TxType
    <3> QED
        BY <3>1, <3>2
  <2>2. tx'[v].time <= now'
    <3>1. tx[v].time <= now /\ now' = now /\ now \in Nat
        BY DEF Decided, DecidedBy, Ended, Base, TypeOK
    <3>2. CASE v = w
        BY <3>1, <3>2 DEF Ended
    <3>3. CASE v # w
        BY <1>1, <3>1, <3>3
    <3> QED
        BY <3>2, <3>3
  <2> QED
      BY <2>1, <2>2, NoTxOps DEF DecidedBy, TxOps, CreateOps, EndOps
<1> QED
    BY <1>3, <1>4 DEF Decided

LEMMA DecidedSame ==
    ASSUME Base, Decided, tx' = tx, subs' = subs, group' = group, now' \in Nat, now <= now'
    PROVE  Decided'
<1>1. \A v \in Workers : DecidedBy(tx[v])'
    BY DecisionKept DEF Decided
<1>2. OneTx'
    BY DEF Decided, OneTx, InTx
<1> QED
    BY <1>1, <1>2 DEF Decided

LEMMA DecidedAside ==
    ASSUME Base, Decided, NEW w \in Workers, Aside(w)
    PROVE  Decided'
<1>1. now \in Nat /\ now' = now /\ subs' = subs /\ group' = group
    BY DEF Base, TypeOK, Aside
<1>2. tx'[w].op \in {"idle", "populate"} /\ tx'[w].time = 0
    BY DEF Aside
<1>3. ~InTx(w)' /\ \A v \in Workers : v # w => tx'[v] = tx[v]
    BY <1>2, NoTxOps DEF Aside, InTx
<1>4. OneTx'
    BY <1>3 DEF Decided, OneTx, InTx
<1>5. ASSUME NEW v \in Workers PROVE DecidedBy(tx[v])'
  <2>1. CASE v = w
      BY <1>1, <1>2, <2>1, NoTxOps DEF DecidedBy, TxOps, CreateOps, EndOps
  <2>2. CASE v # w
      BY <1>1, <1>3, <2>2, DecisionKept DEF Decided
  <2> QED
      BY <2>1, <2>2
<1> QED
    BY <1>4, <1>5 DEF Decided

LEMMA DecidedStep ==
    ASSUME SerialTx, Base, Base', Decided, [Next]_vars
    PROVE  Decided'
<1>0. TypeOK /\ now \in Nat /\ now <= now
    BY DEF Base, TypeOK
<1>1. ASSUME NEW o \in Orders, RequestOrder(o) PROVE Decided'
    BY <1>0, <1>1, DecidedSame DEF RequestOrder
<1>2. ASSUME NEW w \in Workers, NEW o \in Orders, BeginComplete(w, o) PROVE Decided'
  <2>1. Begun(w, "complete", o)
      BY <1>0, <1>2, CompleteBegins
  <2>2. tx'[w].op = "complete" /\ tx'[w].arg = o /\ tx'[w].time = now
      BY <2>1 DEF Begun
  <2>3. PlanOf(tx'[w]) = OrderPlan[o]
      BY <2>2 DEF PlanOf
  <2>4. DecidedBy(tx'[w])
      BY <1>0, <1>2, <2>2, <2>3, CompleteBegins DEF DecidedBy, EndOps
  <2> QED
      BY <2>1, <2>4, DecidedBegin
<1>3. ASSUME NEW w \in Workers, NEW o \in Orders, BeginExpireOrder(w, o) PROVE Decided'
  <2>1. Begun(w, "expireOrder", o) /\ tx'[w].newGroup = NoGroup
      BY <1>0, <1>3, ExpireOrderBegins
  <2>2. DecidedBy(tx'[w])
      BY <1>0, <2>1 DEF Begun, DecidedBy, EndOps, CreateOps
  <2> QED
      BY <2>1, <2>2, DecidedBegin
<1>4. ASSUME NEW w \in Workers, NEW p \in AdminPlans, AdminBindSubscription(w, p) PROVE Decided'
  <2>1. Begun(w, "bind", p)
      BY <1>0, <1>4, BindBegins
  <2>2. tx'[w].op = "bind" /\ tx'[w].arg = p /\ tx'[w].time = now
      BY <2>1 DEF Begun
  <2>3. PlanOf(tx'[w]) = p
      BY <2>2 DEF PlanOf
  <2>4. DecidedBy(tx'[w])
      BY <1>0, <1>4, <2>2, <2>3, BindBegins DEF DecidedBy, EndOps
  <2> QED
      BY <2>1, <2>4, DecidedBegin
<1>5. ASSUME NEW w \in Workers, NEW v \in Invoices, CompleteStripeSubscriptionInvoice(w, v)
      PROVE  Decided'
  <2>1. Begun(w, "invoice", v)
      BY <1>0, <1>5, InvoiceBegins
  <2>2. tx'[w].op = "invoice" /\ tx'[w].arg = v /\ tx'[w].time = now
      BY <2>1 DEF Begun
  <2>3. PlanOf(tx'[w]) = InvoicePlan[v]
      BY <2>2 DEF PlanOf
  <2>4. DecidedBy(tx'[w])
      BY <1>0, <1>5, <2>2, <2>3, InvoiceBegins DEF DecidedBy, EndOps
  <2> QED
      BY <2>1, <2>4, DecidedBegin
<1>6. ASSUME NEW w \in Workers, NEW i \in DOMAIN subs, AdminInvalidate(w, i) \/ AdminDelete(w, i)
      PROVE  Decided'
  <2>1. tx'[w].newGroup = DowngradeAt(i, now) /\ (Begun(w, "invalidate", i) \/ Begun(w, "delete", i))
      BY <1>0, <1>6, EndBegins
  <2>2. tx'[w].op \in EndOps /\ tx'[w].arg = i /\ tx'[w].time = now
      BY <2>1 DEF Begun, EndOps
  <2>3. DecidedBy(tx'[w])
      BY <1>0, <2>1, <2>2 DEF DecidedBy, EndOps, CreateOps
  <2> QED
      BY <2>1, <2>3, DecidedBegin
<1>7. ASSUME NEW w \in Workers, ExpireDueSubscriptions(w) PROVE Decided'
  <2>1. Begun(w, "sweep", Admin) /\ tx'[w].newGroup = SweepAt(now)
      BY <1>0, <1>7, SweepBegins
  <2>2. DecidedBy(tx'[w])
      BY <1>0, <2>1 DEF Begun, DecidedBy, EndOps, CreateOps
  <2> QED
      BY <2>1, <2>2, DecidedBegin
<1>8. ASSUME NEW w \in Workers, CommitComplete(w) PROVE Decided'
    BY <1>8, CompleteCommits, DecidedEnd DEF InTx, TxOps
<1>9. ASSUME NEW w \in Workers, CommitExpireOrder(w) PROVE Decided'
    BY <1>9, ExpireOrderCommits, DecidedEnd DEF InTx, TxOps
<1>10. ASSUME NEW w \in Workers, CommitBind(w) PROVE Decided'
    BY <1>10, BindCommits, DecidedEnd DEF InTx, TxOps
<1>11. ASSUME NEW w \in Workers, CommitInvoice(w) PROVE Decided'
    BY <1>11, InvoiceCommits, DecidedEnd DEF InTx, TxOps
<1>12. ASSUME NEW w \in Workers, CommitInvalidate(w) \/ CommitDelete(w) PROVE Decided'
    BY <1>12, EndCommits, DecidedEnd, NoTxOps DEF InTx
<1>13. ASSUME NEW w \in Workers, CommitSweep(w) PROVE Decided'
    BY <1>13, SweepCommits, DecidedEnd DEF InTx, TxOps
<1>14. ASSUME NEW w \in Workers, CacheStep(w) \/ TxFails(w) \/ CacheWriteFails(w) PROVE Decided'
    BY <1>0, <1>14, AsideSteps, DecidedAside
<1>15. ASSUME CacheExpires PROVE Decided'
    BY <1>0, <1>15, DecidedSame DEF CacheExpires
<1>16. ASSUME Tick PROVE Decided'
  <2>1. now' \in Nat /\ now <= now' /\ tx' = tx /\ subs' = subs /\ group' = group
      BY <1>0, <1>16 DEF Tick
  <2> QED
      BY <2>1, DecidedSame
<1>17. ASSUME UNCHANGED vars PROVE Decided'
    BY <1>0, <1>17, DecidedSame DEF vars
<1> QED
    BY <1>1, <1>2, <1>3, <1>4, <1>5, <1>6, <1>7, <1>8, <1>9, <1>10, <1>11, <1>12, <1>13, <1>14,
       <1>15, <1>16, <1>17 DEF Next, OrderStep, GrantStep, EndStep

LEMMA InitDecided == Init => Decided
<1> SUFFICES ASSUME Init PROVE Decided
    OBVIOUS
<1>1. \A w \in Workers : tx[w] = Idle
    BY DEF Init
<1>2. OneTx
    BY <1>1, IdleFacts, NoTxOps DEF OneTx, InTx
<1>3. DecidedBy(Idle)
    BY IdleFacts, NothingDecided DEF Init
<1> QED
    BY <1>1, <1>2, <1>3 DEF Decided

-----------------------------------------------------------------------------
(* Four kinds of steps, by what they do to rows and group *)

RowsUntouched == subs' = subs /\ group' = group /\ now' \in Nat /\ now <= now'

Creates(w) ==
    /\ tx[w].op \in CreateOps /\ PlanOf(tx[w]) \in Plans
    /\ Regrouped(w) /\ now' = now
    /\ \E source : /\ Inserted(w, PlanOf(tx[w]), source)
                   /\ source \in Invoices <=> tx[w].op = "invoice"

EndsOne(w) ==
    /\ tx[w].op \in EndOps /\ tx[w].arg \in DOMAIN subs
    /\ Regrouped(w) /\ RowsKept /\ now' = now
    /\ subs'[tx[w].arg].status # "active"
    /\ \A j \in DOMAIN subs : j # tx[w].arg => subs'[j] = subs[j]

EndsDue(w) ==
    /\ tx[w].op = "sweep"
    /\ Regrouped(w) /\ RowsKept /\ now' = now
    /\ \A j \in DOMAIN subs :
         /\ subs'[j].status = IF Due(j, tx[w].time) THEN "expired" ELSE subs[j].status
         /\ subs'[j].endTime = subs[j].endTime

LEMMA StepKinds ==
    ASSUME Base, [Next]_vars
    PROVE  RowsUntouched \/ \E w \in Workers : Creates(w) \/ EndsOne(w) \/ EndsDue(w)
<1>0. TypeOK /\ now \in Nat /\ now <= now
    BY DEF Base, TypeOK
<1>1. ASSUME NEW o \in Orders, RequestOrder(o) PROVE RowsUntouched
    BY <1>0, <1>1 DEF RequestOrder, RowsUntouched
<1>2. ASSUME NEW w \in Workers, NEW o \in Orders, BeginComplete(w, o) PROVE RowsUntouched
    BY <1>0, <1>2, CompleteBegins DEF Begun, RowsUntouched
<1>3. ASSUME NEW w \in Workers, NEW o \in Orders, BeginExpireOrder(w, o) PROVE RowsUntouched
    BY <1>0, <1>3, ExpireOrderBegins DEF Begun, RowsUntouched
<1>4. ASSUME NEW w \in Workers, NEW p \in AdminPlans, AdminBindSubscription(w, p)
      PROVE  RowsUntouched
    BY <1>0, <1>4, BindBegins DEF Begun, RowsUntouched
<1>5. ASSUME NEW w \in Workers, NEW v \in Invoices, CompleteStripeSubscriptionInvoice(w, v)
      PROVE  RowsUntouched
    BY <1>0, <1>5, InvoiceBegins DEF Begun, RowsUntouched
<1>6. ASSUME NEW w \in Workers, NEW i \in DOMAIN subs, AdminInvalidate(w, i) \/ AdminDelete(w, i)
      PROVE  RowsUntouched
    BY <1>0, <1>6, EndBegins DEF Begun, RowsUntouched
<1>7. ASSUME NEW w \in Workers, ExpireDueSubscriptions(w) PROVE RowsUntouched
    BY <1>0, <1>7, SweepBegins DEF Begun, RowsUntouched
<1>8. ASSUME NEW w \in Workers, CommitComplete(w) PROVE Creates(w)
  <2>1. /\ tx[w].op = "complete" /\ tx[w].arg \in Orders /\ Ended(w) /\ Regrouped(w)
        /\ Inserted(w, OrderPlan[tx[w].arg], tx[w].arg)
      BY <1>8, CompleteCommits
  <2>2. PlanOf(tx[w]) = OrderPlan[tx[w].arg] /\ tx[w].op \in CreateOps /\ now' = now
      BY <2>1 DEF PlanOf, CreateOps, Ended
  <2>3. OrderPlan[tx[w].arg] \in Plans /\ tx[w].arg \notin Invoices
      BY <2>1, PlanFacts
  <2> QED
      BY <2>1, <2>2, <2>3 DEF Creates
<1>9. ASSUME NEW w \in Workers, CommitExpireOrder(w) PROVE RowsUntouched
    BY <1>0, <1>9, ExpireOrderCommits DEF Ended, RowsUntouched
<1>10. ASSUME NEW w \in Workers, CommitBind(w) PROVE Creates(w)
  <2>1. /\ tx[w].op = "bind" /\ tx[w].arg \in Plans /\ Ended(w) /\ Regrouped(w)
        /\ Inserted(w, tx[w].arg, Admin)
      BY <1>10, BindCommits
  <2>2. PlanOf(tx[w]) = tx[w].arg /\ tx[w].op \in CreateOps /\ now' = now
      BY <2>1 DEF PlanOf, CreateOps, Ended
  <2>3. Admin \notin Invoices
      BY PlanFacts
  <2> QED
      BY <2>1, <2>2, <2>3 DEF Creates
<1>11. ASSUME NEW w \in Workers, CommitInvoice(w) PROVE RowsUntouched \/ Creates(w)
  <2>1. tx[w].op = "invoice" /\ tx[w].arg \in Invoices /\ Ended(w) /\ now' = now
      BY <1>11, InvoiceCommits DEF Ended
  <2>2. CASE tx[w].arg \in invoices
      BY <1>0, <1>11, <2>1, <2>2, InvoiceCommits DEF RowsUntouched
  <2>3. CASE tx[w].arg \notin invoices
    <3>1. Regrouped(w) /\ Inserted(w, InvoicePlan[tx[w].arg], tx[w].arg)
        BY <1>11, <2>3, InvoiceCommits
    <3>2. PlanOf(tx[w]) = InvoicePlan[tx[w].arg] /\ tx[w].op \in CreateOps
        BY <2>1 DEF PlanOf, CreateOps
    <3>3. InvoicePlan[tx[w].arg] \in Plans
        BY <2>1, PlanFacts
    <3> QED
        BY <2>1, <3>1, <3>2, <3>3 DEF Creates
  <2> QED
      BY <2>2, <2>3
<1>12. ASSUME NEW w \in Workers, CommitInvalidate(w) \/ CommitDelete(w) PROVE EndsOne(w)
    BY <1>12, EndCommits DEF EndsOne, Ended
<1>13. ASSUME NEW w \in Workers, CommitSweep(w) PROVE EndsDue(w)
    BY <1>13, SweepCommits DEF EndsDue, Ended
<1>14. ASSUME NEW w \in Workers, CacheStep(w) \/ TxFails(w) \/ CacheWriteFails(w)
       PROVE  RowsUntouched
    BY <1>0, <1>14, AsideSteps DEF Aside, RowsUntouched
<1>15. ASSUME CacheExpires PROVE RowsUntouched
    BY <1>0, <1>15 DEF CacheExpires, RowsUntouched
<1>16. ASSUME Tick PROVE RowsUntouched
    BY <1>0, <1>16 DEF Tick, RowsUntouched
<1>17. ASSUME UNCHANGED vars PROVE RowsUntouched
    BY <1>0, <1>17 DEF vars, RowsUntouched
<1> QED
    BY <1>1, <1>2, <1>3, <1>4, <1>5, <1>6, <1>7, <1>8, <1>9, <1>10, <1>11, <1>12, <1>13, <1>14,
       <1>15, <1>16, <1>17 DEF Next, OrderStep, GrantStep, EndStep

-----------------------------------------------------------------------------
(* The purchase limit *)

RowsOfPlan(p) == {i \in DOMAIN subs : Exists(i) /\ subs[i].plan = p}

LEMMA PurchasedFinite ==
    ASSUME TypeOK, NEW p
    PROVE  /\ IsFiniteSet(Purchased(p)) /\ Cardinality(Purchased(p)) \in Nat
           /\ Cardinality(Purchased(p)) <= CountUserSubscriptionsByPlan(p)
           /\ CountUserSubscriptionsByPlan(p) \in Nat
<1>1. IsFiniteSet(DOMAIN subs)
    BY RowsFun, FS_Interval
<1>2. IsFiniteSet(RowsOfPlan(p))
    BY <1>1, FS_Subset DEF RowsOfPlan
<1>3. Purchased(p) \subseteq RowsOfPlan(p)
    BY DEF Purchased, RowsOfPlan
<1>4. IsFiniteSet(Purchased(p)) /\ Cardinality(Purchased(p)) <= Cardinality(RowsOfPlan(p))
    BY <1>2, <1>3, FS_Subset
<1>5. CountUserSubscriptionsByPlan(p) = Cardinality(RowsOfPlan(p))
    BY DEF CountUserSubscriptionsByPlan, RowsOfPlan
<1> QED
    BY <1>2, <1>4, <1>5, FS_CardinalityType

LEMMA LimitStep ==
    ASSUME Base, Decided, StrictLimit, [Next]_vars
    PROVE  StrictLimit'
<1>0. TypeOK
    BY DEF Base
<1>1. SUFFICES ASSUME NEW p \in Plans, MaxPurchase[p] > 0
               PROVE  Cardinality(Purchased(p)') <= MaxPurchase[p]
    BY DEF StrictLimit
<1>2. Cardinality(Purchased(p)) <= MaxPurchase[p] /\ MaxPurchase[p] \in Nat
    BY <1>1, PlanFacts DEF StrictLimit
<1>3. CASE RowsUntouched
  <2>1. Purchased(p)' = Purchased(p)
      BY <1>3 DEF RowsUntouched, Purchased, Exists
  <2> QED
      BY <1>2, <2>1
<1>4. ASSUME NEW w \in Workers, Creates(w)
      PROVE  Cardinality(Purchased(p)') <= MaxPurchase[p]
  <2>1. PICK source : /\ Inserted(w, PlanOf(tx[w]), source)
                      /\ source \in Invoices <=> tx[w].op = "invoice"
      BY <1>4 DEF Creates
  <2> DEFINE n == Len(subs) + 1
  <2>2. CASE tx[w].op = "invoice" \/ PlanOf(tx[w]) # p
    <3>1. Purchased(p)' = Purchased(p)
        BY <2>1, <2>2 DEF Inserted, Purchased, Exists
    <3> QED
        BY <1>2, <3>1
  <2>3. CASE tx[w].op # "invoice" /\ PlanOf(tx[w]) = p
    <3>1. tx[w].op \in {"complete", "bind"}
        BY <1>4, <2>3 DEF Creates, CreateOps
    <3>2. ~LimitReached(p)
        BY <2>3, <3>1 DEF Decided, DecidedBy
    <3>3. CountUserSubscriptionsByPlan(p) < MaxPurchase[p]
        BY <1>0, <1>1, <1>2, <3>2, PurchasedFinite DEF LimitReached
    <3>4. Purchased(p)' = Purchased(p) \cup {n}
        BY <2>1, <2>3 DEF Inserted, Purchased, Exists
    <3>5. n \notin Purchased(p)
        BY <2>1 DEF Inserted, Purchased
    <3>6. Cardinality(Purchased(p)') = Cardinality(Purchased(p)) + 1
        BY <1>0, <3>4, <3>5, PurchasedFinite, FS_AddElement
    <3> QED
        BY <1>0, <1>2, <3>3, <3>6, PurchasedFinite
  <2> QED
      BY <2>2, <2>3
<1>5. ASSUME RowsKept PROVE Cardinality(Purchased(p)') <= MaxPurchase[p]
  <2>1. Purchased(p)' \subseteq Purchased(p)
      BY <1>5 DEF RowsKept, Purchased, Exists
  <2>2. IsFiniteSet(Purchased(p)')
      BY <1>0, <2>1, PurchasedFinite, FS_Subset
  <2>3. Cardinality(Purchased(p)') \in Nat /\ Cardinality(Purchased(p)') <= Cardinality(Purchased(p))
      BY <1>0, <2>1, <2>2, PurchasedFinite, FS_Subset, FS_CardinalityType
  <2> QED
      BY <1>0, <1>2, <2>3, PurchasedFinite
<1> QED
    BY <1>3, <1>4, <1>5, StepKinds DEF EndsOne, EndsDue

LEMMA SerialAlways ==
    ASSUME SerialTx
    PROVE  Spec => []SerialInv
<1>1. Init => SerialInv
  <2> SUFFICES ASSUME Init PROVE StrictLimit
      BY InitBase, InitDecided DEF SerialInv
  <2>1. \A p : Purchased(p) = {}
      BY DEF Init, Purchased
  <2> QED
      BY <2>1, FS_EmptySet, PlanFacts DEF StrictLimit
<1>2. SerialInv /\ [Next]_vars => SerialInv'
    BY BaseStep, DecidedStep, LimitStep DEF SerialInv
<1> QED
    BY <1>1, <1>2, PTL DEF Spec

\* What a step does to the purchases of p and to those who are about to add one.
LimitKinds(p) ==
    \/ Purchased(p)' \subseteq Purchased(p) /\ Granting(p)' \subseteq Granting(p)
    \/ Purchased(p)' \subseteq Purchased(p) /\ ~LimitReached(p)
    \/ \E w \in Granting(p) : \E n :
          /\ n \notin Purchased(p) /\ Purchased(p)' = Purchased(p) \cup {n}
          /\ Granting(p)' \subseteq Granting(p) \ {w}

LEMMA BegunKinds ==
    ASSUME Base, NEW w \in Workers, NEW op, NEW arg, Begun(w, op, arg), NEW p \in Plans,
           op \notin {"complete", "bind"}
    PROVE  LimitKinds(p)
<1>1. tx'[w].op = op /\ (\A v \in Workers : v # w => tx'[v] = tx[v]) /\ subs' = subs
    BY DEF Begun
<1>2. Purchased(p)' = Purchased(p)
    BY <1>1 DEF Purchased, Exists
<1>3. Granting(p)' \subseteq Granting(p)
    BY <1>1 DEF Granting, PlanOf
<1> QED
    BY <1>2, <1>3 DEF LimitKinds

\* A handler that has begun to grant has found the limit not reached.
LEMMA GrantBegunKinds ==
    ASSUME Base, NEW w \in Workers, NEW op \in {"complete", "bind"}, NEW arg, Begun(w, op, arg),
           NEW p \in Plans, NEW q, ~LimitReached(q), PlanOf(tx'[w]) = q
    PROVE  LimitKinds(p)
<1>1. tx'[w].op = op /\ (\A v \in Workers : v # w => tx'[v] = tx[v]) /\ subs' = subs
    BY DEF Begun
<1>2. Purchased(p)' = Purchased(p)
    BY <1>1 DEF Purchased, Exists
<1>3. CASE q = p
    BY <1>2, <1>3 DEF LimitKinds
<1>4. CASE q # p
  <2>1. Granting(p)' \subseteq Granting(p)
      BY <1>1, <1>4 DEF Granting, PlanOf
  <2> QED
      BY <1>2, <2>1 DEF LimitKinds
<1> QED
    BY <1>3, <1>4

\* A handler whose transaction is over grants nothing more.
LEMMA EndedGrants ==
    ASSUME NEW w \in Workers, tx'[w].op \in {"idle", "cache", "populate"},
           \A v \in Workers : v # w => tx'[v] = tx[v], NEW p
    PROVE  Granting(p)' \subseteq Granting(p) \ {w}
BY DEF Granting, PlanOf

LEMMA KeptKinds ==
    ASSUME NEW w \in Workers, tx'[w].op \in {"idle", "cache", "populate"},
           \A v \in Workers : v # w => tx'[v] = tx[v], NEW p,
           Purchased(p)' \subseteq Purchased(p)
    PROVE  LimitKinds(p)
BY EndedGrants DEF LimitKinds

LEMMA InsertedKinds ==
    ASSUME Base, NEW w \in Workers, Ended(w), NEW p \in Plans, NEW q, NEW source,
           Inserted(w, q, source), PlanOf(tx[w]) = q,
           \/ tx[w].op \in {"complete", "bind"}
           \/ source \in Invoices
    PROVE  LimitKinds(p)
<1> DEFINE n == Len(subs) + 1
<1>1. tx'[w].op \in {"idle", "cache"} /\ \A v \in Workers : v # w => tx'[v] = tx[v]
    BY DEF Ended
<1>2. Granting(p)' \subseteq Granting(p) \ {w}
    BY <1>1, EndedGrants
<1>3. CASE source \in Invoices \/ q # p
  <2>1. Purchased(p)' = Purchased(p)
      BY <1>3 DEF Inserted, Purchased, Exists
  <2> QED
      BY <1>2, <2>1 DEF LimitKinds
<1>4. CASE source \notin Invoices /\ q = p
  <2>1. w \in Granting(p)
      BY <1>4 DEF Granting
  <2>2. n \notin Purchased(p) /\ Purchased(p)' = Purchased(p) \cup {n}
      BY <1>4 DEF Inserted, Purchased, Exists
  <2> QED
      BY <1>2, <2>1, <2>2 DEF LimitKinds
<1> QED
    BY <1>3, <1>4

LEMMA EveryLimitKind ==
    ASSUME Base, [Next]_vars, NEW p \in Plans
    PROVE  LimitKinds(p)
<1>0. TypeOK
    BY DEF Base
<1>1. ASSUME subs' = subs, tx' = tx PROVE LimitKinds(p)
    BY <1>1 DEF LimitKinds, Purchased, Exists, Granting
<1>2. CASE (\E o \in Orders : RequestOrder(o)) \/ CacheExpires \/ Tick \/ UNCHANGED vars
    BY <1>1, <1>2 DEF RequestOrder, CacheExpires, Tick, vars
<1>3. ASSUME NEW w \in Workers, NEW o \in Orders, BeginComplete(w, o) PROVE LimitKinds(p)
  <2>1. Begun(w, "complete", o) /\ ~LimitReached(OrderPlan[o])
      BY <1>0, <1>3, CompleteBegins
  <2>2. PlanOf(tx'[w]) = OrderPlan[o]
      BY <2>1 DEF Begun, PlanOf
  <2> QED
      BY <2>1, <2>2, GrantBegunKinds
<1>4. ASSUME NEW w \in Workers, NEW q \in AdminPlans, AdminBindSubscription(w, q)
      PROVE  LimitKinds(p)
  <2>1. Begun(w, "bind", q) /\ ~LimitReached(q)
      BY <1>0, <1>4, BindBegins
  <2>2. PlanOf(tx'[w]) = q
      BY <2>1 DEF Begun, PlanOf
  <2> QED
      BY <2>1, <2>2, GrantBegunKinds
<1>5. ASSUME NEW w \in Workers, NEW o \in Orders, BeginExpireOrder(w, o) PROVE LimitKinds(p)
    BY <1>0, <1>5, ExpireOrderBegins, BegunKinds
<1>6. ASSUME NEW w \in Workers, NEW v \in Invoices, CompleteStripeSubscriptionInvoice(w, v)
      PROVE  LimitKinds(p)
    BY <1>0, <1>6, InvoiceBegins, BegunKinds
<1>7. ASSUME NEW w \in Workers, NEW i \in DOMAIN subs, AdminInvalidate(w, i) \/ AdminDelete(w, i)
      PROVE  LimitKinds(p)
  <2>1. Begun(w, "invalidate", i) \/ Begun(w, "delete", i)
      BY <1>0, <1>7, EndBegins
  <2> QED
      BY <2>1, BegunKinds
<1>8. ASSUME NEW w \in Workers, ExpireDueSubscriptions(w) PROVE LimitKinds(p)
    BY <1>0, <1>8, SweepBegins, BegunKinds
<1>9. ASSUME NEW w \in Workers, CommitComplete(w) PROVE LimitKinds(p)
  <2>1. /\ tx[w].op = "complete" /\ Ended(w)
        /\ Inserted(w, OrderPlan[tx[w].arg], tx[w].arg)
      BY <1>9, CompleteCommits
  <2>2. PlanOf(tx[w]) = OrderPlan[tx[w].arg]
      BY <2>1 DEF PlanOf
  <2> QED
      BY <2>1, <2>2, InsertedKinds
<1>10. ASSUME NEW w \in Workers, CommitBind(w) PROVE LimitKinds(p)
  <2>1. tx[w].op = "bind" /\ Ended(w) /\ Inserted(w, tx[w].arg, Admin)
      BY <1>10, BindCommits
  <2>2. PlanOf(tx[w]) = tx[w].arg
      BY <2>1 DEF PlanOf
  <2> QED
      BY <2>1, <2>2, InsertedKinds
<1>11. ASSUME NEW w \in Workers, CommitInvoice(w) PROVE LimitKinds(p)
  <2>1. tx[w].op = "invoice" /\ tx[w].arg \in Invoices /\ Ended(w)
      BY <1>11, InvoiceCommits
  <2>2. CASE tx[w].arg \in invoices
    <3>1. subs' = subs
        BY <1>11, <2>2, InvoiceCommits
    <3>2. Purchased(p)' \subseteq Purchased(p)
        BY <3>1 DEF Purchased, Exists
    <3> QED
        BY <2>1, <3>2, KeptKinds DEF Ended
  <2>3. CASE tx[w].arg \notin invoices
    <3>1. Inserted(w, InvoicePlan[tx[w].arg], tx[w].arg)
        BY <1>11, <2>3, InvoiceCommits
    <3>2. PlanOf(tx[w]) = InvoicePlan[tx[w].arg]
        BY <2>1 DEF PlanOf
    <3> QED
        BY <2>1, <3>1, <3>2, InsertedKinds
  <2> QED
      BY <2>2, <2>3
<1>12. ASSUME NEW w \in Workers, Ended(w), RowsKept PROVE LimitKinds(p)
  <2>1. Purchased(p)' \subseteq Purchased(p)
      BY <1>12 DEF RowsKept, Purchased, Exists
  <2> QED
      BY <1>12, <2>1, KeptKinds DEF Ended
<1>13. ASSUME NEW w \in Workers, CommitInvalidate(w) \/ CommitDelete(w) PROVE LimitKinds(p)
    BY <1>12, <1>13, EndCommits
<1>14. ASSUME NEW w \in Workers, CommitSweep(w) PROVE LimitKinds(p)
    BY <1>12, <1>14, SweepCommits
<1>15. ASSUME NEW w \in Workers, CommitExpireOrder(w) PROVE LimitKinds(p)
  <2>1. Ended(w) /\ subs' = subs
      BY <1>15, ExpireOrderCommits
  <2>2. Purchased(p)' \subseteq Purchased(p)
      BY <2>1 DEF Purchased, Exists
  <2> QED
      BY <2>1, <2>2, KeptKinds DEF Ended
<1>16. ASSUME NEW w \in Workers, CacheStep(w) \/ TxFails(w) \/ CacheWriteFails(w)
       PROVE  LimitKinds(p)
  <2>1. Aside(w)
      BY <1>0, <1>16, AsideSteps
  <2>2. Purchased(p)' \subseteq Purchased(p)
      BY <2>1 DEF Aside, Purchased, Exists
  <2> QED
      BY <2>1, <2>2, KeptKinds DEF Aside
<1> QED
    BY <1>2, <1>3, <1>4, <1>5, <1>6, <1>7, <1>8, <1>9, <1>10, <1>11, <1>13, <1>14, <1>15, <1>16
    DEF Next, OrderStep, GrantStep, EndStep

LEMMA GrantingFinite ==
    ASSUME IsFiniteSet(Workers), NEW p
    PROVE  /\ IsFiniteSet(Granting(p)) /\ Cardinality(Granting(p)) \in Nat
           /\ Cardinality(Workers) \in Nat /\ Cardinality(Granting(p)) <= Cardinality(Workers)
<1>1. Granting(p) \subseteq Workers
    BY DEF Granting
<1> QED
    BY <1>1, FS_Subset, FS_CardinalityType

LEMMA GrantingStaysFinite ==
    ASSUME IsFiniteSet(Workers), NEW p
    PROVE  /\ IsFiniteSet(Granting(p)') /\ Cardinality(Granting(p)') \in Nat
           /\ Cardinality(Granting(p)') <= Cardinality(Workers)
<1>1. Granting(p)' \subseteq Workers
    BY DEF Granting
<1> QED
    BY <1>1, FS_Subset, FS_CardinalityType

LEMMA Fewer ==
    ASSUME NEW S, IsFiniteSet(S), NEW T, T \subseteq S
    PROVE  Cardinality(T) \in Nat /\ Cardinality(S) \in Nat /\ Cardinality(T) <= Cardinality(S)
BY FS_Subset, FS_CardinalityType

LEMMA CrowdStep ==
    ASSUME IsFiniteSet(Workers), Base, CrowdLimit, [Next]_vars
    PROVE  CrowdLimit'
<1>0. TypeOK
    BY DEF Base
<1>1. SUFFICES ASSUME NEW p \in Plans, MaxPurchase[p] > 0
               PROVE  Cardinality(Purchased(p)') + Cardinality(Granting(p)')
                          <= MaxPurchase[p] + (Cardinality(Workers) - 1)
    BY DEF CrowdLimit
<1>2. /\ Cardinality(Purchased(p)) + Cardinality(Granting(p))
             <= MaxPurchase[p] + (Cardinality(Workers) - 1)
      /\ MaxPurchase[p] \in Nat
    BY <1>1, PlanFacts DEF CrowdLimit
<1>3. /\ IsFiniteSet(Purchased(p)) /\ Cardinality(Purchased(p)) \in Nat
      /\ Cardinality(Purchased(p)) <= CountUserSubscriptionsByPlan(p)
      /\ CountUserSubscriptionsByPlan(p) \in Nat
    BY <1>0, PurchasedFinite
<1>4. /\ IsFiniteSet(Granting(p)) /\ Cardinality(Granting(p)) \in Nat
      /\ Cardinality(Granting(p)') \in Nat /\ Cardinality(Workers) \in Nat
      /\ Cardinality(Granting(p)') <= Cardinality(Workers)
    BY GrantingFinite, GrantingStaysFinite
<1>5. CASE Purchased(p)' \subseteq Purchased(p) /\ Granting(p)' \subseteq Granting(p)
  <2>1. /\ Cardinality(Purchased(p)') \in Nat
        /\ Cardinality(Purchased(p)') <= Cardinality(Purchased(p))
        /\ Cardinality(Granting(p)') <= Cardinality(Granting(p))
      BY <1>3, <1>4, <1>5, Fewer
  <2> QED
      BY <1>2, <1>3, <1>4, <2>1
<1>6. CASE Purchased(p)' \subseteq Purchased(p) /\ ~LimitReached(p)
  <2>1. /\ Cardinality(Purchased(p)') \in Nat
        /\ Cardinality(Purchased(p)') <= Cardinality(Purchased(p))
      BY <1>3, <1>6, Fewer
  <2>2. CountUserSubscriptionsByPlan(p) < MaxPurchase[p]
      BY <1>1, <1>2, <1>3, <1>6 DEF LimitReached
  <2> QED
      BY <1>2, <1>3, <1>4, <2>1, <2>2
<1>7. ASSUME NEW w \in Granting(p), NEW n, n \notin Purchased(p),
             Purchased(p)' = Purchased(p) \cup {n}, Granting(p)' \subseteq Granting(p) \ {w}
      PROVE  Cardinality(Purchased(p)') + Cardinality(Granting(p)')
                 <= MaxPurchase[p] + (Cardinality(Workers) - 1)
  <2>1. Cardinality(Purchased(p)') = Cardinality(Purchased(p)) + 1
      BY <1>3, <1>7, FS_AddElement
  <2>2. /\ IsFiniteSet(Granting(p) \ {w})
        /\ Cardinality(Granting(p) \ {w}) = Cardinality(Granting(p)) - 1
      BY <1>4, FS_RemoveElement
  <2>3. Cardinality(Granting(p)') <= Cardinality(Granting(p) \ {w})
      BY <1>7, <2>2, Fewer
  <2> QED
      BY <1>2, <1>3, <1>4, <2>1, <2>2, <2>3
<1> QED
    BY <1>5, <1>6, <1>7, EveryLimitKind DEF LimitKinds

LEMMA CrowdAlways ==
    ASSUME IsFiniteSet(Workers)
    PROVE  Spec => [](Base /\ CrowdLimit)
<1>1. Init => Base /\ CrowdLimit
  <2> SUFFICES ASSUME Init, NEW p \in Plans, MaxPurchase[p] > 0
               PROVE  Cardinality(Purchased(p)) + Cardinality(Granting(p))
                          <= MaxPurchase[p] + (Cardinality(Workers) - 1)
      BY InitBase DEF CrowdLimit
  <2>1. Purchased(p) = {} /\ Granting(p) = {}
      BY IdleFacts DEF Init, Purchased, Granting
  <2>2. Cardinality(Workers) \in Nat /\ MaxPurchase[p] \in Nat
      BY PlanFacts, FS_CardinalityType
  <2> QED
      BY <2>1, <2>2, FS_EmptySet
<1>2. (Base /\ CrowdLimit) /\ [Next]_vars => (Base /\ CrowdLimit)'
    BY BaseStep, CrowdStep
<1> QED
    BY <1>1, <1>2, PTL DEF Spec

-----------------------------------------------------------------------------
(* The group *)

LEMMA RowGroupsStep ==
    ASSUME Base, RowGroups, [Next]_vars
    PROVE  RowGroups'
<1>1. CASE RowsUntouched
    BY <1>1 DEF RowsUntouched, RowGroups
<1>2. ASSUME NEW w \in Workers, Creates(w) PROVE RowGroups'
    BY <1>2 DEF Creates, Inserted, RowGroups
<1>3. ASSUME RowsKept PROVE RowGroups'
    BY <1>3 DEF RowsKept, RowGroups
<1> QED
    BY <1>1, <1>2, <1>3, StepKinds DEF EndsOne, EndsDue

\* What is in force later is in force earlier.
LEMMA InForceEarlier ==
    ASSUME TypeOK, NEW i \in DOMAIN subs, NEW t \in Nat, NEW u \in Nat, t <= u, InForce(i, u)
    PROVE  InForce(i, t)
<1>1. subs[i].endTime \in Nat
    BY RowsFun DEF RowType
<1> QED
    BY <1>1 DEF InForce

\* Ending rows brings none in force.
LEMMA InForceKept ==
    ASSUME RowsKept, now' = now, NEW i \in DOMAIN subs, Upgrades(i)', InForce(i, now)'
    PROVE  Upgrades(i) /\ InForce(i, now)
BY DEF RowsKept, Upgrades, InForce

LEMMA HeldGroupStep ==
    ASSUME RealUpgrades, Base, Decided, GroupHeld, [Next]_vars
    PROVE  GroupHeld'
<1>0. TypeOK /\ now \in Nat
    BY DEF Base, TypeOK
<1>t. \A w \in Workers : tx[w].time \in Nat /\ tx[w].time <= now
    BY DEF Base, TypeOK, TxType, Decided, DecidedBy
<1>1. CASE RowsUntouched
  <2>1. SUFFICES ASSUME NEW i \in DOMAIN subs', Upgrades(i)', InForce(i, now)'
                 PROVE  group' # BaseGroup
      BY DEF GroupHeld
  <2>2. i \in DOMAIN subs /\ Upgrades(i) /\ InForce(i, now')
      BY <1>1, <2>1 DEF RowsUntouched, Upgrades, InForce
  <2>3. InForce(i, now)
      BY <1>0, <1>1, <2>2, InForceEarlier DEF RowsUntouched
  <2> QED
      BY <1>1, <2>2, <2>3 DEF RowsUntouched, GroupHeld
<1>2. ASSUME NEW w \in Workers, Creates(w) PROVE GroupHeld'
  <2>0. PICK p \in Plans : p = PlanOf(tx[w])
      BY <1>2 DEF Creates
  <2>1. PICK source : Inserted(w, p, source)
      BY <1>2, <2>0 DEF Creates
  <2>2. IF ChangesGroup(p) THEN tx[w].newGroup = UpgradeGroup[p] ELSE tx[w].newGroup = NoGroup
      BY <1>2, <2>0 DEF Creates, Decided, DecidedBy
  <2>3. UpgradeGroup[p] # BaseGroup
      BY DEF RealUpgrades
  <2>4. CASE ChangesGroup(p)
    <3>1. group' = UpgradeGroup[p]
        BY <1>2, <2>2, <2>4 DEF Creates, Regrouped, ChangesGroup
    <3> QED
        BY <2>3, <3>1 DEF GroupHeld
  <2>5. CASE ~ChangesGroup(p)
    <3>1. group' = group
        BY <1>2, <2>2, <2>5 DEF Creates, Regrouped
    <3>2. CASE UpgradeGroup[p] # NoGroup
        BY <2>3, <2>5, <3>1, <3>2 DEF ChangesGroup, GroupHeld
    <3>3. CASE UpgradeGroup[p] = NoGroup
      <4>1. SUFFICES ASSUME NEW i \in DOMAIN subs', Upgrades(i)', InForce(i, now)'
                     PROVE  group' # BaseGroup
          BY DEF GroupHeld
      <4>2. i \in DOMAIN subs /\ subs'[i] = subs[i]
          BY <2>1, <3>3, <4>1 DEF Inserted, Upgrades
      <4>3. Upgrades(i) /\ InForce(i, now)
          BY <1>2, <4>1, <4>2 DEF Creates, Upgrades, InForce
      <4> QED
          BY <3>1, <4>2, <4>3 DEF GroupHeld
    <3> QED
        BY <3>2, <3>3
  <2> QED
      BY <2>4, <2>5
<1>3. ASSUME NEW w \in Workers, EndsOne(w) PROVE GroupHeld'
  <2>1. SUFFICES ASSUME NEW i \in DOMAIN subs', Upgrades(i)', InForce(i, now)'
                 PROVE  group' # BaseGroup
      BY DEF GroupHeld
  <2>2. RowsKept /\ Regrouped(w) /\ now' = now /\ i \in DOMAIN subs
      BY <1>3, <2>1 DEF EndsOne, RowsKept
  <2>3. Upgrades(i) /\ InForce(i, now)
      BY <2>1, <2>2, InForceKept
  <2>4. i # tx[w].arg
      BY <1>3, <2>1 DEF EndsOne, InForce
  <2>5. InForce(i, tx[w].time)
      BY <1>0, <1>t, <2>2, <2>3, InForceEarlier
  <2>6. tx[w].newGroup = NoGroup
      BY <1>3, <2>2, <2>3, <2>4, <2>5 DEF EndsOne, Decided, DecidedBy, DowngradeAt
  <2> QED
      BY <2>2, <2>3, <2>6 DEF Regrouped, GroupHeld
<1>4. ASSUME NEW w \in Workers, EndsDue(w) PROVE GroupHeld'
  <2>1. SUFFICES ASSUME NEW i \in DOMAIN subs', Upgrades(i)', InForce(i, now)'
                 PROVE  group' # BaseGroup
      BY DEF GroupHeld
  <2>2. RowsKept /\ Regrouped(w) /\ now' = now /\ i \in DOMAIN subs
      BY <1>4, <2>1 DEF EndsDue, RowsKept
  <2>3. Upgrades(i) /\ InForce(i, now)
      BY <2>1, <2>2, InForceKept
  <2>4. InForce(i, tx[w].time)
      BY <1>0, <1>t, <2>2, <2>3, InForceEarlier
  <2>5. tx[w].newGroup = NoGroup
      BY <1>4, <2>2, <2>3, <2>4 DEF EndsDue, Decided, DecidedBy, SweepAt
  <2> QED
      BY <2>2, <2>3, <2>5 DEF Regrouped, GroupHeld
<1> QED
    BY <1>1, <1>2, <1>3, <1>4, StepKinds

\* Ending rows changes nothing in which of them upgrade.
LEMMA UpgradesKept ==
    ASSUME RowsKept
    PROVE  \A i \in DOMAIN subs : (Upgrades(i)' <=> Upgrades(i)) /\ (OnlyUpgrade(i)' <=> OnlyUpgrade(i))
BY DEF RowsKept, Upgrades, OnlyUpgrade

LEMMA FirstUpgradeStep ==
    ASSUME RealUpgrades, Base, Base', RowGroups, Decided, FirstUpgrade, [Next]_vars
    PROVE  FirstUpgrade'
<1>0. TypeOK /\ now \in Nat
    BY DEF Base, TypeOK
<1>r. \A i \in DOMAIN subs : subs[i].upgradeGroup # BaseGroup /\ subs[i].endTime \in Nat
    BY <1>0, RowsFun DEF RowType, RowGroups, RealUpgrades
<1>1. CASE RowsUntouched
    BY <1>1 DEF RowsUntouched, FirstUpgrade, OnlyUpgrade, Upgrades
<1>2. ASSUME NEW w \in Workers, Creates(w) PROVE FirstUpgrade'
  <2>0. PICK p \in Plans : p = PlanOf(tx[w])
      BY <1>2 DEF Creates
  <2>1. PICK source : Inserted(w, p, source)
      BY <1>2, <2>0 DEF Creates
  <2>2. IF ChangesGroup(p) THEN tx[w].newGroup = UpgradeGroup[p] /\ tx[w].prev = group
                           ELSE tx[w].newGroup = NoGroup
      BY <1>2, <2>0 DEF Creates, Decided, DecidedBy
  <2>3. PICK n : n = Len(subs) + 1
      OBVIOUS
  <2>4. /\ DOMAIN subs' = DOMAIN subs \cup {n} /\ n \notin DOMAIN subs
        /\ \A i \in DOMAIN subs : subs'[i] = subs[i]
        /\ subs'[n].upgradeGroup = UpgradeGroup[p] /\ subs'[n].prevUserGroup = tx[w].prev
        /\ subs'[n].status = "active"
      BY <2>1, <2>3 DEF Inserted
  <2>5. CASE UpgradeGroup[p] = NoGroup
    <3>1. group' = group
        BY <1>2, <2>2, <2>5 DEF Creates, Regrouped, ChangesGroup
    <3>2. ~Upgrades(n)' /\ \A i \in DOMAIN subs : Upgrades(i)' <=> Upgrades(i)
        BY <2>4, <2>5 DEF Upgrades
    <3>3. \A i \in DOMAIN subs : OnlyUpgrade(i)' => OnlyUpgrade(i)
        BY <2>4, <3>2 DEF OnlyUpgrade
    <3>4. \A i \in DOMAIN subs' : OnlyUpgrade(i)' => i \in DOMAIN subs
        BY <2>4, <3>2 DEF OnlyUpgrade
    <3>5. (\A i \in DOMAIN subs' : ~Upgrades(i)') => group' = BaseGroup
        BY <2>4, <3>1, <3>2 DEF FirstUpgrade
    <3>6. ASSUME NEW i \in DOMAIN subs', OnlyUpgrade(i)'
          PROVE  /\ subs'[i].prevUserGroup = BaseGroup
                 /\ group' = IF subs'[i].status = "active" THEN subs'[i].upgradeGroup ELSE BaseGroup
      <4>1. i \in DOMAIN subs /\ OnlyUpgrade(i) /\ subs'[i] = subs[i]
          BY <2>4, <3>3, <3>4, <3>6
      <4> QED
          BY <3>1, <4>1 DEF FirstUpgrade
    <3> QED
        BY <3>5, <3>6 DEF FirstUpgrade
  <2>6. CASE UpgradeGroup[p] # NoGroup
    <3>1. Upgrades(n)' /\ \A i \in DOMAIN subs : Upgrades(i)' <=> Upgrades(i)
        BY <2>4, <2>6 DEF Upgrades
    <3>2. SUFFICES ASSUME NEW i \in DOMAIN subs', OnlyUpgrade(i)'
                   PROVE  /\ subs'[i].prevUserGroup = BaseGroup
                          /\ subs'[i].status = "active" /\ group' = subs'[i].upgradeGroup
        BY <2>4, <3>1 DEF FirstUpgrade
    <3>3. i = n /\ \A j \in DOMAIN subs : ~Upgrades(j)
        BY <2>4, <3>1, <3>2 DEF OnlyUpgrade
    <3>4. group = BaseGroup
        BY <3>3 DEF FirstUpgrade
    <3>5. ChangesGroup(p)
        BY <2>6, <3>4 DEF ChangesGroup, RealUpgrades
    <3>6. tx[w].prev = BaseGroup /\ group' = UpgradeGroup[p]
        BY <1>2, <2>2, <2>6, <3>4, <3>5 DEF Creates, Regrouped
    <3> QED
        BY <2>4, <3>3, <3>6
  <2> QED
      BY <2>5, <2>6
<1>3. ASSUME NEW w \in Workers, EndsOne(w) PROVE FirstUpgrade'
  <2>1. PICK a \in DOMAIN subs : a = tx[w].arg
      BY <1>3 DEF EndsOne
  <2>2. tx[w].newGroup = DowngradeAt(a, tx[w].time)
      BY <1>3, <2>1 DEF EndsOne, Decided, DecidedBy
  <2>3. /\ RowsKept /\ Regrouped(w) /\ DOMAIN subs' = DOMAIN subs /\ subs'[a].status # "active"
        /\ \A j \in DOMAIN subs : j # a => subs'[j] = subs[j]
      BY <1>3, <2>1 DEF EndsOne, RowsKept
  <2>4. ASSUME \A i \in DOMAIN subs' : ~Upgrades(i)' PROVE group' = BaseGroup
    <3>1. \A i \in DOMAIN subs : ~Upgrades(i)
        BY <2>3, <2>4, UpgradesKept
    <3>2. tx[w].newGroup = NoGroup
        BY <2>1, <2>2, <3>1 DEF DowngradeAt
    <3> QED
        BY <2>3, <3>1, <3>2 DEF Regrouped, FirstUpgrade
  <2>5. ASSUME NEW i \in DOMAIN subs', OnlyUpgrade(i)'
        PROVE  /\ subs'[i].prevUserGroup = BaseGroup
               /\ group' = IF subs'[i].status = "active" THEN subs'[i].upgradeGroup ELSE BaseGroup
    <3>1. i \in DOMAIN subs /\ OnlyUpgrade(i)
        BY <2>3, <2>5, UpgradesKept
    <3>2. /\ subs[i].prevUserGroup = BaseGroup
          /\ group = IF subs[i].status = "active" THEN subs[i].upgradeGroup ELSE BaseGroup
        BY <3>1 DEF FirstUpgrade
    <3>3. subs'[i].prevUserGroup = BaseGroup /\ subs'[i].upgradeGroup = subs[i].upgradeGroup
        BY <2>3, <3>1, <3>2 DEF RowsKept
    <3>4. CASE i = a
      <4>1. CASE subs[i].status = "active"
        <5>1. tx[w].newGroup = BaseGroup
            BY <1>r, <2>2, <3>1, <3>2, <3>4, <4>1 DEF DowngradeAt, OnlyUpgrade
        <5> QED
            BY <2>3, <3>3, <3>4, <5>1, PlanFacts DEF Regrouped
      <4>2. CASE subs[i].status # "active"
        <5>1. tx[w].newGroup = NoGroup
            BY <1>r, <2>2, <3>1, <3>2, <3>4, <4>2 DEF DowngradeAt
        <5> QED
            BY <2>3, <3>2, <3>3, <3>4, <4>2, <5>1 DEF Regrouped
      <4> QED
          BY <4>1, <4>2
    <3>5. CASE i # a
      <4>1. tx[w].newGroup = NoGroup
          BY <2>1, <2>2, <3>1, <3>5 DEF DowngradeAt, OnlyUpgrade
      <4> QED
          BY <2>3, <3>1, <3>2, <3>5, <4>1 DEF Regrouped
    <3> QED
        BY <3>4, <3>5
  <2> QED
      BY <2>4, <2>5 DEF FirstUpgrade
<1>4. ASSUME NEW w \in Workers, EndsDue(w) PROVE FirstUpgrade'
  <2>1. PICK t \in Nat : t = tx[w].time
      BY <1>0 DEF TypeOK, TxType
  <2>2. tx[w].newGroup = SweepAt(t)
      BY <1>4, <2>1 DEF EndsDue, Decided, DecidedBy
  <2>3. /\ RowsKept /\ Regrouped(w) /\ DOMAIN subs' = DOMAIN subs
        /\ \A j \in DOMAIN subs :
              subs'[j].status = IF Due(j, t) THEN "expired" ELSE subs[j].status
      BY <1>4, <2>1 DEF EndsDue, RowsKept
  <2>4. ASSUME \A i \in DOMAIN subs' : ~Upgrades(i)' PROVE group' = BaseGroup
    <3>1. \A i \in DOMAIN subs : ~Upgrades(i)
        BY <2>3, <2>4, UpgradesKept
    <3>2. tx[w].newGroup = NoGroup
        BY <2>2, <3>1 DEF SweepAt, ExpiredUpgradesAt
    <3> QED
        BY <2>3, <3>1, <3>2 DEF Regrouped, FirstUpgrade
  <2>5. ASSUME NEW i \in DOMAIN subs', OnlyUpgrade(i)'
        PROVE  /\ subs'[i].prevUserGroup = BaseGroup
               /\ group' = IF subs'[i].status = "active" THEN subs'[i].upgradeGroup ELSE BaseGroup
    <3>1. i \in DOMAIN subs /\ OnlyUpgrade(i)
        BY <2>3, <2>5, UpgradesKept
    <3>2. /\ subs[i].prevUserGroup = BaseGroup
          /\ group = IF subs[i].status = "active" THEN subs[i].upgradeGroup ELSE BaseGroup
        BY <3>1 DEF FirstUpgrade
    <3>3. subs'[i].prevUserGroup = BaseGroup /\ subs'[i].upgradeGroup = subs[i].upgradeGroup
        BY <2>3, <3>1, <3>2 DEF RowsKept
    <3>4. ExpiredUpgradesAt(t) \subseteq {i}
        BY <3>1 DEF ExpiredUpgradesAt, OnlyUpgrade
    <3>5. ASSUME ExpiredUpgradesAt(t) # {} PROVE Latest(ExpiredUpgradesAt(t)) = i
      <4>1. ExpiredUpgradesAt(t) \in SUBSET DOMAIN subs
          BY DEF ExpiredUpgradesAt
      <4> QED
          BY <1>0, <3>4, <3>5, <4>1, LatestExists
    <3>6. CASE Due(i, t)
      <4>1. i \in ExpiredUpgradesAt(t)
          BY <3>1, <3>6 DEF ExpiredUpgradesAt, OnlyUpgrade
      <4>2. ~\E j \in DOMAIN subs : Upgrades(j) /\ InForce(j, t)
          BY <1>r, <2>1, <3>1, <3>6 DEF OnlyUpgrade, InForce, Due
      <4>3. group = subs[i].upgradeGroup /\ group # subs[i].prevUserGroup
          BY <1>r, <3>1, <3>2, <3>6 DEF Due
      <4>4. SweepAt(t) = BaseGroup
          BY <3>2, <3>5, <4>1, <4>2, <4>3 DEF SweepAt
      <4> QED
          BY <2>2, <2>3, <3>1, <3>3, <3>6, <4>4, PlanFacts DEF Regrouped
    <3>7. CASE ~Due(i, t)
      <4>1. subs'[i].status = subs[i].status
          BY <2>3, <3>1, <3>7
      <4>2. SweepAt(t) = NoGroup
        <5>1. CASE subs[i].status = "active"
          <6>1. InForce(i, t) /\ Upgrades(i)
              BY <1>r, <2>1, <3>1, <3>7, <5>1 DEF Due, InForce, OnlyUpgrade
          <6> QED
              BY <3>1, <6>1 DEF SweepAt
        <5>2. CASE subs[i].status # "active"
          <6>1. group # subs[i].upgradeGroup
              BY <1>r, <3>1, <3>2, <5>2
          <6> QED
              BY <3>5, <6>1 DEF SweepAt
        <5> QED
            BY <5>1, <5>2
      <4> QED
          BY <2>2, <2>3, <3>2, <3>3, <4>1, <4>2 DEF Regrouped
    <3> QED
        BY <3>6, <3>7
  <2> QED
      BY <2>4, <2>5 DEF FirstUpgrade
<1> QED
    BY <1>1, <1>2, <1>3, <1>4, StepKinds

LEMMA GroupAlways ==
    ASSUME SerialTx, RealUpgrades
    PROVE  Spec => []GroupInv
<1>1. Init => GroupInv
  <2> SUFFICES ASSUME Init PROVE RowGroups /\ GroupHeld /\ FirstUpgrade
      BY InitBase, InitDecided DEF GroupInv
  <2>1. DOMAIN subs = {} /\ group = BaseGroup
      BY DEF Init
  <2> QED
      BY <2>1 DEF RowGroups, GroupHeld, FirstUpgrade
<1>2. GroupInv /\ [Next]_vars => GroupInv'
    BY BaseStep, RowGroupsStep, DecidedStep, HeldGroupStep, FirstUpgradeStep DEF GroupInv
<1> QED
    BY <1>1, <1>2, PTL DEF Spec

-----------------------------------------------------------------------------
(* The theorems *)

(***************************************************************************)
(* The state keeps its types, for any plans and any number of handlers:    *)
(* rows are only added or ended, and a handler's group is always a group.  *)
(***************************************************************************)
THEOREM SubscriptionTypes == Spec => []TypeOK
<1>1. Base => TypeOK
    BY DEF Base
<1> QED
    BY <1>1, BaseAlways, PTL

(***************************************************************************)
(* CompleteSubscriptionOrder and CompleteStripeSubscriptionInvoice grant   *)
(* once what was paid once, for any number of orders, invoices and         *)
(* handlers and with overlapping transactions.                             *)
(***************************************************************************)
THEOREM SubscriptionsGrantOnce == Spec => []GrantsOnce
<1>1. GrantInv => GrantsOnce
    BY DEF GrantInv
<1> QED
    BY <1>1, GrantAlways, PTL

(***************************************************************************)
(* No late commit of CompleteSubscriptionOrder or ExpireSubscriptionOrder  *)
(* overwrites the status of an order that succeeded or expired.            *)
(***************************************************************************)
THEOREM OrdersStayFinal == Spec => OrderStatusFinal
<1>1. GrantInv /\ [Next]_vars =>
        [\A o \in Orders : orders[o] \in {"success", "expired"} => orders'[o] = orders[o]]_vars
    BY FinalStep
<1> QED
    BY <1>1, GrantAlways, PTL DEF Spec, OrderStatusFinal

(***************************************************************************)
(* MaxPurchasePerUser, which createUserSubscriptionFromPlanTx checks by    *)
(* counting: orders and administrators never exceed it with transactions   *)
(* one at a time (SQLite), and otherwise by no more than the handlers that *)
(* run beside one, however many orders of a plan are pending and however   *)
(* often rows are deleted and bought again.                                *)
(***************************************************************************)
THEOREM PurchaseLimitHolds ==
    ASSUME IsFiniteSet(Workers)
    PROVE  Spec => []PurchaseLimit
<1>1. CASE SerialTx
  <2>1. SerialInv => PurchaseLimit
    <3> SUFFICES ASSUME SerialInv, NEW p \in Plans, MaxPurchase[p] > 0
                 PROVE  Cardinality(Purchased(p)) <= MaxPurchase[p] + (Overlap - 1)
        BY DEF PurchaseLimit
    <3>1. Overlap = 1 /\ MaxPurchase[p] \in Nat /\ TypeOK
        BY <1>1, PlanFacts DEF Overlap, SerialInv, Base
    <3>2. Cardinality(Purchased(p)) <= MaxPurchase[p] /\ Cardinality(Purchased(p)) \in Nat
        BY <3>1, PurchasedFinite DEF SerialInv, StrictLimit
    <3> QED
        BY <3>1, <3>2
  <2> QED
      BY <1>1, <2>1, SerialAlways, PTL
<1>2. CASE ~SerialTx
  <2>1. Base /\ CrowdLimit => PurchaseLimit
    <3> SUFFICES ASSUME Base, CrowdLimit, NEW p \in Plans, MaxPurchase[p] > 0
                 PROVE  Cardinality(Purchased(p)) <= MaxPurchase[p] + (Overlap - 1)
        BY DEF PurchaseLimit
    <3>1. Overlap = Cardinality(Workers) /\ MaxPurchase[p] \in Nat /\ TypeOK
        BY <1>2, PlanFacts DEF Overlap, Base
    <3>2. /\ Cardinality(Purchased(p)) \in Nat /\ Cardinality(Granting(p)) \in Nat
          /\ Cardinality(Workers) \in Nat
        BY <3>1, PurchasedFinite, GrantingFinite
    <3>3. Cardinality(Purchased(p)) + Cardinality(Granting(p))
              <= MaxPurchase[p] + (Cardinality(Workers) - 1)
        BY DEF CrowdLimit
    <3> QED
        BY <3>1, <3>2, <3>3
  <2> QED
      BY <2>1, CrowdAlways, PTL
<1> QED
    BY <1>1, <1>2

(***************************************************************************)
(* With transactions one at a time, and if no plan upgrades to the group   *)
(* that users start in: the end of a subscription never takes the upgraded *)
(* group away while another subscription that upgrades is in force.        *)
(***************************************************************************)
THEOREM GroupIsHeld ==
    ASSUME SerialTx, RealUpgrades
    PROVE  Spec => []GroupHeld
<1>1. GroupInv => GroupHeld
    BY DEF GroupInv
<1> QED
    BY <1>1, GroupAlways, PTL

(***************************************************************************)
(* Under the same conditions the user is back in the first group when the  *)
(* only upgrade there ever was is over, whoever ended it.                  *)
(***************************************************************************)
THEOREM SingleUpgradeIsReverted ==
    ASSUME SerialTx, RealUpgrades
    PROVE  Spec => []SingleUpgradeReverts
<1>1. GroupInv => SingleUpgradeReverts
    BY DEF GroupInv, FirstUpgrade, OnlyUpgrade, SingleUpgradeReverts
<1> QED
    BY <1>1, GroupAlways, PTL

=============================================================================
