\* Concurrent notifications of an order and of a renewal invoice, with a failure;
\* fair workers and a fair sweep.
CONSTANTS
    p1 = p1  p2 = p2  o1 = o1  o2 = o2  v1 = v1
    vip = vip  pro = pro  base = base  none = none
    Workers = {w1, w2}
    Plans = {p1}
    UpgradeGroup <- OnePlan
    Duration <- OneTick
    MaxPurchase <- NoLimit
    BaseGroup = base
    NoGroup = none
    Orders = {o1}
    OrderPlan <- OneOrder
    Invoices = {v1}
    InvoicePlan <- RenewsFirst
    Admin = Admin
    AdminPlans = {}
    RedisEnabled = FALSE
    SerialTx = FALSE
    MaxSubs = 2
    MaxTime = 2
    MaxFailures = 1
SPECIFICATION FairSpec
INVARIANTS GrantsOnce
PROPERTIES OrderStatusFinal DueIsExpired
CHECK_DEADLOCK FALSE
