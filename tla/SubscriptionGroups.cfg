\* Transactions one at a time, with Redis: two plans with different groups, two orders of a plan that may be bought once, every way a subscription starts and ends.
CONSTANTS
    p1 = p1  p2 = p2  o1 = o1  o2 = o2  v1 = v1
    vip = vip  pro = pro  base = base  none = none
    Workers = {w1}
    Plans = {p1, p2}
    UpgradeGroup <- TwoGroups
    Duration <- LongShort
    MaxPurchase <- FirstOnce
    BaseGroup = base
    NoGroup = none
    Orders = {o1, o2}
    OrderPlan <- BothFirst
    Invoices = {}
    InvoicePlan <- NoInvoicePlan
    Admin = Admin
    AdminPlans = {p2}
    RedisEnabled = TRUE
    SerialTx = TRUE
    MaxSubs = 3
    MaxTime = 2
    MaxFailures = 1
SPECIFICATION Spec
SYMMETRY OrderSymmetry
INVARIANTS GroupHeld SingleUpgradeReverts
CHECK_DEADLOCK FALSE
