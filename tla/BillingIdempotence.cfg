\* The idempotence that the retries of the subscription refund rely on.
CONSTANTS
    Sessions = {s1, s2}
    Quotas = {1}
    Prefs = {"subscription_only"}
    Options = {{}}
    TokenUnlimited = "no"
    TrustQuota = 0
    InitUserQuota = 3
    InitTokenQuota = 4
    Subs = {1}
    SubTotal = 2
    MaxAttempts = 3
    MaxCalls = 0
    MaxFaults = 1
SPECIFICATION Spec
INVARIANTS SubscriptionRefundIsIdempotent
CHECK_DEADLOCK FALSE
