\* One request with every option, several calls and up to four failing writes.
CONSTANTS
    Sessions = {s1}
    Quotas = {0, 1, 2, 3}
    Prefs = {"wallet_only", "wallet_first", "subscription_only", "subscription_first"}
    Options = {{}, {"playground"}, {"forcePreConsume"}}
    TokenUnlimited = "no"
    TrustQuota = 2
    InitUserQuota = 3
    InitTokenQuota = 4
    Subs = {1}
    SubTotal = 2
    MaxAttempts = 3
    MaxCalls = 3
    MaxFaults = 4
SPECIFICATION FairSpec
PROPERTIES RefundCompletes
INVARIANTS Accounting TypeOK SettledPaysActual RefundReturnsAll RejectedPaysNothing NeverOverRefunded
CHECK_DEADLOCK FALSE
