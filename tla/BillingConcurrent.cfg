\* Two requests that race for the same rows; no write fails.
CONSTANTS
    Sessions = {s1, s2}
    Quotas = {1, 2}
    Prefs = {"wallet_first", "subscription_first"}
    Options = {{}}
    TokenUnlimited = "no"
    TrustQuota = 0
    InitUserQuota = 3
    InitTokenQuota = 4
    Subs = {1, 2}
    SubTotal = 2
    MaxAttempts = 3
    MaxCalls = 1
    MaxFaults = 0
SYMMETRY Symmetry
SPECIFICATION Spec
INVARIANTS BooksBalance
CHECK_DEADLOCK FALSE
