\* One user, with and without SQLite and the batch updater.  The amounts are
\* such that no two sums of them are equal.
CONSTANTS
    Start = 100000
    Charge = 1
    Credit = 10
    CodeQuota = 100
    Award = 1000
    AffQuota = 10000
    Override = 50000
    NoCache = NoCache
    MaxOps = 3
    MaxFaults = 2
SPECIFICATION Spec
INVARIANTS QuotaConserved CacheTracksQuota
CHECK_DEADLOCK FALSE
