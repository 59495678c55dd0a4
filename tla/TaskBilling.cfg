\* Two pollers and a generating goroutine over two tasks; updates, adjustments and processes fail.
CONSTANTS
    t1 = t1  t2 = t2  t3 = t3
    Tasks = {t1, t2}
    Platform <- VideoAndAsync
    SubmitTime <- Recent
    Pollers = {w1, w2}
    Readers = {}
    Estimates = {1}
    Quotas = {2}
    Actuals = {0, 1, 3}
    MayTimeOut = {t1, t2}
    MayLose = {}
    Failing = {"message", "insert", "cas", "funding", "token", "crash"}
    MaxSubmitted = 2
    MaxFaults = 1
SPECIFICATION Spec
INVARIANTS FailedIsRefunded SucceededIsSettled NeverOverRefunded
PROPERTIES FinalIsFinal
SYMMETRY Symmetry
