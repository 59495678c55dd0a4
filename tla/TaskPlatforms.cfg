\* One task at a time, of each platform that is polled, with a reader: it may time out and lose
\* its channel, and two of its operations may fail.  The price is 0: a task that is reopened and
\* swept again is refunded again, without an end.
CONSTANTS
    t1 = t1  t2 = t2  t3 = t3
    Tasks = {t1, t2, t3}
    Platform <- OneOfEach
    SubmitTime <- Recent
    Pollers = {w1}
    Readers = {r1}
    Estimates = {0, 1}
    Quotas = {0}
    Actuals = {0}
    MayTimeOut = {t1, t2, t3}
    MayLose = {t1, t2, t3}
    Failing = {"settle", "insert", "message", "cas", "save", "crash"}
    MaxSubmitted = 1
    MaxFaults = 2
SPECIFICATION FairSpec
PROPERTIES TaskEnds
