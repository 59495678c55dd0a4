\* Three handlers of one process work on one order of any provider; two
\* statements or the process may fail.
SPECIFICATION FairSpec
CONSTANTS
    h1 = h1
    h2 = h2
    h3 = h3
    Handlers = {h1, h2, h3}
    o1 = o1
    Orders = {o1}
    Node <- OneNode
    Amount = 3
    Money = 2
    QuotaPerUnit = 5
    NoOrder = NoOrder
    MaxFaults = 2
INVARIANTS
    CreditedOnce
    SuccessIsCredited
PROPERTIES
    FinalStays
    
CHECK_DEADLOCK FALSE
