\* Three handlers, two orders.
CONSTANTS
    Threads = {h1, h2, h3}
    Orders = {o1, o2}
    Mutexes = {m1, m2, m3}
    NoOrder = NoOrder
    NoMutex = NoMutex
    Nobody = Nobody
SPECIFICATION FairSpec
INVARIANTS MutualExclusion NoLeak
PROPERTIES ImplementsOrderMutex EveryLockIsGranted
CHECK_DEADLOCK FALSE
