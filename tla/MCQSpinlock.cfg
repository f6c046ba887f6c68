\* Three contexts: a holder, a pending waiter or queue head, and one behind it.
CONSTANTS
    Threads = {t1, t2, t3}
    NoThread = NoThread
    PendingLoops = 1
SPECIFICATION FairSpec
INVARIANTS
    MutualExclusion
PROPERTIES
    NoStarvation
    FifoQueue
    ImplementsLock
