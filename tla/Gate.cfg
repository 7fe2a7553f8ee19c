SPECIFICATION Spec
CONSTANTS
    Threads = {t1, t2, t3, t4}
    NULL = NULL
    Shared = TRUE
INVARIANTS
    OpenMeansNoWaiters
    PushReachesHolder
    WaitersBitOwed
    AbortedNotHolder
    InheritorBounded
PROPERTY HandoffMeansHeld
