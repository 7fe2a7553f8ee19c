SPECIFICATION FairSpec
CONSTANTS
    Threads = {t1, t2, t3}
    NULL = NULL
    Privileges = {TRUE, FALSE}
    Downgrade = {TRUE}
    MaxOps = 3
INVARIANTS
    MutualExclusion
    OwnerExact
    NoLostWakeup
PROPERTY RequestEnds
CHECK_DEADLOCK FALSE
