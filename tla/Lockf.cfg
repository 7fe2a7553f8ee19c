SPECIFICATION Spec
CONSTANTS
    t1 = t1
    t2 = t2
    t3 = t3
    v1 = v1
    v2 = v2
    Threads = {t1, t2, t3}
    Vnodes = {v1, v2}
    NULL = NULL
    Casts <- MCCasts
    OFF_MAX = 2
    Size = 2
    MaxFailures = 1
INVARIANTS
    ListOrdered
    WaiterQueued
    NoWaitCycle
PROPERTY
    TableRefinement
CHECK_DEADLOCK FALSE
