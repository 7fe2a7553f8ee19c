SPECIFICATION Spec
CONSTANTS
    t1 = t1
    t2 = t2
    t3 = t3
    v1 = v1
    v2 = v2
    Threads = {t1, t2, t3}
    Vnodes = {v1}
    NULL = NULL
    Casts <- MCLast
    OFF_MAX = 3
    Size = 2
    MaxFailures = 0
PROPERTY TableRefinement
CHECK_DEADLOCK FALSE
