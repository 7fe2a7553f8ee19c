SPECIFICATION FairSpec
CONSTANTS
    c1 = c1
    c2 = c2
    Calls = {c1, c2}
    Cpus = {p1, p2}
    NULL = NULL
    Uses <- MCFlips
    LastTime = 2
    MaxSlop = 1
    MaxSleep = 1
    MaxEnters = 3
PROPERTY
    DelayedExpires
CHECK_DEADLOCK FALSE
