SPECIFICATION FairSpec
CONSTANTS
    Threads = {t1, t2}
    NULL = NULL
    Privileges = {FALSE}
    Downgrade = {FALSE}
    MaxOps = 2
PROPERTY RequestEnds
CHECK_DEADLOCK FALSE
