SPECIFICATION FairSpec
CONSTANTS
    c1 = c1
    c2 = c2
    Clients = {c1, c2}
    Threads = {t1, t2}
    Timers = {cpu1, cpu2}
    Uses <- MCUses
    MaxSubmit = 5
INVARIANTS
    CountsExact
    RefsExact
    OnceExclusive
    NoUseAfterFree
    WaitCovers
PROPERTIES
    WaitReturns
    FreeCompletes
CHECK_DEADLOCK FALSE
