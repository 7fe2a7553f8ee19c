SPECIFICATION FairSpec
CONSTANTS
    root = root
    nest = nest
    i1 = i1
    i2 = i2
    i3 = i3
    Queues = {root, nest}
    Items = {i1, i2, i3}
    RootKinds = {"THREAD", "THREAD_CALL"}
    Target <- MCTarget
    Home <- MCHome
    Cancelable = {root, nest}
    CancelBusy = FALSE
    MaxSends = 2
CHECK_DEADLOCK FALSE
INVARIANTS
    DrainAssertions
    ChainEnqueuedOnce
    NoLostWakeup
    CancelQuiescent
PROPERTIES
    Delivered
    CancelReturns
