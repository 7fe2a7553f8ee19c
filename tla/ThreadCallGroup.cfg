SPECIFICATION FairSpec
CONSTANTS
    GroupCount = 2
    Parallel = {2}
    target_thread_count <- MCTarget
    ADD_RATIO = 1
    MaxCalls <- MCMaxCalls
INVARIANTS
    CountsMatch
    WorkCovered
    SurplusTimed
PROPERTIES
    PendingServed
    SurplusRetired
