SPECIFICATION FairSpec
CONSTANTS
    Elements = {e1, e2, e3, e4}
    Producers = {p1, p2}
    QHead = QHead
    NULL = NULL
    NotQueued = NotQueued
    MaxList = 2
INVARIANTS
    SpinOwed
    LinkStoreSafe
    MarkerMeansIdle
PROPERTIES
    FifoRefinement
    SpinEnds
