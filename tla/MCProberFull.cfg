CONSTANTS
    workernum = 2
    Conf <- MCConfAll
    ChanCap = 2
    None = None
    StartConfs <- MCStartOne
    MaxReq = 2
    Habits = {}
    HeapInts = {1, 7}
    Faults = TRUE
SPECIFICATION Spec
INVARIANTS
    TypeOK
    OnlyIssued
    RoutedAfterDistribution
    NoDanglingTest
    LoadSpread
CHECK_DEADLOCK FALSE
