CONSTANTS
    workernum = 2
    Conf <- MCConfUdp3
    ChanCap = 10
    None = None
    StartConfs <- MCStartTwo
    MaxReq = 3
    Habits = {"waits", "fresh"}
    HeapInts = {7}
    Faults = FALSE
SPECIFICATION FairSpec
INVARIANTS
    ExactlyOneHolder
    DeleteFindsTest
    TestMapComplete
PROPERTIES
    RouteStable
    ImplementsLifecycle
    LifecycleResponsive
