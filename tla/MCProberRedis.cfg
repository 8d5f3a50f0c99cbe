CONSTANTS
    workernum = 2
    Conf <- MCConfUdp2
    ChanCap = 8
    None = None
    StartConfs <- MCStartOne
    MaxReq = 2
    Habits = {"waits", "fresh"}
    HeapInts = {7}
    Faults = FALSE
SPECIFICATION Spec
INVARIANT
    ProbesReportToRedis
