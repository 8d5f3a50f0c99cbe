CONSTANTS
    t1 = t1
    t2 = t2
    Tests = {t1, t2}
    times = 2
    Interval = {FALSE}
    pid = 4000
    HeapInts = {0}
    MaxRound = 2
    MaxExtra = 1
    QCap = 2
    Fds = {3, 4}
    None = None
    Env = {}
SPECIFICATION FairSpec
INVARIANTS
    NoCrash
    OneReportPerRound
    SocketsAccounted
    ReportsComplete
PROPERTY
    RoundsReport
CHECK_DEADLOCK FALSE
