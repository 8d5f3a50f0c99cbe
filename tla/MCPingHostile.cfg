CONSTANTS
    t1 = t1
    t2 = t2
    Tests = {t1}
    times = 2
    Interval = {TRUE, FALSE}
    pid = 4000
    HeapInts = {99}
    MaxRound = 2
    MaxExtra = 1
    QCap = 1
    Fds = {3, 4}
    None = None
    Env = {"stranger", "other", "sendfail", "initfail", "overlap", "deletebusy"}
SPECIFICATION Spec
INVARIANTS
    TypeOK
    NeverMoreThanTimes
CHECK_DEADLOCK FALSE
