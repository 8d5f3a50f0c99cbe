CONSTANTS
    t1 = t1
    t2 = t2
    a1 = a1
    a2 = a2
    junk = junk
    Tests = {t1, t2}
    addr <- MCAddrTwo
    Untimed = {}
    HeapAddrs = {junk}
    MaxRound = 3
    Fds = {3, 4, 5}
    None = None
    Env = {}
SPECIFICATION Spec
INVARIANTS
    NoUseAfterFree
    OneReportPerRound
    SocketsAccounted
    VerdictRight
CHECK_DEADLOCK FALSE
