CONSTANTS
    t1 = t1
    t2 = t2
    a1 = a1
    a2 = a2
    junk = junk
    Tests = {t1, t2}
    addr <- MCAddrSame
    Untimed = {t2}
    HeapAddrs = {junk, a1}
    MaxRound = 2
    Fds = {3, 4}
    None = None
    Env = {"late", "stranger", "sockfail", "overlap", "deletebusy"}
SPECIFICATION Spec
INVARIANTS
    TypeOK
    SentReportsOnce
CHECK_DEADLOCK FALSE
