SPECIFICATION FairSpec
CONSTANTS
    w1 = w1
    w2 = w2
    t1 = t1
    t2 = t2
    Workers = {w1, w2}
    Tenants = {t1, t2}
    Mbufs = {m1, m2, m3}
    HomeWid <- MCOneHome
    MayMove = {}
    MAX_PKT_BUFFER = 2
    MBUFS_PER_TENANT = 3
    MayExceed = {}
    SharedBound = 1
    FreeBound = 1
    NoMbuf = NoMbuf
CHECK_DEADLOCK FALSE
PROPERTIES
    ServesTheLine
    FullBatchIsServed
