SPECIFICATION FairSpec
CONSTANTS
    MAX_TENANTS = 2
    QUEUE_NUM = 2
    HomeWid <- MCHomeWid
    MaxLoad = 2
    U32 = 4
    LineRate = 2
    Slots = {1, 2}
    Mbufs = {m1, m2, m3}
    MaxNb <- MCAmpleNb
    MAX_PKT_BUFFER = 2
    RingSize = 1
    CopyBound = 2
PROPERTIES
    PoolRecovers
    MbufsAreHandedOver
