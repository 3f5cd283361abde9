SPECIFICATION Spec
CONSTANTS
    MAX_TENANTS = 2
    QUEUE_NUM = 2
    HomeWid <- MCHomeWid
    MaxLoad = 2
    U32 = 4
    LineRate = 2
    Slots = {1, 2}
    Mbufs = {m1, m2, m3, m4}
    MaxNb <- MCMaxNb
    MAX_PKT_BUFFER = 2
    RingSize = 3
    CopyBound = 2
SYMMETRY Symmetry
INVARIANTS
    DispatcherTypeOK
    CopiesAreAccountedFor
