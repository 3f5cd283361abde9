SPECIFICATION P4Spec
CONSTANTS
    Contexts = {c1, c2}
    MAX_TENANTS = 2
    MAX_WORKERS = 2
    HomeWid <- MCHomeWid
    MaxNb <- MCMaxNb
    MaxLoad = 2
    U32 = 8
    SLOTS = 3
    PacketBound = 4
SYMMETRY MCSymmetry
CHECK_DEADLOCK FALSE
INVARIANTS
    CountsAreExact
    LoadsAreExact
PROPERTIES
    DispatchIsWhole
