SPECIFICATION FairSpec
CONSTANTS
    a = a
    b = b
    d = d
    NB_PORTS = 3
    MASK_BITS = 4
    MaskArgs <- MCMaskArgs
    RTE_MAX_LCORE = 3
    Enabled = {0, 2}
    Master = 2
    MAX_RX_QUEUE_PER_LCORE = 4
    MAX_PKT_BURST = 2
    MAX_PKT_BUFFER = 2
    MAX_CHECK_TIME = 1
    Packets = {a, b, d}
    Kind <- MCKind
    OptBound = 2
CHECK_DEADLOCK FALSE
INVARIANTS
    KeySetupBeforeUse
