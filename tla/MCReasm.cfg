SPECIFICATION Spec
CONSTANTS
    f1 = f1
    f2 = f2
    f3 = f3
    t1 = t1
    t2 = t2
    Tenants = {t1, t2}
    Flows = {f1, f2, f3}
    BIG_PRIME = 1
    RE_BUCKET_SIZE = 2
    HashFlowkey <- MCHash
    PLANNED_SEQ_SIZE = 3
    MaxSwap = 2
    BUFFERED_SEGS_SIZE = 2
    PKTBUF_SIZE = 4
    Traffics <- MCTraffics
SYMMETRY Symmetry
INVARIANTS
    TablesAreConsistent
    FlowsAdvanceInOrder
    PktbufsAreAccountedFor
