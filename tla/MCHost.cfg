SPECIFICATION FairSpec
CONSTANTS
    DevCount = 2
    Bits = {0, 1, 2}
    QUEUE_NUM = 2
    MAX_TENANTS = 2
    LcoreCounts <- MCLcoreCounts
    MaskArgs <- MCMaskArgs
    TenantArgs <- MCTenantArgs
    PeriodArgs <- MCPeriodArgs
    U32 = 8
    TIMER_PERIOD = 3
    MAX_PKT_BUFFER = 2
    MAX_CHECK_TIME = 2
    OptBound = 2
    WorkBound = 2
CHECK_DEADLOCK FALSE
INVARIANTS
    StartupIsSound
    QueuesHaveOneUser
    StatisticsAreReal
    FaultsAreAskedFor
PROPERTIES
    PhasesEnd
