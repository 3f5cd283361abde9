SPECIFICATION BalancerSpec
CONSTANTS
    MAX_TENANTS = 2
    QUEUE_NUM = 2
    HomeWid <- MCHomeWid
    MaxLoad = 3
    U32 = 6
    LineRate = 4
    Slots = {1, 2}
INVARIANTS
    WorkerRowsAreSound
PROPERTIES
    MigrationsAreSound
    ExclusionIsPermanent
