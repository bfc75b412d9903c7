SPECIFICATION ProbeSpec
CONSTANTS
    b1 = b1
    b2 = b2
    router = router
    None = None
    Hosts <- NoDevices
    Boards <- NoDevices
    Size = 3
    Limit = 3
    PoolSize = 1
    Deadline = 2
    MaxLoad = 0
    MaxMoves = 0
    MaxLosses = 0
INVARIANT EveryHostIsPinged
CHECK_DEADLOCK FALSE
