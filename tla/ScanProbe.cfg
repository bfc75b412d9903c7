SPECIFICATION ProbeSpec
CONSTANTS
    b1 = b1
    b2 = b2
    router = router
    None = None
    Hosts <- ThreeDevices
    Boards <- TwoBoards
    Size = 3
    Limit = 2
    PoolSize = 1
    Deadline = 1
    MaxLoad = 1
    MaxMoves = 1
    MaxLosses = 1
INVARIANT ProbeTypeOK AnswerersAreFound MacsAreTheirs
CHECK_DEADLOCK FALSE
