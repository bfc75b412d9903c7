SPECIFICATION FairSpec
CONSTANTS
    d1 = d1
    d2 = d2
    r1 = r1
    r2 = r2
    r3 = r3
    Factory = Factory
    Devices <- TwoDevices
    Requests <- TwoRequests
    Kinds <- AllKinds
    Workers = 1
    BatchMax = 2
    MaxDeletes = 1
    MaxFaults = 1
INVARIANT LoneBatchesAgree FailuresHaveCause UpgradesAreReported
PROPERTY BatchesEnd
CHECK_DEADLOCK FALSE
