SPECIFICATION FairSpec
CONSTANTS
    v4 = v4
    v6 = v6
    Procs <- TwoProcs
    Tables <- OneTable
    Alters <- TwoColumns
    Environments <- SixEnvironments
    MaxCrashes = 2
    MaxFaults = 1
INVARIANT ServingSchemaComplete LoneStartsSucceed
PROPERTY BothServe
CHECK_DEADLOCK FALSE
