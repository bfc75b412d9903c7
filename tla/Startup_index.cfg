SPECIFICATION Spec
CONSTANTS
    v4 = v4
    v6 = v6
    Procs <- TwoProcs
    Tables <- OneTable
    Alters <- TwoColumns
    Environments <- SixEnvironments
    MaxCrashes = 2
    MaxFaults = 1
INVARIANT AddressesAreUnique
CHECK_DEADLOCK FALSE
