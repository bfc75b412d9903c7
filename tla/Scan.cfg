SPECIFICATION ScanFairSpec
CONSTANTS
    scan1 = scan1
    scan2 = scan2
    tab1 = tab1
    host1 = host1
    host2 = host2
    NoScan = NoScan
    Scans <- TwoScans
    Clients <- OneTab
    Hosts <- OneHost
    Findings <- OneOrNone
    MaxTicks = 2
    MaxRestarts = 1
INVARIANTS
    ScanTypeOK
    RunningScansStayKnown
PROPERTIES
    NothingFoundIsDropped
    NothingFollowsError
    ScansAreSwept
    ScanButtonComesBack
CHECK_DEADLOCK FALSE
