SPECIFICATION ScanSpec
CONSTANTS
    scan1 = scan1
    scan2 = scan2
    tab1 = tab1
    host1 = host1
    host2 = host2
    NoScan = NoScan
    Scans <- TwoScans
    Clients <- OneTab
    Hosts <- TwoHosts
    Findings <- BothOrNone
    MaxTicks = 2
    MaxRestarts = 1
INVARIANTS
    RefreshIsPostScan
CHECK_DEADLOCK FALSE
