SPECIFICATION FairSpec
CONSTANTS
    c1 = c1
    c2 = c2
    c3 = c3
    sms = sms
    dial = dial
    Callers <- TwoCallers
    Keys <- OneKey
    MaxCalls <- OneMax
    Period <- OnePeriod
    MaxPeriodSeen = 2
    MaxTime = 4
    MaxAdmits = 3
    MaxFaults = 1
INVARIANTS
    WindowWithinBudget
    AdmittedStayCounted
PROPERTIES
    ImplementsCallBudget
    QuietKeysLeaveNoRows
CHECK_DEADLOCK FALSE
