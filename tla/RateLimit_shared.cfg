SPECIFICATION Spec
CONSTANTS
    c1 = c1
    c2 = c2
    c3 = c3
    sms = sms
    dial = dial
    Callers <- TwoCallers
    Keys <- TwoKeys
    MaxCalls <- TwoMax
    Period <- TwoPeriods
    MaxPeriodSeen = 2
    MaxTime = 2
    MaxAdmits = 3
    MaxFaults = 0
INVARIANTS
    SingleSharedBudget
CHECK_DEADLOCK FALSE
