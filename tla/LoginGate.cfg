SPECIFICATION Spec
CONSTANTS
    p1 = p1
    p2 = p2
    a1 = a1
    a2 = a2
    admin = admin
    Procs <- TwoProcs
    Addresses <- TwoAddresses
    Accounts <- OneAccount
    Names <- MCNames
    Lower <- LowerOf
    Account = "admin"
    Blank = "blank"
    NonAscii = "nonascii"
    Limit <- LimitOne
    Period <- ShortAndLong
    MaxPeriodSeen = 2
    MaxTime = 2
    MaxAttempts = 3
    MaxFaults = 1
SYMMETRY Alike
INVARIANT GuessesWithinBudget FailuresStayCounted OnlyGuessesAreCharged
CHECK_DEADLOCK FALSE
