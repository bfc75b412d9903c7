SPECIFICATION Spec
CONSTANTS
    a = a
    b = b
    lab = lab
    Labels <- OneLabel
    ScanGroup = None
    i1 = i1
    i2 = i2
    s1 = s1
    s2 = s2
    e1 = e1
    None = None
    Parked = Parked
    Boards <- TwoBoards
    Ips <- TwoIps
    Savers <- OneSaver
    Editors <- OneEditor
    Ops <- DeleteOnly
    MaxId = 3
    MaxSaves = 3
    MaxEdits = 1
    MaxMoves = 2
PROPERTIES
    SavedIsInTable
CHECK_DEADLOCK FALSE
