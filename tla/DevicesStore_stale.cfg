SPECIFICATION StoreSpec
CONSTANTS
    b1 = b1
    b2 = b2
    red = red
    blue = blue
    word = word
    All = All
    Boards <- TwoBoards
    Groups <- TwoGroups
    Texts <- NoTexts
    NoText = NoText
    PageSize = 1
    MaxId = 2
    MaxAsks = 3
    MaxPending = 2
    MaxChanges = 3
PROPERTIES
    BatchDeletesOnlyPicked
CHECK_DEADLOCK FALSE
