SPECIFICATION Spec
CONSTANTS
    MaxHandles = 3
    MaxSlots = 6
    MaxBytes = 4
    MaxText = 5
    MaxCount = 2
    MaxCollections = 2
    SmallStringBytes = 2
    CutAt = 2
    CutFactor = 2
INVARIANTS
    ContentsKept
    TablesExact
    Inv
CHECK_DEADLOCK FALSE
