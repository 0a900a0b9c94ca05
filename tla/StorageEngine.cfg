SPECIFICATION Spec
CONSTANTS
    Keys = 3
    Key <- MCKey
    Value = {v1, v2, tomb}
    Tomb = tomb
    NotFound = NotFound
    FlushData <- MCFlushData
    NoFile = NoFile
    Level0Limit = 1
    Fanout = 1
    MaxFlushes = 3
INVARIANTS TypeOK LevelsDisjoint OverfullIsPending
PROPERTIES ImplementsAbstractStore
CHECK_DEADLOCK FALSE
