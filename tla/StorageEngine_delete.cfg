SPECIFICATION Spec
CONSTANTS
    Keys = 2
    Key <- MCKey
    Value = {v1, tomb}
    Tomb = tomb
    NotFound = NotFound
    FlushData <- MCFlushData
    NoFile = NoFile
    Level0Limit = 1
    Fanout = 1
    MaxFlushes = 4
PROPERTY DeletedStaysDeleted
CHECK_DEADLOCK FALSE
