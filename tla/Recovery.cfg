SPECIFICATION RecoverySpec
CONSTANTS
    v1 = v1
    v2 = v2
    Key <- MCKey
    Value = {v1, v2, tomb}
    Tomb = tomb
    NotFound = NotFound
    FlushData <- MCFlushData
    NoFile = NoFile
    Level0Limit = 1
    Fanout = 1
    MaxFlushes = 4
    MaxRestarts = 1
INVARIANTS IdsUnique DiskComplete NeverDeletedIsFound
PROPERTIES RestartKeepsValues CompactReturns
CHECK_DEADLOCK FALSE
