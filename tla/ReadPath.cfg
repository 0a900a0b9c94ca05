SPECIFICATION PathFairSpec
CONSTANTS
    g1 = g1
    flusher = flusher
    compactor = compactor
    v1 = v1
    v2 = v2
    tomb = tomb
    Getters <- MCGetters
    Threads <- MCThreads
    Key <- MCKey
    Value = {v1, v2, tomb}
    Tomb = tomb
    NotFound = NotFound
    FlushPlan <- MCFlushPlan
    FlushData <- MCFlushData
    MaxFlushes = 3
    NoFile = NoFile
    Level0Limit = 1
    Fanout = 1
    Capacity = 2
    Asked = {2}
INVARIANTS Exclusion NoLostWakeup NoDanglingFile CacheCoherent GetAtomic
PROPERTIES GetReturns WritersFinish
CHECK_DEADLOCK FALSE
