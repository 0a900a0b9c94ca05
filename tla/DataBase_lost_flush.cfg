SPECIFICATION FairSpec
CONSTANTS
    Key = {k1}
    Value = {v1, tomb}
    Tomb = tomb
    NotFound = NotFound
    Writers = {w1}
    Readers = {}
    NoThread = NoThread
    NoBuffer = NoBuffer
    BufferSize = 0
    Level0Limit = 1
    MaxAdds = 2
PROPERTY EveryBufferFlushed
CHECK_DEADLOCK FALSE
