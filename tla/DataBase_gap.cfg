SPECIFICATION Spec
CONSTANTS
    Key = {k1}
    Value = {v1, tomb}
    Tomb = tomb
    NotFound = NotFound
    Writers = {w1}
    Readers = {r1}
    NoThread = NoThread
    NoBuffer = NoBuffer
    BufferSize = 0
    Level0Limit = 1
    MaxAdds = 2
INVARIANT GetFresh
CHECK_DEADLOCK FALSE
