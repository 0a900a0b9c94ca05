SPECIFICATION Spec
CONSTANTS
    Key = {k1}
    Value = {v1, tomb}
    Tomb = tomb
    NotFound = NotFound
    Writers = {w1, w2}
    Readers = {r1}
    NoThread = NoThread
    NoBuffer = NoBuffer
    BufferSize = 0
    Level0Limit = 1
    MaxAdds = 3
SYMMETRY Symmetry
INVARIANTS TypeOK SwapSafe WrittenBeforeDropped NothingLost 
PROPERTY ImplementsAbstractStore
CHECK_DEADLOCK FALSE
