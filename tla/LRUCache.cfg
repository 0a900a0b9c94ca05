SPECIFICATION Spec
CONSTANTS
    FileId = {f1, f2, f3, f4}
    Key = {k1, k2}
    Table <- MCTable
    Capacity = 3
    Node = {n1, n2, n3, n4}
    head = head
    tail = tail
    Null = Null
INVARIANT WellLinked
PROPERTY ImplementsAbstractCache
SYMMETRY Symmetry
