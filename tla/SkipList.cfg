SPECIFICATION Spec
CONSTANTS
    Key = {1, 2, 3, 4}
    Value = {v1, v2}
    kMaxHeight = 3
    Head = Head
    Null = Null
INVARIANT LevelsSorted
PROPERTY ImplementsSortedMap
