SPECIFICATION MCSpec
CONSTANTS
    GroupBits = 2
    FixedBytes = 4
    VarintBytes = 6
    kBlockSize = 32
    align = 4
    Keys <- MCKeys
    Values <- MCValues
    FirstKey <- MCFirstKey
    NodeSize <- MCNodeSize
    MaxAdds = 3
INVARIANTS
    PlacesDisjoint
    NodesAligned
    EntriesIntact
    FileReadsBack
    CodingInverse
CHECK_DEADLOCK FALSE
