SPECIFICATION SystemFairSpec
CONSTANTS
    Workers = {w1, w2}
    Task = {a, b, null}
    Nullptr = null
    None = None
    Servers = {s1, s2}
    Fd = {1, 2}
    Missing = {b}
    Free = Free
INVARIANTS OneOwner NoSleeperBesideBacklog OneTaskPerConnection
PROPERTIES  EveryTaskRuns 
CHECK_DEADLOCK FALSE
