SPECIFICATION FairSpec
CONSTANTS
    Sandboxes = {s1, s2}
    Replicas = {p1}
    None = None
    Caps = {1, 2}
    InitialCap = 2
    MaxRunning = 1
    Quota = 1
    MaxChanges = 2
    MaxFaults = 1
SYMMETRY Symmetry
INVARIANTS
    TypeOK
    ConcurrentBound
    StorageBound
PROPERTIES
    SnapshotMonotone
    SnapshotConverges
CHECK_DEADLOCK FALSE
