SPECIFICATION FairSpec
CONSTANTS
    Workers = {w1}
    MaxOps = 3
    MaxWrites = 1
    MaxErrors = 1
    EarlyErrors = FALSE
    MaxMishaps = 1
INVARIANTS
    TypeOK
    WorkspaceKept
    ColdIsBound
    ColdReleased
PROPERTIES
    PendingEnds
    DeleteReleases
CHECK_DEADLOCK FALSE
