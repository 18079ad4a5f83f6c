SPECIFICATION FairSpec
CONSTANTS
    Workers = {w1}
    MaxOps = 2
    MaxWrites = 1
    MaxErrors = 1
    EarlyErrors = TRUE
    MaxMishaps = 0
INVARIANTS
    WorkspaceKept
CHECK_DEADLOCK FALSE
