SPECIFICATION FairSpec
CONSTANTS
    Workers = {w1}
    Fresh = TRUE
    Persist = TRUE
    MaxOps = 1
    MaxTicks = 0
    MaxFaults = 1
    MaxBacklog = 2
    MaxMishaps = 0
INVARIANTS
    TypeOK
PROPERTIES
    LedgerFollows
    DeleteEnds
