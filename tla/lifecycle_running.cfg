SPECIFICATION FairSpec
CONSTANTS
    Workers = {w1}
    Fresh = FALSE
    Persist = TRUE
    MaxOps = 1
    MaxTicks = 0
    MaxFaults = 0
    MaxBacklog = 2
    MaxMishaps = 1
PROPERTIES
    Converges
    SessionFollows
    RowOutlivesCR
