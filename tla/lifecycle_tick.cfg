SPECIFICATION FairSpec
CONSTANTS
    Workers = {w1}
    Fresh = FALSE
    Persist = FALSE
    MaxOps = 1
    MaxTicks = 1
    MaxFaults = 0
    MaxBacklog = 1
    MaxMishaps = 0
PROPERTIES
    SessionFollows
    DeleteEnds
