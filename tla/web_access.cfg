SPECIFICATION FairSpec
CONSTANTS
    Requests = {r1, r2}
    MaxLinks = 3
    TouchEvery = 3
    Threshold = 6
    MaxDelay = 1
    MaxStarts = 1
    MaxMissed = 1
INVARIANTS
    TypeOK
    LinkLives
    KeepsAwake
PROPERTIES
    IdleStops
CHECK_DEADLOCK FALSE
