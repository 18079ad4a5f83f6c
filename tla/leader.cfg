SPECIFICATION FairSpec
CONSTANTS
    Replicas = {r1, r2}
    None = None
    Absent = Absent
    LeaseDuration = 5
    RenewInterval = 1
    RetryInterval = 1
    MaxLatency = 1
    ClockSkew = 1
    ShutdownMidAttempt = FALSE
    MaxFaults = 1
    MaxCrashes = 1
    MaxShutdowns = 1
    MaxLosses = 1
INVARIANTS
    OnlyHolderRuns
    ShutdownReleases
PROPERTIES
    LedAgain
