SPECIFICATION Spec
CONSTANTS
    Sandboxes = {s1, s2}
    Limit = 5
    GracePeriods = {0, 2}
    MaxCloseDelta = 1
    PeriodLength = 5
    GrantAmount = 1
    MaxTime = 6
    MaxOps = 1
    MaxGrants = 1
    MaxMishaps = 1
SYMMETRY Symmetry
INVARIANTS
    TypeOK
    MeteredOnce
    ChargedOnce
    DebtBounded
PROPERTIES
    PoolOrder
    WarnedBeforeStop
CHECK_DEADLOCK FALSE
