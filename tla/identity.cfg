SPECIFICATION FairSpec
CONSTANTS
    Users = {u1, u2, u3}
    Nobody = Nobody
    Requests = {r1, r2}
    MaxRequests = 4
    Races = FALSE
INVARIANTS
    TypeOK
    AdminRemains
PROPERTIES
    ImplementsGrant
    CliEnds
CHECK_DEADLOCK FALSE
