SPECIFICATION FairSpec
CONSTANTS
    Clients = {c1, c2, c3}
    Creator = c1
    None = None
    Cap = 2
    Blanks = 1
    MaxOut = 4
    LeavesFull = FALSE
INVARIANTS
    TypeOK
    NoGap
PROPERTIES
    SlotFreed
    OutputKept
CHECK_DEADLOCK FALSE
