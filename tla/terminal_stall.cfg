SPECIFICATION FairSpec
CONSTANTS
    Clients = {c1, c2}
    Creator = c1
    None = None
    Cap = 1
    Blanks = 1
    MaxOut = 3
    LeavesFull = TRUE
PROPERTIES
    OutputKept
CHECK_DEADLOCK FALSE
