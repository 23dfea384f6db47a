SPECIFICATION ProcSpec
CONSTANTS
    p1 = p1
    p2 = p2
    p3 = p3
    Paths = {p1, p2, p3}
    Hash <- Collide
    Handles = {h1, h2, h3}
    Modes <- AllModes
    clusterSize = 2
    MaxSize = 2
    MAX_PROCESSES = 2
INVARIANTS
    HandlesInv
    
    ProcessInv

    
CHECK_DEADLOCK FALSE
