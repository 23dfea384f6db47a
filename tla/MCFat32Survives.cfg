SPECIFICATION Spec
CONSTANTS
    LastCluster = 4
    clusterSize = 1
    Files = {f1, f2}
    Inputs <- Three
    MaxSize = 3
    IoFaults = TRUE

    
PROPERTIES
    Terminates
CHECK_DEADLOCK FALSE
