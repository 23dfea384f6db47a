SPECIFICATION Spec
CONSTANTS
    LastCluster = 8
    clusterSize = 2
    Files = {f1, f2}
    Inputs <- EveryLength
    MaxSize = 6
    IoFaults = FALSE
INVARIANTS
    TableInv
    AllocationExact
