SPECIFICATION Spec
CONSTANTS
    LastCluster = 6
    clusterSize = 2
    Files = {f1, f2}
    Inputs <- WholeOrShort
    MaxSize = 4
    IoFaults = FALSE
INVARIANTS
    ReadBack
