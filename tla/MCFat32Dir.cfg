SPECIFICATION Spec
CONSTANTS
    Paths <- MCPaths
    Names <- MCNames
    PerCluster = 7
    RootDir = 2
    Dirs0 <- MCDirs
    FirstFree = 5
    LastCluster = 7
    MaxSize = 1
    MaxFaults = 1
INVARIANTS
    
    
    OpensOwnFile
    TracerInv
PROPERTIES
    OnlyOwnEntryChanges
CHECK_DEADLOCK FALSE
