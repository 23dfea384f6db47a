SPECIFICATION Spec
CONSTANTS
    Machines <- MCMachines
    NoDrive = NoDrive
    MAX_PCI = 4
    MAX_DISKS = 3
    MAX_PARTITIONS = 12
INVARIANTS
    
    KernelIsC
    

    
CHECK_DEADLOCK FALSE
