SPECIFICATION DriversSpec
CONSTANTS
    ATA_SECTORS = 3
    ATA_COUNT = 2
    ATA_LBA = 2
    ATA_REQUESTS <- MC_ATA_REQUESTS
    AHCI_SECTORS = 16
    AHCI_MAX = 2
    BYTE = 2
    SLOTS = 4
    SLOT_BITS = 2
    AHCI_REQUESTS <- MC_AHCI_REQUESTS
INVARIANTS
    AtaInv
    AhciInv
PROPERTIES
    NoOverlap
    AtaCallsAnswer
    
CHECK_DEADLOCK FALSE
