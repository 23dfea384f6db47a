SPECIFICATION MmioSpec
CONSTANTS
    PAGE = 2
    FAN = 4
    LEVELS = 3
    INT_RANGE = 16
    LOW = 4
    MIN_MEMORY = 8
    FirmwareMaps <- MCMaps
    Rooms = {0, 1, 3, 4, 5, 6, 7, 8, 40}
    MMIO_VIRTUAL = 72
    MMIO_MAX_ALLOC = 3
    ACPI_ADDRESS = 104
    Bars <- MCBars
    Sdts = {14, 16, 17}
INVARIANTS
    MapInv
    KernelStaysMapped
    MappingsIntact
    AcpiTableFound
CHECK_DEADLOCK FALSE
