SPECIFICATION Spec
CONSTANTS
    SECTOR = 2
    DiskSectors = 5
    Byte = {0, 1}
    Streams = {st1}
    Partition <- MCPartition
    Contents <- MCContents
    Lengths = {1, 4}
INVARIANTS
    StreamInv

    
    
