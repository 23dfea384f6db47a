SPECIFICATION Spec
CONSTANTS
    MaxLvl = 4
    blockSize <- MCBlockSize
    maxEntries <- MCMaxEntries
    Requests = {1, 2, 3, 8, 16}
    MaxHeld = 4
    Strays = {28, 32}
    NULL = NULL
INVARIANTS
    BuddyInv
    BuddiesMerged
    RightUntilFirstFree
CHECK_DEADLOCK FALSE
