SPECIFICATION Spec
CONSTANTS
    table_size = 4
    WORD <- MCWord
    Callers = {c1, c2, c3}
    Sizes <- MCSizes
    LowMemory = {3, 4}
INVARIANTS
    IInv
    DataIntact
    RefusedOnlyWhenFull
PROPERTIES
    ImplementsKHeap
SYMMETRY MCSymmetry
CHECK_DEADLOCK FALSE
