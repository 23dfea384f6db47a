SPECIFICATION Spec
CONSTANTS
    Lines = {0, 4, 11, 14}
    Exceptions = {13}
INVARIANTS
    ServiceInv
    InterruptedCodeUnharmed
PROPERTIES
    RequestsServed
CHECK_DEADLOCK FALSE
