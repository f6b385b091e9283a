SPECIFICATION Spec
CONSTANTS
    Keys = {k1}
    Sessions = {s1, s2, s3}
    Revokers = {x1, x2}
    Debounce = 2
    Horizon = 3
    NULL = NULL
SYMMETRY Symmetry
CHECK_DEADLOCK FALSE
INVARIANTS
    TypeOK
    RevocationHolds
    TouchesAreDebounced
PROPERTIES
    RevocationIsFinal
