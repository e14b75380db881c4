SPECIFICATION Spec
CONSTANTS
    Proc = {p1, p2, p3}
    NULL = NULL
INVARIANTS
    ListConsistent
PROPERTIES
    AbstractSpec
CHECK_DEADLOCK FALSE
