SPECIFICATION Spec
CONSTANTS
    Drive = {0}
    Cylinder = {0, 1}
    Late = TRUE
    SeekEnd = {FALSE}
    MOTOR_OFF_DELAY = 2
INVARIANTS
    ReadIsReal
