SPECIFICATION FairSpec
CONSTANTS
    Drive = {0, 1}
    Cylinder = {0, 1}
    Late = FALSE
    SeekEnd = {FALSE, TRUE}
    MOTOR_OFF_DELAY = 2
INVARIANTS
    TypeOK
    SuccessIsReal
    RunningMotorKnown
PROPERTIES
    CallReturns
