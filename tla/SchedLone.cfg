SPECIFICATION Spec
CONSTANTS
    PROC_MAX = 1
    TIME_SLICE = 2
    MaxPid = 1
    BootFlag = "USER"
    Workloads = {{}}
INVARIANTS
    NoProcessLost
CHECK_DEADLOCK FALSE
