SPECIFICATION FairSpec
CONSTANTS
    PROC_MAX = 3
    TIME_SLICE = 2
    MaxPid = 4
    BootFlag = "KERNEL"
    Workloads = {{"create"}, {"create", "exit"}, {"create", "yield", "block", "exit"}}
INVARIANTS
    TypeOK
    QueueSound
    HeldSound
    OnlyCurrentRuns
    ContextRestorable
PROPERTIES
    NoOvertaking
    QueuedIsDispatched
CHECK_DEADLOCK FALSE
