SPECIFICATION FairSpec
CONSTANTS
    KBD_BUFFER_SIZE = 3
    Keys = {"Up", "LCtrl", "RCtrl", "LAlt"}
    Readers = {"thread", "syscall"}
    MaxWire = 2
INVARIANTS
    TypeOK
    ModifiersTrackKeys
PROPERTIES
    FifoSpec
    NextByteWakes
CHECK_DEADLOCK FALSE
