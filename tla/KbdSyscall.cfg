SPECIFICATION FairSpec
CONSTANTS
    KBD_BUFFER_SIZE = 2
    Keys = {"a"}
    Readers = {"syscall"}
    MaxWire = 2
PROPERTIES
    GetcharReturns
CHECK_DEADLOCK FALSE
