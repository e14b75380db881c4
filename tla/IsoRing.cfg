CONSTANTS
    Cap = 4
    Total = 10
    MaxWrite = 6
    MaxRead = 5
SPECIFICATION FairSpec
INVARIANTS
    TypeOK
    NoUseAfterFree
PROPERTIES
    Implements
    CallReturns
CHECK_DEADLOCK FALSE
