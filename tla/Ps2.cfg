SPECIFICATION Spec
CONSTANTS
    MOUSE_EVENT_BUF = 2
INVARIANTS
    KeyboardStaysReady
    
PROPERTIES
    QueueIsFifo
    EventIsPacket
CHECK_DEADLOCK FALSE
