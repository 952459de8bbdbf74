SPECIFICATION Spec
CONSTANTS
    k1 = k1
    k2 = k2
    Sockets <- MCSockets
    Slots <- MCSlots
    None = None
INVARIANTS
    TypeOK
    MemoryHasOwner
    NeverAdvancedTooLate
    QueuedOnce
PROPERTIES
    AbortedIffCanceled
    HandlerHasItsTurn
CHECK_DEADLOCK FALSE
