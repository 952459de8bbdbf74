SPECIFICATION SafeSpec
CONSTANTS
    k1 = k1
    k2 = k2
    Sockets <- MCSockets
    Slots <- MCSlots
    None = None
INVARIANT
    RecycledAreOrphaned
CHECK_DEADLOCK FALSE
