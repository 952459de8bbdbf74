SPECIFICATION SafeSpec
CONSTANTS
    Threads = {t1, t2, t3}
    Nobody = Nobody
INVARIANT
    GuardUnlocksOwnMutex
