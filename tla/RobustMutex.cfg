SPECIFICATION Spec
CONSTANTS
    Threads = {t1, t2, t3}
    Nobody = Nobody
INVARIANTS
    TypeOK
    CriticalIsConsistent
    DamageIsKnown
PROPERTIES
    OnlyFailedRecoveryIsFinal
    ImplementsCrashLock
    FreedAgain
