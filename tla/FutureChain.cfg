SPECIFICATION Spec
CONSTANTS
    N = 3
    Callings = {{"ok"}, {"ok", "error"}}
INVARIANTS
    TypeOK
    NoDataRace
    NoUseAfterFree
    NothingLeaks
    ShallowChains
    DeliveredOnce
PROPERTY
    ImplementsOneShot
CHECK_DEADLOCK FALSE
