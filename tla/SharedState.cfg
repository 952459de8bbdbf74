SPECIFICATION Spec
CONSTANTS
    Values = {v1, v2}
    Errors = {e1, broken}
    BrokenPromise = broken
    OK = OK
    NoData = NoData
    MovedFrom = MovedFrom
    MaxHolders = 2
INVARIANTS
    TypeOK
    NoDataRace
    DeletedByLastOwner
    OnlySettledSeen
    CallbackExactlyOnce
    NoLostWakeup
PROPERTY
    ImplementsOneShot
CHECK_DEADLOCK FALSE
