SPECIFICATION Spec
CONSTANTS
    Transactions = {t1, t2}
    Nobody = Nobody
    MaxVersion = 4
    NB_BUFFERS = 2
INVARIANTS
    TypeOK
    HistoryIsThere
    Accounted
    AccessorsAtBound
PROPERTY
    ImplementsSnapshots
CHECK_DEADLOCK FALSE
