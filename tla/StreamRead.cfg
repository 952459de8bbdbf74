SPECIFICATION Spec
CONSTANTS
    Streams = {"tcp", "openssl"}
    s_size = 2
    MaxSize = 3
    MaxInput = 3
INVARIANTS
    TypeOK
    InOrder
    AdvanceFindsRoom
    AnswerIsRight
PROPERTY
    Answered
CHECK_DEADLOCK FALSE
