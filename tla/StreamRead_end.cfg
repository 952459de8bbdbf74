SPECIFICATION Spec
CONSTANTS
    Streams = {"secure_transport"}
    s_size = 2
    MaxSize = 3
    MaxInput = 3
PROPERTY
    NoErrorWithBytes
CHECK_DEADLOCK FALSE
