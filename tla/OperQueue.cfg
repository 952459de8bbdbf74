SPECIFICATION Spec
CONSTANTS
    Opers = {o1, o2, o3, o4}
    Queues = {q1, q2}
    Null = Null
PROPERTY
    ImplementsFifo
