SPECIFICATION Spec
CONSTANTS
    p1 = p1
    p2 = p2
    i1 = i1
    i2 = i2
    i3 = i3
    Processes = {p1, p2}
    Instances = {i1, i2, i3}
    Home <- MCHome
    LockInfos = {l1, l2, l3}
    Files = {f1, f2}
    Nobody = Nobody
    None = None
INVARIANTS
    LockInfoShared
PROPERTIES
    ImplementsCrashLock
    SomebodyGetsIn
CHECK_DEADLOCK FALSE
