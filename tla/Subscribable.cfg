SPECIFICATION Spec
CONSTANTS
    Subscribables = {s1, s2}
    Tokens = {t1, t2}
    MaxToken = 4
    None = None
INVARIANT
    TokenIdentifiesObserver
CHECK_DEADLOCK FALSE
