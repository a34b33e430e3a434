SPECIFICATION Spec
CONSTANTS
    NSockets = 1
    RingSize = 3
    Mss = 2
    Timeout = 1
    MaxConnects = 1
    MaxData = 3
    MaxSend = 1
CHECK_DEADLOCK FALSE
INVARIANTS
    NothingAckedIsLost
