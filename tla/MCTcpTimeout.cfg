SPECIFICATION Spec
CONSTANTS
    NSockets = 1
    RingSize = 2
    Mss = 2
    Timeout = 1
    MaxConnects = 1
    MaxData = 2
    MaxSend = 1
CHECK_DEADLOCK FALSE
PROPERTIES
    Returns
