SPECIFICATION Spec
CONSTANTS
    NSockets = 2
    RingSize = 2
    Mss = 2
    Timeout = 1
    MaxConnects = 2
    MaxData = 2
    MaxSend = 1
CHECK_DEADLOCK FALSE
INVARIANTS
    TypeOK
    StreamInOrder
    Accounted
    NoLeakedSlot
PROPERTIES
    ReturnsWhenTicking
