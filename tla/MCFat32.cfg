SPECIFICATION Spec
CONSTANTS
    a = a
    b = b
    c = c
    Names = {a, b}
    Title <- MCTitle
    NClusters = 5
    PerSector = 4
    DirSlots = 1
    MaxIndex = 2
    MaxUnread = 1
    Ops = {"create", "write", "delete", "truncate", "rename", "sync"}
    Faults = {}
    NoEntry = NoEntry
INVARIANTS
    TypeOK
    Consistent
    FreeCountExact
    DurableAtRest
    NoStaleContent
    WritesKeepData
