SPECIFICATION Spec
CONSTANTS
    a = a
    b = b
    c = c
    Names = {a, b}
    Title <- MCTitle
    NClusters = 4
    PerSector = 4
    DirSlots = 1
    MaxIndex = 1
    MaxUnread = 1
    Ops = {"create", "delete"}
    Faults = {"crash"}
    NoEntry = NoEntry
INVARIANTS
    CrashTolerant
