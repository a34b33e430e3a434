SPECIFICATION Spec
CONSTANTS
    a = a
    b = b
    c = c
    Names = {a, b, c}
    Title <- MCTitle
    NClusters = 4
    PerSector = 4
    DirSlots = 1
    MaxIndex = 1
    MaxUnread = 1
    Ops = {"create", "write"}
    Faults = {"crash", "ioerror"}
    NoEntry = NoEntry
INVARIANTS
    CrashTolerant
    CreatedZeroed
    Recovered
