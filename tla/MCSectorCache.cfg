SPECIFICATION Spec
CONSTANTS
    d1 = d1
    d2 = d2
    Devices = {d1, d2}
    NLba = 3
    NSlots = 2
    Direct = {2}
    Values = {0, 1}
    Zero = 0
    Nothing = Nothing
INVARIANTS
    TypeOK
    CleanIsCurrent
    FlushedBehind
PROPERTIES
    ImplementsWriteBackStore
