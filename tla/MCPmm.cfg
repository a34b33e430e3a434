SPECIFICATION Spec
CONSTANTS
    NPages = 6
    WordBits = 2
    RefMax = 2
    ClientRefs = 2
    None = None
INVARIANTS
    TypeOK
    HintSound
    Accounting
PROPERTIES
    ImplementsFrameAllocator
