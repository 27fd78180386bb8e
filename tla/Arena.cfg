\* Every client, double frees included: the program can abort.
CONSTANTS
    d1 = d1
    d2 = d2
    None = None
    Data <- MCData
    MaxEntries = 4
SPECIFICATION Spec
INVARIANTS
    FreeListIsStack
    PanicsOnlyAfterDoubleFree
PROPERTIES
    GrowOnlyWhenFull
    ImplementsStore
CHECK_DEADLOCK FALSE
