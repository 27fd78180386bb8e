\* Up to three instructions at a time, built in up to four steps, in two blocks.
CONSTANTS
    Blocks = 2
    Near = Near
    Far = Far
    NearAddr = NearAddr
    FarAddr = FarAddr
    Other = Other
    Li = Li
    Add = Add
    Addi = Addi
    Resolved = Resolved
    None = None
    MaxInsts = 3
    MaxBuilt = 4
    MaxEntries = 10
SPECIFICATION Spec
\* The walk ends.
CHECK_DEADLOCK FALSE
INVARIANTS
    LinkedAreLive
    NeverPanics
PROPERTIES
    ImplementsAdjustSeq
    WalkEnds
