\* One phi with three predecessors and four slots. A panic stops the program.
CONSTANTS
    i1 = i1
    i2 = i2
    p1 = p1
    k1 = k1
    b1 = b1
    b2 = b2
    b3 = b3
    None = None
    Insts <- OneInst
    Params <- OneParam
    Constants <- OneConstant
    Blocks <- ThreeBlocks
    Kinds <- PhiOnly
    MaxOperands = 4
SPECIFICATION Spec
CHECK_DEADLOCK FALSE
INVARIANTS
    VacantSlotsAreStack
PROPERTIES
    ImplementsPhiMap
