\* Two instructions of every kind, one of which may use the other. A panic stops the program.
CONSTANTS
    i1 = i1
    i2 = i2
    p1 = p1
    k1 = k1
    b1 = b1
    b2 = b2
    b3 = b3
    None = None
    Insts <- TwoInsts
    Params <- OneParam
    Constants <- OneConstant
    Blocks <- TwoBlocks
    Kinds <- AllKinds
    MaxOperands = 2
SPECIFICATION Spec
CHECK_DEADLOCK FALSE
SYMMETRY Symmetric
INVARIANTS
    UsersMatchOperands
    OperandsKnowTheirSlot
