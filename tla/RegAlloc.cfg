\* Bodies of three blocks with up to two instructions, branches apart.
CONSTANTS
    PRegs <- MCPRegs
    Imms <- MCImms
    SpOffsets <- MCSpOffsets
    Blocks = 3
    MaxInsts = 2
    MaxVRegs = 3
    MaxNamed = 3
SPECIFICATION Spec
\* Allocation ends this part of the compiler.
CHECK_DEADLOCK FALSE
INVARIANTS
    SelectionKeepsMeaning
    SpillingKeepsMeaning
    AllocationKeepsMeaning
    EffectsReported
