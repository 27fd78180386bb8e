\* Frames below, at and above 2048 bytes, and beyond 4096 bytes.
CONSTANTS
    d1 = d1
    ra0 = ra0
    fp0 = fp0
    s0 = s0
    a0 = a0
    p0 = p0
    p8 = p8
    Garbage = Garbage
    None = None
    Data <- OneDatum
    SlotSizes <- Slots
    ArgSizes <- Args
    MaxSlots = 1
    MaxInsts = 2
    Entry <- MCEntry
    Params <- MCParams
SPECIFICATION Spec
INVARIANTS
    TypeOK
    LayoutSound
    OperandsEncodable
PROPERTIES
    StoresAboveSp
    ImplementsCells
