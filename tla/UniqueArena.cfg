\* Any client, two of three values colliding. A panic stops the program.
CONSTANTS
    d1 = d1
    d2 = d2
    d3 = d3
    h1 = h1
    h2 = h2
    Absent = Absent
    UniquePtr <- FourPtrs
    UniqueData <- ThreeData
    HashVal <- TwoHashes
    Hash <- Colliding
SPECIFICATION UniqueSpec
INVARIANTS
    StoredOnce
    MapMatchesArena
    PanicsOnlyAfterMutation
CHECK_DEADLOCK FALSE
