\* Both strategies and directions, lists of up to three nodes, four nodes.
CONSTANTS
    n1 = n1
    n2 = n2
    n3 = n3
    n4 = n4
    c1 = c1
    c2 = c2
    None = None
    Node <- FourNodes
    Container <- TwoContainers
    Walked = c1
    Other = c2
    Initial <- UpToThree
SPECIFICATION WalkSpec
INVARIANTS
    VisitsOriginals
    VisitsInOrder
PROPERTIES
    GivesLinked
    StaleNodeIsLast
    ForEachEnds
