\* Every call, three nodes in two containers, loops turn by turn. A failing
\* assertion stops the program.
CONSTANTS
    n1 = n1
    n2 = n2
    n3 = n3
    c1 = c1
    c2 = c2
    None = None
    Container <- TwoContainers
    Node <- ThreeNodes
    MaxBatch = 2
SPECIFICATION FairSpec
INVARIANTS
    LinksConsistent
    WalksMeetMembers
PROPERTIES
    OnlySelfAppendFails
    ImplementsSeqs
    ExtendsInOrder
    LoopsEnd
CHECK_DEADLOCK FALSE
