SPECIFICATION FairSpec
CONSTANTS
    n1 = n1
    n2 = n2
    n3 = n3
    n4 = n4
    NULL = NULL
    Nodes <- MCNodes
INVARIANTS
    TypeOK
    ListShape
    WalkStaysLinked
PROPERTIES
    ImplementsFifo
    WalkTerminates
