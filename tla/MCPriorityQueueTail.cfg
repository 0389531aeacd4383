SPECIFICATION Spec
CONSTANTS
    p1 = p1
    p2 = p2
    p3 = p3
    p4 = p4
    NULL = NULL
    Pids <- MCPids
    Q <- MCQueue
    Priorities <- MCPriorities
    MoveTails = TRUE
SYMMETRY Symmetry
INVARIANT
    ListsHoldTheLinked
