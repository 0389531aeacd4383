SPECIFICATION Spec
CONSTANTS
    NUM_MEM_BLOCKS = 7
    NULL = NULL
    Lines <- MCLines
    Times <- MCTimes
    Priorities <- MCPriorities
    Stale <- MCStale
    MAX_COMMAND_SIZE = 3
    MaxLines = 1
    MaxAhead = 2
    MaxTicks = 1
INVARIANTS
    TypeOK
    CommandsTypedOverStale
    TickOnItsWay
    UsesOnlyItsOwn
PROPERTY
    TickIsOneSecond
CHECK_DEADLOCK FALSE
