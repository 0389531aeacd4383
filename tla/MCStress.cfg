SPECIFICATION Spec
CONSTANTS
    A1 = A1
    A2 = A2
    B1 = B1
    B2 = B2
    C1 = C1
    C2 = C2
    A <- MCA
    B <- MCB
    to_b <- MCto_b
    to_c <- MCto_c
    NUM_MEM_BLOCKS = 9
    TWENTY = 2
    MaxReports <- MCMaxReports
    MaxCommands = 2
INVARIANTS
    PipelineInOrder
    UsesOnlyItsOwn
    BlocksAccountedFor
CHECK_DEADLOCK FALSE
PROPERTY
    ReportsHandled
