SPECIFICATION Spec
CONSTANTS
    nul = nul
    kcd = kcd
    user = user
    crt = crt
    timer = timer
    uart = uart
    b1 = b1
    b2 = b2
    NULL = NULL
    Pids <- MCPids
    Blocks <- MCBlocks
    NULL_PID = nul
    TIMER_PID = timer
    UART_PID = uart
    KCD_PID = kcd
    CRT_PID = crt
    BootOrder <- MCBootOrder
    BootPriority <- MCBootPriority
    Program <- MCProgram
    MaxInterrupts = 3
SYMMETRY Symmetry
INVARIANTS
    IProcessCallsItsOwn
    UninterruptedCallIsOwn
    NoLostWakeup
CHECK_DEADLOCK FALSE
