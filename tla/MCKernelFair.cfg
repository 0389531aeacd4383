SPECIFICATION FairSpec
CONSTANTS
    nul = nul
    spin = spin
    user = user
    kcd = kcd
    crt = crt
    timer = timer
    uart = uart
    b1 = b1
    NULL = NULL
    Pids <- MCPids
    Blocks <- MCBlocks
    NULL_PID = nul
    TIMER_PID = timer
    UART_PID = uart
    KCD_PID = kcd
    BootOrder <- MCBootOrder
    BootPriority <- MCBootPriority
    Calls <- MCCalls
    Sends <- MCSends
    NewPriorities <- NoNewPriorities
PROPERTIES
    TopProcessRuns
    InterruptEnds
