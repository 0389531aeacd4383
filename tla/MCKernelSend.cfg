SPECIFICATION Spec
CONSTANTS
    nul = nul
    spin = spin
    kcd = kcd
    user = user
    crt = crt
    timer = timer
    uart = uart
    b1 = b1
    b2 = b2
    NULL = NULL
    Pids <- MCPids
    Blocks <- MCBlocks
    NULL_PID = nul
    TIMER_PID = timer
    UART_PID = uart
    KCD_PID = kcd
    BootOrder <- MCBootOrder
    BootPriority <- MCBootPriority
    Calls <- MCCalls
    Sends <- MCSends
    NewPriorities <- NoNewPriorities
PROPERTY SenderPreemptedForUrgent
