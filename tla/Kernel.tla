------------------------------- MODULE Kernel -------------------------------
(* The DOOR kernel: the primitives of kernel/primitives.c, the two interrupt   *)
(* handlers, the two i-processes, and the processes that call the primitives.  *)
(*                                                                             *)
(* The kernel runs with interrupts masked (swi_trap_handler, timer_handler and *)
(* uart_handler all start with DISABLE_INTERRUPTS), so a primitive is one step,*)
(* from the trap to the return from exception into whatever process it left    *)
(* current.  Between two steps a timer or UART interrupt may come in, except   *)
(* while an i-process is current: i-processes run with the status register     *)
(* 0x2700, all other processes with 0x0000 (init_local_stack).                 *)
(*                                                                             *)
(* The global variables that carry arguments and results between the stubs of  *)
(* kernel/swi.c and the kernel are not in this module.  A process whose        *)
(* request_memory_block blocked gets no block here: the kernel returns none to *)
(* it (the stub returns whatever ret_code holds by then).                      *)
EXTENDS Scheduler

CONSTANTS
    KCD_PID,            \* the keyboard command decoder
    Blocks,             \* the memory blocks, which are also the messages
    Calls,              \* for every process, the primitives its program calls
    Sends,              \* the pairs <<p, d>> such that p's program sends to d
    NewPriorities       \* the pairs <<p, l>> that %C commands ask for

ASSUME KernelAssumption ==
    /\ KCD_PID \in Pids
    /\ NULL \notin Blocks
    /\ Calls \in [Pids -> SUBSET STRING]
    /\ Sends \subseteq Pids \X Pids
    /\ NewPriorities \subseteq Pids \X Levels

VARIABLES
    kernel,             \* current_pcb, in_i_process, and the fields of the PCBs
                        \* and of the two scheduling queues (see PCBQueues)
    mess_queue,         \* the mailbox of every process, oldest message first
    free_mem_q,         \* the free blocks (any of them may be handed out)
    delayed,            \* delayed_send_queue: pairs of a message and its
                        \* destination; the delays are in module DelayedSend
    held,               \* the blocks every program holds a pointer to
    at                  \* where the program of each i-process is

vars == <<kernel, mess_queue, free_mem_q, delayed, held, at>>
-----------------------------------------------------------------------------
\* start_scheduler dequeues the first process and makes it current.
Init ==
    /\ LET d == dequeue_PCB_FIFO_by_priority(booted, "READY_queue")
       IN  kernel = IF d.pcb = NULL THEN hang(d.s) ELSE context_switch(d.s, d.pcb)
    /\ mess_queue = [p \in Pids |-> << >>]
    /\ free_mem_q = Blocks
    /\ delayed = {}
    /\ held = [p \in Pids |-> {}]
    /\ at = [i \in I_PROCESSES |-> "start"]
-----------------------------------------------------------------------------
(* The primitives, called by the current process c.                            *)

Runs(c) == ~kernel.hung /\ kernel.current = c

Send(c, d, b) ==
    /\ Runs(c) /\ b \in held[c]
    /\ held' = [held EXCEPT ![c] = @ \ {b}]
    /\ mess_queue' = [mess_queue EXCEPT ![d] = Append(@, b)]
    /\ kernel' = wake_receiver(kernel, d)
    /\ UNCHANGED <<free_mem_q, delayed>>

\* Variant for mutation: the message is not taken off the mailbox.
ReceiveMessage_NotUnlinked(c) ==
    /\ Runs(c) /\ mess_queue[c] # << >>
    /\ held' = [held EXCEPT ![c] = @ \cup {Head(mess_queue[c])}]
    /\ UNCHANGED <<kernel, mess_queue, free_mem_q, delayed>>

\* A message is there: it is handed to the caller.
ReceiveMessage(c) ==
    /\ Runs(c) /\ mess_queue[c] # << >>
    /\ held' = [held EXCEPT ![c] = @ \cup {Head(mess_queue[c])}]
    /\ mess_queue' = [mess_queue EXCEPT ![c] = Tail(@)]
    /\ UNCHANGED <<kernel, free_mem_q, delayed>>

\* No message: the caller blocks.  When it is woken its stub traps again.
ReceiveBlocks(c) ==
    /\ Runs(c) /\ mess_queue[c] = << >> /\ ~kernel.in_i_process
    /\ kernel' = wait_for_message(kernel)
    /\ UNCHANGED <<mess_queue, free_mem_q, delayed, held>>

\* Variant for mutation: the test for an empty free list is missing.
RequestBlock_Unchecked(c) ==
    /\ Runs(c)
    /\ \E b \in IF free_mem_q = {} THEN {NULL} ELSE free_mem_q :
         /\ free_mem_q' = free_mem_q \ {b}
         /\ held' = [held EXCEPT ![c] = @ \cup {b}]
    /\ UNCHANGED <<kernel, mess_queue, delayed>>

RequestBlock(c) ==
    /\ Runs(c)
    /\ \E b \in free_mem_q :
         /\ free_mem_q' = free_mem_q \ {b}
         /\ held' = [held EXCEPT ![c] = @ \cup {b}]
    /\ UNCHANGED <<kernel, mess_queue, delayed>>

RequestBlocks(c) ==
    /\ Runs(c) /\ free_mem_q = {} /\ ~kernel.in_i_process
    /\ kernel' = wait_for_memory(kernel)
    /\ UNCHANGED <<mess_queue, free_mem_q, delayed, held>>

Release(c, b) ==
    /\ Runs(c) /\ b \in held[c]
    /\ held' = [held EXCEPT ![c] = @ \ {b}]
    /\ free_mem_q' = free_mem_q \cup {b}
    /\ kernel' = wake_memory_waiter(kernel)
    /\ UNCHANGED <<mess_queue, delayed>>

ReleaseProcessor(c) ==
    /\ Runs(c)
    /\ kernel' = process_switch(kernel)
    /\ UNCHANGED <<mess_queue, free_mem_q, delayed, held>>

\* With a delay of 0 the call is a send_message.
DelayedSend(c, d, b) ==
    /\ Runs(c) /\ b \in held[c]
    /\ held' = [held EXCEPT ![c] = @ \ {b}]
    /\ delayed' = delayed \cup {<<b, d>>}
    /\ UNCHANGED <<kernel, mess_queue, free_mem_q>>

SetPriority(c, p, l) ==
    /\ Runs(c) /\ p # NULL_PID /\ l # NULL_PRIORITY
    /\ kernel' = kernel_set_process_priority(kernel, p, l)
    /\ UNCHANGED <<mess_queue, free_mem_q, delayed, held>>
-----------------------------------------------------------------------------
(* The programs of the ordinary processes call primitives in any order.        *)

Process(c) ==
    /\ c \notin I_PROCESSES
    /\ \/ /\ "send_message" \in Calls[c]
          /\ \E b \in held[c], d \in Pids : <<c, d>> \in Sends /\ Send(c, d, b)
       \/ "receive_message" \in Calls[c] /\ ReceiveMessage(c)
       \/ "receive_message" \in Calls[c] /\ ReceiveBlocks(c)
       \/ "request_memory_block" \in Calls[c] /\ RequestBlock(c)
       \/ "request_memory_block" \in Calls[c] /\ RequestBlocks(c)
       \/ "release_memory_block" \in Calls[c] /\ \E b \in held[c] : Release(c, b)
       \/ "release_processor" \in Calls[c] /\ ReleaseProcessor(c)
       \/ "delayed_send" \in Calls[c] /\ \E b \in held[c] : DelayedSend(c, c, b)
       \/ /\ "set_process_priority" \in Calls[c]
          /\ \E r \in NewPriorities : SetPriority(c, r[1], r[2])
    /\ UNCHANGED at

(* Interrupts.  The saved context of the timer i-process is lost once it       *)
(* blocked in the kernel_receive_message it calls without a trap: its          *)
(* stack_pointer is that of a frame already popped.                            *)

\* Variant for mutation: the i-processes run with interrupts enabled.
InterruptsEnabled_Always == ~kernel.hung
InterruptsEnabled == ~kernel.hung /\ kernel.current \notin I_PROCESSES

timer_handler ==
    /\ InterruptsEnabled
    /\ kernel' = LET k == enter_i_process(kernel, TIMER_PID)
                 IN  IF kernel.state[TIMER_PID] = MESSAGE_WAIT THEN hang(k) ELSE k
    /\ UNCHANGED <<mess_queue, free_mem_q, delayed, held, at>>

uart_handler ==
    /\ InterruptsEnabled
    /\ kernel' = enter_i_process(kernel, UART_PID)
    /\ UNCHANGED <<mess_queue, free_mem_q, delayed, held, at>>

Goto(i, l) == at' = [at EXCEPT ![i] = l]

(* The timer i-process.                                                        *)

\* The loop that moves requests from its mailbox to the delayed send queue: no
\* program sends to the timer, so it ends at once, or blocks.
timer_poll ==
    /\ at[TIMER_PID] = "start" /\ Runs(TIMER_PID)
    /\ mess_queue[TIMER_PID] = << >>
    /\ \/ ReceiveBlocks(TIMER_PID) /\ UNCHANGED at
       \/ /\ kernel.in_i_process
          /\ Goto(TIMER_PID, "expire")
          /\ UNCHANGED <<kernel, mess_queue, free_mem_q, delayed, held>>

timer_expire ==
    /\ at[TIMER_PID] = "expire" /\ Runs(TIMER_PID)
    /\ \E m \in delayed :
         /\ delayed' = delayed \ {m}
         /\ mess_queue' = [mess_queue EXCEPT ![m[2]] = Append(@, m[1])]
         /\ kernel' = wake_receiver(kernel, m[2])
    /\ UNCHANGED <<free_mem_q, held, at>>

timer_done ==
    /\ at[TIMER_PID] = "expire" /\ ReleaseProcessor(TIMER_PID)
    /\ Goto(TIMER_PID, "start")

(* The UART i-process.  A received character becomes a message to the KCD; a   *)
(* transmitter that is ready drains the mailbox.  (The status register is read *)
(* once, at the start: its second bit is chosen here when it is used.)         *)

\* Afterwards the i-process drains its mailbox, or is done.
uart_transmit == \E l \in {"drain", "done"} : Goto(UART_PID, l)

uart_status ==
    /\ at[UART_PID] = "start" /\ Runs(UART_PID)
    /\ Goto(UART_PID, "request") \/ uart_transmit
    /\ UNCHANGED <<kernel, mess_queue, free_mem_q, delayed, held>>

uart_request ==
    /\ at[UART_PID] = "request" /\ Runs(UART_PID)
    /\ \/ RequestBlock(UART_PID) /\ Goto(UART_PID, "send")
       \/ RequestBlocks(UART_PID) /\ uart_transmit
       \/ /\ free_mem_q = {} /\ kernel.in_i_process      \* the character is lost
          /\ uart_transmit
          /\ UNCHANGED <<kernel, mess_queue, free_mem_q, delayed, held>>

uart_send ==
    /\ at[UART_PID] = "send"
    /\ \E b \in held[UART_PID] : Send(UART_PID, KCD_PID, b)
    /\ uart_transmit

uart_drain ==
    /\ at[UART_PID] = "drain" /\ Runs(UART_PID)
    /\ \/ ReceiveMessage(UART_PID) /\ Goto(UART_PID, "write")
       \/ ReceiveBlocks(UART_PID) /\ UNCHANGED at
       \/ /\ mess_queue[UART_PID] = << >> /\ kernel.in_i_process
          /\ Goto(UART_PID, "done")
          /\ UNCHANGED <<kernel, mess_queue, free_mem_q, delayed, held>>

\* The character is written out and its block released, which may hand the
\* processor to a process that waits for memory.
uart_write ==
    /\ at[UART_PID] = "write"
    /\ \E b \in held[UART_PID] : Release(UART_PID, b)
    /\ Goto(UART_PID, "drain")

uart_done ==
    /\ at[UART_PID] = "done" /\ ReleaseProcessor(UART_PID)
    /\ Goto(UART_PID, "start")

IProcess == \/ timer_poll \/ timer_expire \/ timer_done
            \/ uart_status \/ uart_request \/ uart_send
            \/ uart_drain \/ uart_write \/ uart_done

Next == \/ \E c \in Pids : Process(c)
        \/ timer_handler
        \/ uart_handler
        \/ IProcess

Spec == Init /\ [][Next]_vars

\* The timer interrupts again and again (TIMER0 is reloaded in init.c), and an
\* i-process that is current takes its next step: it runs with interrupts
\* masked.  Nothing is assumed of the ordinary programs, which may loop for ever
\* without a call.
\* Both are weak fairness, with the condition under which the action is enabled
\* written out: TLC is slow at ENABLED for these actions.
IProcessRuns == ~kernel.hung /\ kernel.current \in I_PROCESSES
TimerInterrupts == []<>~InterruptsEnabled \/ []<><<timer_handler>>_vars
IProcessProceeds == []<>~IProcessRuns \/ []<><<IProcess>>_vars

FairSpec == Spec /\ TimerInterrupts /\ IProcessProceeds
-----------------------------------------------------------------------------
Places == {"start", "expire", "request", "send", "drain", "write", "done"}

TypeOK ==
    /\ kernel \in KernelStates
    /\ mess_queue \in [Pids -> Seq(Blocks)]
    /\ free_mem_q \in SUBSET Blocks
    /\ delayed \in SUBSET (Blocks \X Pids)
    /\ held \in [Pids -> SUBSET Blocks]
    /\ at \in [I_PROCESSES -> Places]

\* A process that waits for a message has none: a send to a waiting process
\* always wakes it, whoever sends and whatever happened in between, so no
\* message is left in the mailbox of a process that sleeps (primitives.c:94).
NoLostWakeup ==
    \A p \in Pids : kernel.state[p] = MESSAGE_WAIT => mess_queue[p] = << >>

\* highest_prio of both queues is that of the most urgent list in use, whatever
\* calls and interrupts came before, as long as no priority is changed:
\* process_switch compares it with the priority of the current process.  (A change
\* that takes the tail out of a longer list breaks the lists, queue.c:322: run
\* queue_remove_tail.  Run kernel_prio, which changes priorities, does not check this.)
HighestPrioExact == \A Q \in Queues : highest_prio_exact(kernel, Q)

\* No block is in two places: free, in two mailboxes, twice in one mailbox,
\* in the delayed send queue, or in the hands of two programs; and none is
\* lost.  The kernel links and unlinks blocks without any owner check.
InMailbox(p, b) == {i \in DOMAIN mess_queue[p] : mess_queue[p][i] = b}
PlacesOf(b) ==
    {<<"free", NULL_PID, 0>> : x \in {y \in free_mem_q : y = b}}
    \cup {<<"delayed", m[2], 0>> : m \in {y \in delayed : y[1] = b}}
    \cup {<<"held", p, 0>> : p \in {q \in Pids : b \in held[q]}}
    \cup UNION {{<<"mailbox", p, i>> : i \in InMailbox(p, b)} : p \in Pids}
BlocksInOnePlace ==
    \A b \in Blocks : \E x \in PlacesOf(b) : PlacesOf(b) = {x}

Users == Pids \ I_PROCESSES

\* The programs and priorities of init.c, as far as this depends on them: no
\* priority is changed; the ordinary processes are linked in once each, at other
\* priorities than the i-processes; one of them never waits and is more urgent than
\* the i-processes (task.c); and nobody sends to a process less urgent than himself.
\* (The commands are registered from HIGH to MEDIUM, but before the KCD first runs:
\* those sends wake nobody, and are not in Sends.)
AsBooted ==
    /\ \A c \in Pids : "set_process_priority" \notin Calls[c]
    /\ \A p \in Users : \E i \in DOMAIN BootOrder : BootOrder[i] = p
    /\ \A i, j \in DOMAIN BootOrder : BootOrder[i] = BootOrder[j] => i = j
    /\ \A p \in Users, i \in I_PROCESSES : BootPriority[p] # BootPriority[i]
    /\ \E p \in Users :
         /\ "receive_message" \notin Calls[p] /\ "request_memory_block" \notin Calls[p]
         /\ \A i \in I_PROCESSES : BootPriority[p] < BootPriority[i]
    /\ \A c, d \in Users : <<c, d>> \in Sends => BootPriority[d] <= BootPriority[c]

\* As the system boots and until a priority is changed, every ordinary process
\* is in exactly one place: current; or on the ready queue, once, on the list
\* of its priority; or on the memory wait queue, once, and in MEMORY_WAIT; or
\* in MESSAGE_WAIT and on no list.  No list of their priorities is broken.
\* (The list of the i-processes is: their
\* release_processor links the i-process in, and no one unlinks it.)
BelongsOn(Q, l) ==
    {p \in Users : /\ kernel.priority[p] = l
                   /\ IF Q = "READY_queue"
                      THEN kernel.state[p] \in {READY, RUNNING} /\ p # kernel.current
                      ELSE kernel.state[p] = MEMORY_WAIT}

ListIsExactly(Q, l, S) ==
    /\ walk_ends(kernel, Q, l)
    /\ LET list == list_of(kernel, Q, l)
       IN  /\ {list[i] : i \in DOMAIN list} = S
           /\ Len(list) = Cardinality(S)

ProcessInOnePlace ==
    /\ \A Q \in Queues, l \in {kernel.priority[p] : p \in Users} :
         ListIsExactly(Q, l, BelongsOn(Q, l))
    /\ kernel.state[kernel.current] \in {READY, RUNNING}

\* The kernel never walks a broken list and never dispatches a null PCB.
NeverHangs == ~kernel.hung

\* Round robin: at any time, every ordinary process will run, or be found waiting,
\* or be found less urgent than some ready process, however the processes of its
\* own priority behave: the timer interrupt moves the current process to the end
\* of its list.
TopProcessRuns ==
    \A p \in Users :
        []<>(\/ kernel.current = p
             \/ kernel.state[p] \in {MESSAGE_WAIT, MEMORY_WAIT}
             \/ kernel.highest_prio["READY_queue"] < kernel.priority[p])

\* An interrupt ends: the flag that makes every primitive non-blocking and keeps
\* send_message from switching is always cleared again.
InterruptEnds == []<>~kernel.in_i_process

\* SDD section 4.2: "primitives that are called by the i-processes are written
\* to ensure the i-process cannot be blocked".
IProcessNeverWaits ==
    \A i \in I_PROCESSES : kernel.state[i] \notin {MESSAGE_WAIT, MEMORY_WAIT}

\* An i-process keeps the processor until it has done its work and gives it up,
\* with one exception: its release of the block of a character it wrote wakes a
\* process that waited for memory and is more urgent than the i-process, that is
\* any but the null process (primitives.c:205, init.c:201, 216).
IProcessKeepsProcessor ==
    [][\A i \in I_PROCESSES : kernel.current = i /\ kernel'.current # i =>
          \/ at'[i] = "start"
          \/ /\ at[i] = "write"
             /\ \E p \in Users : /\ kernel.state[p] = MEMORY_WAIT
                                 /\ kernel'.state[p] # MEMORY_WAIT
                                 /\ kernel.priority[p] < kernel.priority[i]]_vars

\* print_ready_queue and print_memory_queue: a list is skipped if it is empty,
\* and walked from its head until the walk is at its tail.
hotkey_ends(Q, l) ==
    \/ kernel.head[Q][l] = NULL /\ kernel.tail[Q][l] = NULL
    \/ LET at_turn == walk(kernel, kernel.head[Q][l])
       IN  \E i \in Turns : at_turn[i] = kernel.tail[Q][l]

\* A list of the ready queue that begins with an i-process linked to itself and
\* ends with another process.
knotted_on_head(Q, l) ==
    /\ Q = "READY_queue"
    /\ \E i \in I_PROCESSES :
         kernel.head[Q][l] = i /\ kernel.next[i] = i /\ kernel.tail[Q][l] # i

\* The hotkeys walk the live lists with interrupts masked.  Every walk ends, of
\* the lists with i-processes that were linked twice too, but where such a list is
\* knotted on its head.  (It is after an i-process was dispatched by two interrupts
\* with one of the other i-process before them.  A hotkey Q pressed in such a state
\* does not return; the state ends when an interrupt moves the tail to the head.)
HotkeyWalksEnd ==
    \A Q \in Queues, l \in Levels : knotted_on_head(Q, l) \/ hotkey_ends(Q, l)
=============================================================================
