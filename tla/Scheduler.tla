------------------------------ MODULE Scheduler ------------------------------
(* The scheduling part of kernel/primitives.c: context_switch, process_switch, *)
(* what the primitives do to the processes they block, wake and move, and the  *)
(* state in which start_scheduler leaves the PCBs.                             *)
(* The operators are functions from the state of the kernel to its next state: *)
(* a record with the fields PCBQueues needs, and                               *)
(*   current         the pid of current_pcb,                                   *)
(*   in_i_process    set by the interrupt handlers,                            *)
(*   state[p]        of the PCB of process p.                                  *)
EXTENDS PCBQueues, Sequences

CONSTANTS
    NULL_PID, TIMER_PID, UART_PID,      \* pids with a role in scheduling
    BootOrder,          \* the PCBs in the order init.c links them in
    BootPriority        \* the priority init.c gives to every process

ASSUME SchedulerAssumption ==
    /\ {NULL_PID, TIMER_PID, UART_PID} \subseteq Pids
    /\ BootOrder \in Seq(Pids \ {TIMER_PID, UART_PID})
    /\ BootPriority \in [Pids -> Levels]

NULL_PRIORITY == 4
I_PROCESSES == {TIMER_PID, UART_PID}

READY == "READY"
RUNNING == "RUNNING"
MESSAGE_WAIT == "MESSAGE_WAIT"
MEMORY_WAIT == "MEMORY_WAIT"
States == {READY, RUNNING, MESSAGE_WAIT, MEMORY_WAIT}

KernelStates ==
    [current : Pids, in_i_process : BOOLEAN, hung : BOOLEAN,
     state : [Pids -> States],
     priority : [Pids -> Levels],
     next : [Pids -> Pointers],
     head : [Queues -> [Levels -> Pointers]],
     tail : [Queues -> [Levels -> Pointers]],
     highest_prio : [Queues -> 0 .. NUM_PRIO + 1]]
-----------------------------------------------------------------------------
\* context_switch saves the context of the process it leaves and restores the
\* one of p; it never returns to its caller.
context_switch(k, p) == [k EXCEPT !.current = p]

\* What kernel_receive_message and kernel_request_memory_block do after they
\* made the current process wait.
dispatch(k) ==
    LET d == dequeue_PCB_FIFO_by_priority(k, "READY_queue")
    IN  IF d.pcb = NULL THEN hang(d.s)
        ELSE context_switch([d.s EXCEPT !.state[d.pcb] = RUNNING],
                            d.pcb)

\* Variants for mutation: the process that gives up the processor is not put
\* back on the ready queue; the flag of the i-processes is not cleared.
process_switch_NotEnqueued(k) ==
    LET d == dequeue_PCB_FIFO_by_priority(k, "READY_queue")
        run == [d.s EXCEPT !.state[d.pcb] = RUNNING,
                           !.state[k.current] = READY,
                           !.in_i_process = FALSE]
    IN  IF k.highest_prio["READY_queue"] > k.priority[k.current] THEN k
        ELSE IF d.pcb = NULL THEN hang(d.s)
        ELSE context_switch(run, d.pcb)

process_switch_FlagKept(k) ==
    LET d == dequeue_PCB_FIFO_by_priority(k, "READY_queue")
        run == [d.s EXCEPT !.state[d.pcb] = RUNNING,
                           !.state[k.current] = READY]
    IN  IF k.highest_prio["READY_queue"] > k.priority[k.current] THEN k
        ELSE IF d.pcb = NULL THEN hang(d.s)
        ELSE context_switch(enqueue_PCB_by_priority(run, "READY_queue", k.current),
                            d.pcb)

process_switch(k) ==
    LET d == dequeue_PCB_FIFO_by_priority(k, "READY_queue")
        run == [d.s EXCEPT !.state[d.pcb] = RUNNING,
                           !.state[k.current] = READY,
                           !.in_i_process = FALSE]
    IN  IF k.highest_prio["READY_queue"] > k.priority[k.current] THEN k
        ELSE IF d.pcb = NULL THEN hang(d.s)
        ELSE context_switch(enqueue_PCB_by_priority(run, "READY_queue", k.current),
                            d.pcb)

make_ready(k, p) ==
    enqueue_PCB_by_priority([k EXCEPT !.state[p] = READY],
                            "READY_queue", p)

\* Variant for mutation: a send by an i-process does not wake the receiver.
wake_receiver_NotFromIProcess(k, d) ==
    IF k.in_i_process \/ k.state[d] # MESSAGE_WAIT THEN k ELSE make_ready(k, d)

\* kernel_send_message after the message was put into d's mailbox.  The switch
\* happens for a receiver with a greater priority number, that is a less urgent
\* one, and it puts the sender on no queue.
wake_receiver(k, d) ==
    LET woken == make_ready(k, d)
        next_pcb == dequeue_PCB_FIFO_by_priority(woken, "READY_queue")
    IN  IF k.state[d] # MESSAGE_WAIT THEN k
        ELSE IF k.priority[d] > k.priority[k.current] /\ ~k.in_i_process
        THEN IF next_pcb.pcb = NULL THEN hang(next_pcb.s)
             ELSE context_switch(next_pcb.s, next_pcb.pcb)
        ELSE woken

\* The blocking branch of kernel_receive_message.
wait_for_message(k) ==
    dispatch([k EXCEPT !.state[k.current] = MESSAGE_WAIT])

\* The blocking branch of kernel_request_memory_block.
wait_for_memory(k) ==
    dispatch(enqueue_PCB_by_priority(
        [k EXCEPT !.state[k.current] = MEMORY_WAIT],
        "MEMORY_WAIT_queue", k.current))

\* kernel_release_memory_block after the block was put on the free list.
wake_memory_waiter(k) ==
    LET d == dequeue_PCB_FIFO_by_priority(k, "MEMORY_WAIT_queue")
        woken == make_ready(d.s, d.pcb)
    IN  IF is_METAPCB_queue_empty(k, "MEMORY_WAIT_queue") THEN k
        ELSE IF d.pcb = NULL THEN hang(d.s)
        ELSE IF k.priority[d.pcb] < k.priority[k.current]
        THEN process_switch(woken)
        ELSE woken

\* kernel_set_process_priority for a process that exists and is not the null
\* process.  (The error returns change nothing.)
kernel_set_process_priority(k, p, l) ==
    LET given(x) == [x EXCEPT !.priority[p] = l]
        Q == IF k.state[p] = MEMORY_WAIT THEN "MEMORY_WAIT_queue" ELSE "READY_queue"
        r == remove_element_by_priority(k, Q, p)
        relinked == enqueue_PCB_by_priority(given(r.s), Q, p)
    IN  IF p = k.current
        THEN IF l <= k.priority[p] THEN given(k) ELSE process_switch(given(k))
        ELSE IF k.state[p] = MESSAGE_WAIT THEN given(k)
        ELSE IF ~r.found THEN r.s
        ELSE IF Q = "READY_queue" /\ l < k.priority[k.current]
        THEN process_switch(relinked)
        ELSE relinked

\* Variant for mutation: the handler does not set in_i_process.
enter_i_process_FlagNotSet(k, i) ==
    context_switch(enqueue_PCB_by_priority(k, "READY_queue", k.current), i)

\* timer_handler and uart_handler: the interrupted process goes back to the
\* ready queue, still RUNNING, and the i-process is resumed where it last gave
\* up the processor.
enter_i_process(k, i) ==
    context_switch(enqueue_PCB_by_priority([k EXCEPT !.in_i_process = TRUE],
                                           "READY_queue", k.current), i)
-----------------------------------------------------------------------------
(* Booting: start_scheduler links the PCBs in one after the other and starts   *)
(* the first one it dequeues.                                                  *)

BootIndices(l) == {i \in DOMAIN BootOrder : BootPriority[BootOrder[i]] = l}
Newest(S) == CHOOSE i \in S : \A j \in S : j <= i
Oldest(S) == CHOOSE i \in S : \A j \in S : i <= j

\* The PCB linked in just before BootOrder[i] on the list of its priority.
BootNext(i) ==
    LET before == {j \in BootIndices(BootPriority[BootOrder[i]]) : j < i}
    IN  IF before = {} THEN NULL ELSE BootOrder[Newest(before)]

\* The first and the last PCB of a list: PCBs are linked in at the head.
BootHead(l) ==
    IF BootIndices(l) = {} THEN NULL ELSE BootOrder[Newest(BootIndices(l))]
BootTail(l) ==
    IF BootIndices(l) = {} THEN NULL ELSE BootOrder[Oldest(BootIndices(l))]

booted ==
    LET linked ==
            [current |-> NULL_PID, in_i_process |-> FALSE, hung |-> FALSE,
             state |-> [p \in Pids |-> READY],
             priority |-> BootPriority,
             next |-> [p \in Pids |->
                         IF \E i \in DOMAIN BootOrder : BootOrder[i] = p
                         THEN BootNext(CHOOSE i \in DOMAIN BootOrder : BootOrder[i] = p)
                         ELSE NULL],
             head |-> [empty_queues.head EXCEPT !["READY_queue"] =
                         [l \in Levels |-> BootHead(l)]],
             tail |-> [empty_queues.tail EXCEPT !["READY_queue"] =
                         [l \in Levels |-> BootTail(l)]],
             highest_prio |-> empty_queues.highest_prio]
    IN  [linked EXCEPT
            !.highest_prio["READY_queue"] = first_not_empty(linked, "READY_queue", 0)]
=============================================================================
