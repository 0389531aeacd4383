------------------------------ MODULE Syscalls ------------------------------
(* kernel/swi.c: how a primitive is called.  A stub writes the arguments and   *)
(* the opcode to global variables, traps, and reads the result from another    *)
(* global.  There is one set of globals for all processes and for both         *)
(* i-processes, and only the trap itself runs with interrupts masked: every    *)
(* assignment, trap and read of a stub is a step here, and an interrupt may    *)
(* come between any two steps of an ordinary process.                          *)
(*                                                                             *)
(* What a trap does to the scheduling queues is in module Scheduler.  The      *)
(* programs are those on the way of a key from the UART to the keyboard        *)
(* decoder, the display and back, and of a process that registers a command.   *)
(* No message is delayed, so the timer only ticks.                             *)
(*                                                                             *)
(* The behaviours end (kernel.hung) where the model of the data ends: when a   *)
(* program uses NULL as a message, or a block that is linked into a queue is   *)
(* linked into another one.                                                    *)
EXTENDS Scheduler

CONSTANTS
    KCD_PID, CRT_PID,   \* the keyboard decoder and the display
    Blocks,             \* the memory blocks, which are also the messages
    Program,            \* the programs of the processes that make calls
    MaxInterrupts       \* bound: how many interrupts come in

ASSUME SyscallsAssumption ==
    /\ {KCD_PID, CRT_PID} \subseteq Pids
    /\ NULL \notin Blocks /\ Blocks \cap Pids = {}
    /\ DOMAIN Program \subseteq Pids \ {TIMER_PID}
    /\ \A c \in DOMAIN Program : \A l \in DOMAIN Program[c] :
         Program[c][l].call \in {"release_processor", "send_message", "receive_message",
                                 "request_memory_block", "release_memory_block"}
    /\ MaxInterrupts \in Nat

VARIABLES
    kernel,             \* see Scheduler
    mess_queue,         \* the mailbox of every process, oldest message first
    free_mem_q,         \* the free blocks (any of them may be handed out)
    globals,            \* kernel_code, param_1, param_2, ret_code,
                        \* ret_code_recv and msg_return of swi.c
    todo,               \* the rest of the stub every process is in
    at,                 \* the labels every program may go on to
    pointer,            \* the messages a program has: "in" is the one it
                        \* received, "out" the one it requested
    fate,               \* history: what happened to the call a process is in:
                        \* the kernel's answer to its last trap, whether it was
                        \* interrupted, whether it was made to wait
    interrupts          \* counted for the bound

vars == <<kernel, mess_queue, free_mem_q, globals, todo, at, pointer, fate, interrupts>>

\* A trap that returned nothing to its caller: it blocked or switched away, or
\* was no call for a message or a block.
NOTHING == "nothing"
Fresh == [answer |-> NOTHING, interrupted |-> FALSE, waited |-> FALSE]

RTX_SUCCESS == NULL         \* both are 0
RTX_ERROR == -1
-----------------------------------------------------------------------------
(* The stubs, as sequences of steps.                                           *)

set(g, v) == [op |-> "set", what |-> g, value |-> v]
again == [op |-> "again"]       \* the test of msg_return
result(g, w, null) == [op |-> "result", what |-> g, to |-> w, null |-> null]

\* The call a process means to make is kept with its trap.
TRAP0(call) == [op |-> "trap", call |-> call]

RELEASE_PROCESSOR == [code |-> "RELEASE_PROCESSOR"]
SEND_MESSAGE(d, b) == [code |-> "SEND_MESSAGE", param_1 |-> d, param_2 |-> b]
RECEIVE_MESSAGE == [code |-> "RECEIVE_MESSAGE"]
REQUEST_MEMORY == [code |-> "REQUEST_MEMORY"]
RELEASE_MEMORY(b) == [code |-> "RELEASE_MEMORY", param_1 |-> b]

release_processor == <<set("kernel_code", "RELEASE_PROCESSOR"), TRAP0(RELEASE_PROCESSOR)>>

send_message(d, b) ==
    <<set("param_1", d), set("param_2", b),
      set("kernel_code", "SEND_MESSAGE"), TRAP0(SEND_MESSAGE(d, b))>>

\* Variant for mutation: the opcode is written once, before the loop.
receive_again_CodeKept == <<TRAP0(RECEIVE_MESSAGE)>>

\* One turn of the loop "while (!msg_return)" of receive_message.
receive_again == <<set("kernel_code", "RECEIVE_MESSAGE"), TRAP0(RECEIVE_MESSAGE)>>

receive_message(w, null) ==
    <<set("msg_return", FALSE), set("ret_code_recv", NULL), set("param_1", NULL),
      set("kernel_code", "RECEIVE_MESSAGE"), TRAP0(RECEIVE_MESSAGE),
      again, result("ret_code_recv", w, null)>>

request_memory_block(w, null) ==
    <<set("kernel_code", "REQUEST_MEMORY"), TRAP0(REQUEST_MEMORY),
      result("ret_code", w, null)>>

release_memory_block(b) ==
    <<set("param_1", b), set("kernel_code", "RELEASE_MEMORY"), TRAP0(RELEASE_MEMORY(b))>>
-----------------------------------------------------------------------------
(* The programs: for every label the call made there, the labels the program   *)
(* may go on to, and those for a NULL result: FAULT, that is none, where the   *)
(* program uses the result untested.                                           *)

FAULT == {}

releases(next) == [call |-> "release_processor", next |-> next]
sends(w, d, next) == [call |-> "send_message", what |-> w, to |-> d, next |-> next]
receives(w, next, null) ==
    [call |-> "receive_message", what |-> w, next |-> next, null |-> null]
requests(w, next, null) ==
    [call |-> "request_memory_block", what |-> w, next |-> next, null |-> null]
frees(w, next) == [call |-> "release_memory_block", what |-> w, next |-> next]

\* register_command, then the wait for the first command.
registration_program ==
    [start |-> requests("out", {"register"}, FAULT),
     register |-> sends("out", KCD_PID, {"wait"}),
     wait |-> receives("in", {"free"}, FAULT),
     free |-> frees("in", {"wait"})]

\* kcd_process, for keys that belong to no command.
kcd_program ==
    [start |-> receives("in", {"echo"}, FAULT),
     echo |-> sends("in", CRT_PID, {"start"})]

\* crt_process, for a message with any number of characters.
crt_program ==
    [start |-> receives("in", {"request", "free"}, {"idle"}),
     request |-> requests("out", {"send"}, FAULT),
     send |-> sends("out", UART_PID, {"request", "free"}),
     free |-> frees("in", {"start"}),
     idle |-> releases({"start"})]

\* uart_i_process: what it does depends on the status register it reads when it
\* starts again after its release_processor.
uart_starts == {"request", "receive", "done"}
uart_program ==
    [request |-> requests("out", {"send"}, {"receive", "done"}),
     send |-> sends("out", KCD_PID, {"receive", "done"}),
     receive |-> receives("in", {"write"}, {"done"}),
     write |-> frees("in", {"receive"}),
     done |-> releases(uart_starts)]

stub(c, x) ==
    CASE x.call = "release_processor" -> release_processor
      [] x.call = "send_message" -> send_message(x.to, pointer[c][x.what])
      [] x.call = "receive_message" -> receive_message(x.what, x.null)
      [] x.call = "request_memory_block" -> request_memory_block(x.what, x.null)
      [] x.call = "release_memory_block" -> release_memory_block(pointer[c][x.what])

Init ==
    /\ LET d == dequeue_PCB_FIFO_by_priority(booted, "READY_queue")
       IN  kernel = IF d.pcb = NULL THEN hang(d.s) ELSE context_switch(d.s, d.pcb)
    /\ mess_queue = [p \in Pids |-> << >>]
    /\ free_mem_q = Blocks
    /\ globals = [kernel_code |-> "NONE", param_1 |-> NULL, param_2 |-> NULL,
                  ret_code |-> NULL, ret_code_recv |-> NULL, msg_return |-> FALSE]
    /\ todo = [p \in Pids |-> << >>]
    /\ at = [p \in Pids |-> IF p = UART_PID THEN uart_starts ELSE {"start"}]
    /\ pointer = [p \in Pids |-> [in |-> NULL, out |-> NULL]]
    /\ fate = [p \in Pids |-> Fresh]
    /\ interrupts = 0
-----------------------------------------------------------------------------
(* The steps of a stub, taken by the current process c.                        *)

Runs(c) == ~kernel.hung /\ kernel.current = c
Next_is(c, op) == Runs(c) /\ todo[c] # << >> /\ Head(todo[c]).op = op
Done(c) == todo' = [todo EXCEPT ![c] = Tail(@)]
data == <<kernel, mess_queue, free_mem_q>>

\* The program calls a stub, which starts with an assignment.  (A program does
\* not use the pointer to a message it sends or releases again.)
Call(c) ==
    /\ Runs(c) /\ c \in DOMAIN Program /\ todo[c] = << >>
    /\ \E l \in at[c] \cap DOMAIN Program[c] :
         LET x == Program[c][l]
             steps == stub(c, x)
         IN  /\ todo' = [todo EXCEPT ![c] = Tail(steps)]
             /\ globals' = [globals EXCEPT ![Head(steps).what] = Head(steps).value]
             /\ at' = [at EXCEPT ![c] = x.next]
             /\ pointer' = IF x.call \in {"send_message", "release_memory_block"}
                           THEN [pointer EXCEPT ![c][x.what] = NULL] ELSE pointer
    /\ UNCHANGED <<data, fate, interrupts>>

Set(c) ==
    /\ Next_is(c, "set")
    /\ globals' = [globals EXCEPT ![Head(todo[c]).what] = Head(todo[c]).value]
    /\ Done(c)
    /\ UNCHANGED <<data, at, pointer, fate, interrupts>>

Again(c) ==
    /\ Next_is(c, "again")
    /\ IF globals.msg_return THEN Done(c)
       ELSE todo' = [todo EXCEPT ![c] = receive_again \o @]
    /\ UNCHANGED <<data, globals, at, pointer, fate, interrupts>>

Result(c) ==
    /\ Next_is(c, "result")
    /\ LET step == Head(todo[c])
           value == globals[step.what]
       IN  /\ pointer' = [pointer EXCEPT ![c][step.to] = value]
           /\ at' = IF value = NULL /\ step.null # FAULT
                    THEN [at EXCEPT ![c] = step.null] ELSE at
           /\ kernel' = IF value = NULL /\ step.null = FAULT THEN hang(kernel) ELSE kernel
    /\ Done(c)
    /\ fate' = [fate EXCEPT ![c] = Fresh]
    /\ UNCHANGED <<mess_queue, free_mem_q, globals, interrupts>>

(* swi_trap_handler: what is executed is what the globals say.                 *)

Executes(c, code) ==
    /\ Next_is(c, "trap") /\ globals.kernel_code = code
    /\ Done(c)
    /\ UNCHANGED <<at, pointer, interrupts>>

in_stub(c) == Len(todo[c]) > 1
answers(c, v) ==
    fate' = [fate EXCEPT ![c] = IF in_stub(c) THEN [@ EXCEPT !.answer = v] ELSE Fresh]
waits(c) ==
    fate' = [fate EXCEPT ![c] =
               IF in_stub(c) THEN [@ EXCEPT !.answer = NOTHING, !.waited = TRUE] ELSE Fresh]

\* A block that is in no mailbox and not free.
unlinked(b) ==
    /\ b \in Blocks \ free_mem_q
    /\ \A p \in Pids : \A i \in DOMAIN mess_queue[p] : mess_queue[p][i] # b

\* The result is stored when the kernel function returns: not when it switched
\* to another process, and the caller continues later behind its trap.
stores_result(returns, v) ==
    globals' = IF returns THEN [globals EXCEPT !.ret_code = v] ELSE globals

sender_goes_on(c, d) ==
    \/ kernel.state[d] # MESSAGE_WAIT
    \/ kernel.priority[d] <= kernel.priority[c]
    \/ kernel.in_i_process

releaser_goes_on(c) ==
    \/ is_METAPCB_queue_empty(kernel, "MEMORY_WAIT_queue")
    \/ kernel.highest_prio["MEMORY_WAIT_queue"] >= kernel.priority[c]

trap_send_message(c) ==
    /\ Executes(c, "SEND_MESSAGE")
    /\ LET d == globals.param_1
           b == globals.param_2
       IN  IF ~unlinked(b)
           THEN kernel' = hang(kernel) /\ UNCHANGED <<mess_queue, globals>>
           ELSE IF d \notin Pids
           THEN stores_result(TRUE, RTX_ERROR) /\ UNCHANGED <<kernel, mess_queue>>
           ELSE /\ mess_queue' = [mess_queue EXCEPT ![d] = Append(@, b)]
                /\ kernel' = wake_receiver(kernel, d)
                /\ stores_result(sender_goes_on(c, d), RTX_SUCCESS)
    /\ answers(c, NOTHING)
    /\ UNCHANGED free_mem_q

\* kernel_receive_message stores its results itself.
received(ready, v) ==
    globals' = [globals EXCEPT !.msg_return = ready, !.ret_code_recv = v]

trap_receive_message(c) ==
    /\ Executes(c, "RECEIVE_MESSAGE")
    /\ IF mess_queue[c] # << >>
       THEN /\ received(TRUE, Head(mess_queue[c]))
            /\ answers(c, Head(mess_queue[c]))
            /\ mess_queue' = [mess_queue EXCEPT ![c] = Tail(@)]
            /\ UNCHANGED kernel
       ELSE /\ UNCHANGED mess_queue
            /\ IF kernel.in_i_process
               THEN /\ received(TRUE, globals.ret_code_recv)
                    /\ answers(c, NULL)
                    /\ UNCHANGED kernel
               ELSE /\ received(FALSE, globals.ret_code_recv)
                    /\ waits(c)
                    /\ kernel' = wait_for_message(kernel)
    /\ UNCHANGED free_mem_q

trap_request_memory_block(c) ==
    /\ Executes(c, "REQUEST_MEMORY")
    /\ \/ \E b \in free_mem_q :
            /\ free_mem_q' = free_mem_q \ {b}
            /\ stores_result(TRUE, b) /\ answers(c, b)
            /\ UNCHANGED kernel
       \/ /\ free_mem_q = {} /\ kernel.in_i_process
          /\ stores_result(TRUE, NULL) /\ answers(c, NULL)
          /\ UNCHANGED <<kernel, free_mem_q>>
       \/ /\ free_mem_q = {} /\ ~kernel.in_i_process
          /\ kernel' = wait_for_memory(kernel)
          /\ waits(c)
          /\ UNCHANGED <<free_mem_q, globals>>
    /\ UNCHANGED mess_queue

trap_release_memory_block(c) ==
    /\ Executes(c, "RELEASE_MEMORY")
    /\ IF ~unlinked(globals.param_1)
       THEN kernel' = hang(kernel) /\ UNCHANGED <<free_mem_q, globals>>
       ELSE /\ free_mem_q' = free_mem_q \cup {globals.param_1}
            /\ kernel' = wake_memory_waiter(kernel)
            /\ stores_result(releaser_goes_on(c), RTX_SUCCESS)
    /\ answers(c, NOTHING)
    /\ UNCHANGED mess_queue

trap_release_processor(c) ==
    /\ Executes(c, "RELEASE_PROCESSOR")
    /\ kernel' = process_switch(kernel)
    /\ answers(c, NOTHING)
    /\ UNCHANGED <<mess_queue, free_mem_q, globals>>

swi_trap_handler(c) ==
    \/ trap_send_message(c) \/ trap_receive_message(c)
    \/ trap_request_memory_block(c) \/ trap_release_memory_block(c)
    \/ trap_release_processor(c)
-----------------------------------------------------------------------------
(* Interrupts, and the timer i-process, which calls kernel_receive_message     *)
(* without a trap and clears msg_return after it.                              *)

\* Variant for mutation: the i-processes run with interrupts enabled.
InterruptsEnabled_Always == ~kernel.hung
InterruptsEnabled == ~kernel.hung /\ kernel.current \notin I_PROCESSES

interrupt_handler(i) ==
    /\ InterruptsEnabled
    /\ interrupts < MaxInterrupts /\ interrupts' = interrupts + 1
    /\ LET k == enter_i_process(kernel, i)
       IN  kernel' = IF i = TIMER_PID /\ kernel.state[i] = MESSAGE_WAIT THEN hang(k) ELSE k
    /\ fate' = [fate EXCEPT ![kernel.current].interrupted = todo[kernel.current] # << >>]
    /\ UNCHANGED <<mess_queue, free_mem_q, globals, todo, at, pointer>>

timer_polls ==
    /\ Runs(TIMER_PID) /\ todo[TIMER_PID] = << >> /\ mess_queue[TIMER_PID] = << >>
    /\ globals' = [globals EXCEPT !.msg_return = FALSE]
    /\ UNCHANGED <<mess_queue, free_mem_q, at, pointer, fate, interrupts>>

timer_tick ==
    /\ timer_polls /\ kernel.in_i_process
    /\ todo' = [todo EXCEPT ![TIMER_PID] = release_processor]
    /\ UNCHANGED kernel

\* Dispatched as an ordinary process, without an interrupt, it waits for a message
\* (where a trap would have saved its context: the next tick hangs).
timer_waits ==
    /\ timer_polls /\ ~kernel.in_i_process
    /\ kernel' = wait_for_message(kernel)
    /\ UNCHANGED todo

Next ==
    \/ \E c \in Pids : Call(c) \/ Set(c) \/ Again(c) \/ Result(c) \/ swi_trap_handler(c)
    \/ \E i \in I_PROCESSES : interrupt_handler(i)
    \/ timer_tick \/ timer_waits

Spec == Init /\ [][Next]_vars
-----------------------------------------------------------------------------
(* The call c means to make, and the one the globals tell the trap to execute. *)
Traps(c) == Next_is(c, "trap")
Reads(c) == Next_is(c, "result")

OwnCall(c) ==
    LET mine == Head(todo[c]).call
    IN  /\ globals.kernel_code = mine.code
        /\ \A g \in DOMAIN mine \cap {"param_1", "param_2"} : globals[g] = mine[g]
OwnResult(c) == globals[Head(todo[c]).what] = fate[c].answer

\* The i-processes share the globals of everyone they interrupt, but nobody
\* interrupts them: each of their traps is the call they made, and each result
\* they read is the answer to it, unless they were made to wait for it.
IProcessCallsItsOwn ==
    \A i \in I_PROCESSES :
        /\ Traps(i) => OwnCall(i)
        /\ Reads(i) /\ ~fate[i].waited => OwnResult(i)

\* Only an interrupt can spoil a call: a process that was not interrupted since
\* it entered the stub traps for its own call, also when it traps again after it
\* was woken, and reads its own result, unless it had to wait for it.
UninterruptedCallIsOwn ==
    \A c \in {p \in Pids : ~fate[p].interrupted} :
        /\ Traps(c) => OwnCall(c)
        /\ Reads(c) /\ ~fate[c].waited => OwnResult(c)

\* No wakeup is lost, whatever calls are spoilt.
NoLostWakeup ==
    \A p \in Pids : kernel.state[p] = MESSAGE_WAIT => mess_queue[p] = << >>

\* SDD section 3.2, receive_message: "This is a blocking receive. If there is a
\* message waiting, a pointer to the message envelope will be returned to the
\* caller. If there is no such message, the calling process blocks": what the stub
\* returns is what the kernel answered to this process.
ReturnsOwnMessage ==
    \A c \in Pids :
        Reads(c) /\ Head(todo[c]).what = "ret_code_recv" => OwnResult(c)
=============================================================================
