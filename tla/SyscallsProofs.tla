--------------------------- MODULE SyscallsProofs ---------------------------
(* What holds of the trap stubs for every set of processes and blocks, every   *)
(* program and every number of interrupts, whatever calls they spoil.          *)
EXTENDS Syscalls, SchedulerProofs

(* The kernel behind the stubs.                                                *)

Safe ==
    /\ kernel \in KernelStates
    /\ mess_queue \in [Pids -> Seq(Blocks)]
    /\ NoLostWakeup

\* A step keeps NoLostWakeup if those it makes wait have no message, and those
\* it gives a message do not wait.
LEMMA KeepsNoLostWakeup ==
    ASSUME NoLostWakeup, NEW W, Reaches(kernel, kernel', W),
           \A p \in W : mess_queue'[p] = << >>,
           \A p \in Pids : \/ mess_queue[p] = << >> => mess_queue'[p] = << >>
                           \/ kernel'.state[p] # MESSAGE_WAIT
    PROVE  NoLostWakeup'
  BY DEF NoLostWakeup, Reaches

\* The mailboxes do not change.
LEMMA KernelStep ==
    ASSUME Safe, NEW W, Reaches(kernel, kernel', W),
           \A p \in W : mess_queue[p] = << >>, UNCHANGED mess_queue
    PROVE  Safe'
<1>1. NoLostWakeup'
  BY KeepsNoLostWakeup DEF Safe
<1>. QED  BY <1>1 DEF Safe, Reaches

\* A program that stops the model.
LEMMA HangKeeps ==
    ASSUME Safe, kernel' = hang(kernel), UNCHANGED mess_queue
    PROVE  Safe'
<1>1. Reaches(kernel, kernel', {})
  BY Assignments DEF Safe
<1>. QED  BY <1>1, KernelStep

\* A trap that sends a message keeps the lists and the wakeups in order.
LEMMA SendKeeps ==
    ASSUME Safe, NEW c \in Pids, trap_send_message(c)
    PROVE  Safe'
<1> DEFINE d == globals.param_1
           b == globals.param_2
<1>1. CASE UNCHANGED mess_queue /\ kernel' = hang(kernel)
  BY <1>1, HangKeeps
<1>2. CASE UNCHANGED <<kernel, mess_queue>>
  BY <1>2 DEF Safe, NoLostWakeup
<1>3. CASE /\ b \in Blocks /\ d \in Pids
           /\ mess_queue' = [mess_queue EXCEPT ![d] = Append(@, b)]
           /\ kernel' = wake_receiver(kernel, d)
  <2> HIDE DEF d, b
  <2>1. Reaches(kernel, kernel', {}) /\ kernel'.state[d] # MESSAGE_WAIT
    BY <1>3, WakeReceiver DEF Safe
  <2>2. /\ mess_queue' \in [Pids -> Seq(Blocks)]
        /\ \A p \in Pids : p # d => mess_queue'[p] = mess_queue[p]
    BY <1>3 DEF Safe
  <2>3. NoLostWakeup'
    BY <2>1, <2>2, KeepsNoLostWakeup DEF Safe
  <2>. QED  BY <2>1, <2>2, <2>3 DEF Safe, Reaches
<1>. QED  BY <1>1, <1>2, <1>3 DEF trap_send_message, unlinked

\* So does one that receives,
LEMMA ReceiveKeeps ==
    ASSUME Safe, NEW c \in Pids, trap_receive_message(c)
    PROVE  Safe'
<1>1. CASE mess_queue[c] # << >>
  <2>1. kernel' = kernel /\ mess_queue' = [mess_queue EXCEPT ![c] = Tail(@)]
    BY <1>1 DEF trap_receive_message
  <2>2. Tail(mess_queue[c]) \in Seq(Blocks)
    BY <1>1 DEF Safe
  <2>3. /\ mess_queue' \in [Pids -> Seq(Blocks)]
        /\ \A p \in Pids : p # c => mess_queue'[p] = mess_queue[p]
    BY <2>1, <2>2 DEF Safe
  <2>. QED  BY <1>1, <2>1, <2>3 DEF Safe, NoLostWakeup
<1>2. CASE mess_queue[c] = << >> /\ kernel.in_i_process
  BY <1>2 DEF Safe, NoLostWakeup, trap_receive_message
<1>3. CASE mess_queue[c] = << >> /\ ~kernel.in_i_process
  <2>1. kernel' = wait_for_message(kernel) /\ UNCHANGED mess_queue /\ kernel.current = c
    BY <1>3 DEF trap_receive_message, Executes, Next_is, Runs
  <2>2. Reaches(kernel, kernel', {c})
    BY <2>1, WaitForMessage DEF Safe
  <2>. QED  BY <1>3, <2>1, <2>2, KernelStep
<1>. QED  BY <1>1, <1>2, <1>3

\* and any other trap,
LEMMA TrapKeeps ==
    ASSUME Safe, NEW c \in Pids, swi_trap_handler(c)
    PROVE  Safe'
<1>1. CASE trap_request_memory_block(c)
  <2>1. /\ UNCHANGED mess_queue
        /\ kernel' = kernel \/ kernel' = wait_for_memory(kernel)
    BY <1>1 DEF trap_request_memory_block
  <2>2. CASE UNCHANGED <<kernel, mess_queue>>
    BY <2>2 DEF Safe, NoLostWakeup
  <2>3. CASE kernel' = wait_for_memory(kernel)
    <3>1. Reaches(kernel, kernel', {})
      BY <2>3, WaitForMemory DEF Safe
    <3>. QED  BY <2>1, <3>1, KernelStep
  <2>. QED  BY <2>1, <2>2, <2>3
<1>2. CASE trap_release_memory_block(c)
  <2>1. /\ UNCHANGED mess_queue
        /\ kernel' = hang(kernel) \/ kernel' = wake_memory_waiter(kernel)
    BY <1>2 DEF trap_release_memory_block
  <2>2. Reaches(kernel, kernel', {})
    BY <2>1, Assignments, WakeMemoryWaiter DEF Safe
  <2>. QED  BY <2>1, <2>2, KernelStep
<1>3. CASE trap_release_processor(c)
  <2>1. Reaches(kernel, kernel', {}) /\ UNCHANGED mess_queue
    BY <1>3, ProcessSwitch DEF Safe, trap_release_processor
  <2>. QED  BY <2>1, KernelStep
<1>. QED  BY <1>1, <1>2, <1>3, SendKeeps, ReceiveKeeps DEF swi_trap_handler

\* and an interrupt handler that enters its i-process.
LEMMA InterruptKeeps ==
    ASSUME Safe, NEW i \in I_PROCESSES, interrupt_handler(i)
    PROVE  Safe'
<1> DEFINE k == enter_i_process(kernel, i)
<1>1. i \in Pids
  BY SchedulerAssumption DEF I_PROCESSES
<1>2. Reaches(kernel, k, {}) /\ k \in KernelStates
  BY <1>1, EnterIProcess DEF Safe, Reaches
<1>3. (kernel' = k \/ kernel' = hang(k)) /\ UNCHANGED mess_queue
  BY DEF interrupt_handler
<1> HIDE DEF k
<1>4. Reaches(k, hang(k), {})
  BY <1>2, Assignments
<1>5. Reaches(kernel, kernel', {})
  BY <1>2, <1>3, <1>4 DEF Reaches
<1>. QED  BY <1>3, <1>5, KernelStep

\* Booting leaves no process waiting for a message.
LEMMA InitSafe ==
    ASSUME Init
    PROVE  Safe
<1> DEFINE d == dequeue_PCB_FIFO_by_priority(booted, "READY_queue")
<1>1. /\ Reaches(booted, d.s, {}) /\ d.s \in KernelStates /\ d.pcb \in Pids \cup {NULL}
  BY Booted, DequeueReaches DEF Queues
<1>2. kernel = IF d.pcb = NULL THEN hang(d.s) ELSE context_switch(d.s, d.pcb)
  BY DEF Init
<1> HIDE DEF d
<1>3. Reaches(d.s, kernel, {})
  BY <1>1, <1>2, Assignments
<1>. QED  BY <1>3 DEF Init, Reaches, Safe, NoLostWakeup

\* Every step keeps the lists and the wakeups in order.
LEMMA NextSafe ==
    ASSUME Safe, [Next]_vars
    PROVE  Safe'
<1>1. ASSUME NEW c \in Pids, Call(c) \/ Set(c) \/ Again(c)
      PROVE  Safe'
  BY <1>1 DEF Safe, NoLostWakeup, Call, Set, Again, data
<1>2. ASSUME NEW c \in Pids, Result(c)
      PROVE  Safe'
  <2>1. (kernel' = kernel \/ kernel' = hang(kernel)) /\ UNCHANGED mess_queue
    BY <1>2 DEF Result
  <2>2. CASE UNCHANGED <<kernel, mess_queue>>
    BY <2>2 DEF Safe, NoLostWakeup
  <2>. QED  BY <2>1, <2>2, HangKeeps
<1>3. CASE timer_tick
  BY <1>3 DEF Safe, NoLostWakeup, timer_tick, timer_polls
<1>4. CASE timer_waits
  <2>1. /\ kernel' = wait_for_message(kernel) /\ UNCHANGED mess_queue
        /\ kernel.current = TIMER_PID /\ mess_queue[TIMER_PID] = << >>
    BY <1>4 DEF timer_waits, timer_polls, Runs
  <2>2. Reaches(kernel, kernel', {TIMER_PID})
    BY <2>1, WaitForMessage DEF Safe
  <2>. QED  BY <2>1, <2>2, KernelStep
<1>5. CASE UNCHANGED vars
  BY <1>5 DEF Safe, NoLostWakeup, vars
<1>. QED  BY <1>1, <1>2, <1>3, <1>4, <1>5, TrapKeeps, InterruptKeeps DEF Next

\* No message is ever left in the mailbox of a process that sleeps, even when
\* interrupts make processes execute calls they did not mean, with arguments they
\* did not write.
THEOREM NoWakeupIsLostByTraps == Spec => []NoLostWakeup
<1>1. Init => Safe
  BY InitSafe
<1>2. Safe /\ [Next]_vars => Safe'
  BY NextSafe
<1>3. Safe => NoLostWakeup
  BY DEF Safe
<1>. QED  BY <1>1, <1>2, <1>3, PTL DEF Spec
-----------------------------------------------------------------------------
(* The calls of processes that are not interrupted, for every set of processes *)
(* and blocks, every program and every number of interrupts: what a stub has   *)
(* written is still there when it traps, and what the kernel answered is still *)
(* there when the stub reads it.                                               *)
(* Of the scheduling nothing is used but that a process is current: one that   *)
(* loses the processor was interrupted, is behind the last step of its stub,   *)
(* or waits.                                                                   *)

(* The invariant.  A stub is in one of few forms: the steps s that are left of *)
(* it, with what is known of the call's history f and of the globals g.        *)

Releasing_processor(s, f, g) ==
    \/ s = <<set("kernel_code", "RELEASE_PROCESSOR"), TRAP0(RELEASE_PROCESSOR)>>
    \/ /\ s = <<TRAP0(RELEASE_PROCESSOR)>>
       /\ f.interrupted \/ g.kernel_code = "RELEASE_PROCESSOR"

Sending(s, f, g) == \E d, b :
    \/ /\ s = <<set("param_2", b), set("kernel_code", "SEND_MESSAGE"), TRAP0(SEND_MESSAGE(d, b))>>
       /\ f.interrupted \/ g.param_1 = d
    \/ /\ s = <<set("kernel_code", "SEND_MESSAGE"), TRAP0(SEND_MESSAGE(d, b))>>
       /\ f.interrupted \/ (g.param_1 = d /\ g.param_2 = b)
    \/ /\ s = <<TRAP0(SEND_MESSAGE(d, b))>>
       /\ f.interrupted \/ (g.param_1 = d /\ g.param_2 = b /\ g.kernel_code = "SEND_MESSAGE")

Releasing_block(s, f, g) == \E b :
    \/ /\ s = <<set("kernel_code", "RELEASE_MEMORY"), TRAP0(RELEASE_MEMORY(b))>>
       /\ f.interrupted \/ g.param_1 = b
    \/ /\ s = <<TRAP0(RELEASE_MEMORY(b))>>
       /\ f.interrupted \/ (g.param_1 = b /\ g.kernel_code = "RELEASE_MEMORY")

Requesting(s, f, g) == \E w, null :
    \/ /\ s = <<TRAP0(REQUEST_MEMORY), result("ret_code", w, null)>>
       /\ f.interrupted \/ g.kernel_code = "REQUEST_MEMORY"
    \/ /\ s = <<result("ret_code", w, null)>>
       /\ f.interrupted \/ f.waited \/ g.ret_code = f.answer

\* A receive that finds nothing returns ret_code_recv as the stub cleared it.
Receiving(s, f, g) == \E w, null :
    \/ s = <<set("ret_code_recv", NULL), set("param_1", NULL),
             set("kernel_code", "RECEIVE_MESSAGE"), TRAP0(RECEIVE_MESSAGE),
             again, result("ret_code_recv", w, null)>>
    \/ /\ s = <<set("param_1", NULL),
                set("kernel_code", "RECEIVE_MESSAGE"), TRAP0(RECEIVE_MESSAGE),
                again, result("ret_code_recv", w, null)>>
       /\ f.interrupted \/ f.waited \/ g.ret_code_recv = NULL
    \/ /\ s = <<set("kernel_code", "RECEIVE_MESSAGE"), TRAP0(RECEIVE_MESSAGE),
                again, result("ret_code_recv", w, null)>>
       /\ f.interrupted \/ f.waited \/ g.ret_code_recv = NULL
    \/ /\ s = <<TRAP0(RECEIVE_MESSAGE), again, result("ret_code_recv", w, null)>>
       /\ f.interrupted \/ /\ g.kernel_code = "RECEIVE_MESSAGE"
                           /\ f.waited \/ g.ret_code_recv = NULL
    \/ /\ s = <<again, result("ret_code_recv", w, null)>>
       /\ \/ f.interrupted \/ f.waited
          \/ g.msg_return = TRUE /\ g.ret_code_recv = f.answer
    \/ /\ s = <<result("ret_code_recv", w, null)>>
       /\ f.interrupted \/ f.waited \/ g.ret_code_recv = f.answer

Form(s, f, g) ==
    \/ s = << >>
    \/ Releasing_processor(s, f, g) \/ Sending(s, f, g) \/ Releasing_block(s, f, g)
    \/ Requesting(s, f, g) \/ Receiving(s, f, g)

\* A stub of which nothing is known that other processes could spoil.
Careless(s, f) ==
    \/ f.interrupted
    \/ s = << >>
    \/ f.waited /\ Head(s).op \in {"again", "result"}

Names == {"kernel_code", "param_1", "param_2", "ret_code", "ret_code_recv", "msg_return"}
FateTyped(f) ==
    /\ f = [answer |-> f.answer, interrupted |-> f.interrupted, waited |-> f.waited]
    /\ f.interrupted \in BOOLEAN /\ f.waited \in BOOLEAN

Typed ==
    /\ DOMAIN globals = Names
    /\ DOMAIN todo = Pids /\ DOMAIN fate = Pids
    /\ \A p \in Pids : FateTyped(fate[p])

\* Only of the current process something is known.
Calling ==
    /\ Typed
    /\ \A p \in Pids :
         /\ Form(todo[p], fate[p], globals)
         /\ p = kernel.current \/ Careless(todo[p], fate[p])
    /\ \A i \in I_PROCESSES : ~fate[i].interrupted
-----------------------------------------------------------------------------
\* Whatever is written to the globals, a careless stub keeps its form.
LEMMA CarelessKeeps ==
    ASSUME NEW s, NEW f, NEW g, NEW h, Form(s, f, g), Careless(s, f)
    PROVE  Form(s, f, h)
<1>1. CASE f.interrupted
  BY <1>1 DEF Form, Releasing_processor, Sending, Releasing_block, Requesting, Receiving
<1>2. CASE s = << >>
  BY <1>2 DEF Form
<1>3. CASE f.waited /\ Head(s).op \in {"again", "result"}
  <2>1. CASE Releasing_processor(s, f, g) \/ Sending(s, f, g) \/ Releasing_block(s, f, g)
    BY <1>3, <2>1 DEF Releasing_processor, Sending, Releasing_block, set, TRAP0
  <2>2. CASE Requesting(s, f, g)
    <3>1. Requesting(s, f, h)
      BY <1>3, <2>2 DEF Requesting, TRAP0
    <3>. QED  BY <3>1 DEF Form
  <2>3. CASE Receiving(s, f, g)
    <3>1. Receiving(s, f, h)
      BY <1>3, <2>3 DEF Receiving, set, TRAP0
    <3>. QED  BY <3>1 DEF Form
  <2>. QED  BY <1>3, <2>1, <2>2, <2>3 DEF Form
<1>. QED  BY <1>1, <1>2, <1>3 DEF Careless

\* A step of the current process leaves the others as careless as they are.
LEMMA CallerStep ==
    ASSUME Calling, NEW c \in Pids, kernel.current = c, Typed',
           \A p \in Pids \ {c} : todo'[p] = todo[p] /\ fate'[p] = fate[p],
           Form(todo'[c], fate'[c], globals'),
           kernel'.current = c \/ Careless(todo'[c], fate'[c]),
           c \in I_PROCESSES => ~fate'[c].interrupted
    PROVE  Calling'
<1>1. ASSUME NEW p \in Pids \ {c}
      PROVE  Form(todo'[p], fate'[p], globals') /\ Careless(todo'[p], fate'[p])
  <2>1. Form(todo[p], fate[p], globals) /\ Careless(todo[p], fate[p])
    BY DEF Calling
  <2>. QED  BY <2>1, CarelessKeeps
<1>2. \A i \in I_PROCESSES : ~fate'[i].interrupted
  BY SchedulerAssumption DEF Calling, I_PROCESSES
<1>. QED  BY <1>1, <1>2 DEF Calling
-----------------------------------------------------------------------------
(* The steps of a stub.                                                        *)

\* The steps of a stub behind its first assignment.
LEMMA CallKeeps ==
    ASSUME Calling, NEW c \in Pids, Call(c)
    PROVE  Calling'
<1>1. /\ c \in DOMAIN Program /\ kernel.current = c /\ UNCHANGED <<kernel, fate>>
  BY DEF Call, Runs, data
<1>2. PICK l \in DOMAIN Program[c] :
        LET steps == stub(c, Program[c][l])
        IN  /\ todo' = [todo EXCEPT ![c] = Tail(steps)]
            /\ globals' = [globals EXCEPT ![Head(steps).what] = Head(steps).value]
  BY DEF Call
<1> DEFINE x == Program[c][l]
           steps == stub(c, x)
<1>3. x.call \in {"release_processor", "send_message", "receive_message",
                  "request_memory_block", "release_memory_block"}
  BY <1>1, SyscallsAssumption
<1> HIDE DEF x
<1>4. /\ \E d, b : steps \in {release_processor, send_message(d, b), release_memory_block(b)}
      \/ \E w, null : steps \in {receive_message(w, null), request_memory_block(w, null)}
  BY <1>3 DEF stub
<1> HIDE DEF steps
<1>5. /\ todo'[c] = Tail(steps) /\ DOMAIN todo' = Pids
      /\ \A p \in Pids \ {c} : todo'[p] = todo[p]
      /\ globals' = [globals EXCEPT ![Head(steps).what] = Head(steps).value]
  BY <1>2 DEF Calling, Typed, steps, x
<1>6. DOMAIN globals = Names
  BY DEF Calling, Typed
<1>7. Form(todo'[c], fate[c], globals') /\ DOMAIN globals' = Names
  <2>1. CASE steps = release_processor
    BY <1>5, <1>6, <2>1 DEF release_processor, set, Form, Releasing_processor, Names
  <2>2. ASSUME NEW d, NEW b, steps = send_message(d, b) PROVE <1>7
    <3>1. Sending(todo'[c], fate[c], globals') /\ DOMAIN globals' = Names
      BY <1>5, <1>6, <2>2 DEF send_message, set, Sending, Names
    <3>. QED  BY <3>1 DEF Form
  <2>3. ASSUME NEW b, steps = release_memory_block(b) PROVE <1>7
    <3>1. Releasing_block(todo'[c], fate[c], globals') /\ DOMAIN globals' = Names
      BY <1>5, <1>6, <2>3 DEF release_memory_block, set, Releasing_block, Names
    <3>. QED  BY <3>1 DEF Form
  <2>4. ASSUME NEW w, NEW null, steps = receive_message(w, null) PROVE <1>7
    <3>1. Receiving(todo'[c], fate[c], globals') /\ DOMAIN globals' = Names
      BY <1>5, <1>6, <2>4 DEF receive_message, set, Receiving, Names
    <3>. QED  BY <3>1 DEF Form
  <2>5. ASSUME NEW w, NEW null, steps = request_memory_block(w, null) PROVE <1>7
    <3>1. Requesting(todo'[c], fate[c], globals') /\ DOMAIN globals' = Names
      BY <1>5, <1>6, <2>5 DEF request_memory_block, set, Requesting, Names
    <3>. QED  BY <3>1 DEF Form
  <2>. QED  BY <1>4, <2>1, <2>2, <2>3, <2>4, <2>5
<1>8. Typed'
  BY <1>1, <1>5, <1>7 DEF Calling, Typed
<1>. QED  BY <1>1, <1>5, <1>7, <1>8, CallerStep DEF Calling

\* An assignment writes what the form of the rest asks for.
LEMMA SetKeeps ==
    ASSUME Calling, NEW c \in Pids, Set(c)
    PROVE  Calling'
<1> DEFINE s == todo[c]
           f == fate[c]
<1>1. /\ kernel.current = c /\ UNCHANGED <<kernel, fate>>
      /\ Head(s).op = "set" /\ s # << >>
      /\ globals' = [globals EXCEPT ![Head(s).what] = Head(s).value]
      /\ todo' = [todo EXCEPT ![c] = Tail(s)]
  BY DEF Set, Next_is, Runs, Done, data
<1>2. /\ Form(s, f, globals) /\ DOMAIN globals = Names /\ DOMAIN todo = Pids
  BY DEF Calling, Typed
<1>3. /\ todo'[c] = Tail(s) /\ DOMAIN todo' = Pids
      /\ \A p \in Pids \ {c} : todo'[p] = todo[p]
  BY <1>1, <1>2
<1> HIDE DEF s, f
<1>4. Form(Tail(s), f, globals') /\ DOMAIN globals' = Names
  <2> DEFINE Written == /\ globals'[Head(s).what] = Head(s).value
                        /\ \A n \in Names : n # Head(s).what => globals'[n] = globals[n]
  <2>1. ASSUME Head(s).what \in Names PROVE Written /\ DOMAIN globals' = Names
    BY <1>1, <1>2, <2>1
  <2> HIDE DEF Written
  <2>2. CASE Releasing_processor(s, f, globals)
    <3>1. s = <<set("kernel_code", "RELEASE_PROCESSOR"), TRAP0(RELEASE_PROCESSOR)>>
      BY <1>1, <2>2 DEF Releasing_processor, TRAP0
    <3>2. Head(s).what = "kernel_code" /\ Head(s).value = "RELEASE_PROCESSOR"
      BY <3>1 DEF set
    <3>3. Releasing_processor(Tail(s), f, globals')
      BY <2>1, <3>1, <3>2 DEF Written, Names, Releasing_processor
    <3>. QED  BY <2>1, <3>2, <3>3 DEF Form, Names
  <2>3. CASE Sending(s, f, globals)
    <3>1. ASSUME NEW d, NEW b, f.interrupted \/ globals.param_1 = d,
                 s = <<set("param_2", b), set("kernel_code", "SEND_MESSAGE"),
                       TRAP0(SEND_MESSAGE(d, b))>>
          PROVE  Sending(Tail(s), f, globals') /\ Head(s).what \in Names
      <4>1. Head(s).what = "param_2" /\ Head(s).value = b
        BY <3>1 DEF set
      <4>. QED  BY <2>1, <3>1, <4>1 DEF Written, Names, Sending
    <3>2. ASSUME NEW d, NEW b,
                 f.interrupted \/ (globals.param_1 = d /\ globals.param_2 = b),
                 s = <<set("kernel_code", "SEND_MESSAGE"), TRAP0(SEND_MESSAGE(d, b))>>
          PROVE  Sending(Tail(s), f, globals') /\ Head(s).what \in Names
      <4>1. Head(s).what = "kernel_code" /\ Head(s).value = "SEND_MESSAGE"
        BY <3>2 DEF set
      <4>. QED  BY <2>1, <3>2, <4>1 DEF Written, Names, Sending
    <3>3. Sending(Tail(s), f, globals') /\ Head(s).what \in Names
      BY <1>1, <2>3, <3>1, <3>2 DEF Sending, TRAP0
    <3>. QED  BY <2>1, <3>3 DEF Form
  <2>4. CASE Releasing_block(s, f, globals)
    <3>1. ASSUME NEW b, f.interrupted \/ globals.param_1 = b,
                 s = <<set("kernel_code", "RELEASE_MEMORY"), TRAP0(RELEASE_MEMORY(b))>>
          PROVE  Releasing_block(Tail(s), f, globals') /\ Head(s).what \in Names
      <4>1. Head(s).what = "kernel_code" /\ Head(s).value = "RELEASE_MEMORY"
        BY <3>1 DEF set
      <4>. QED  BY <2>1, <3>1, <4>1 DEF Written, Names, Releasing_block
    <3>2. Releasing_block(Tail(s), f, globals') /\ Head(s).what \in Names
      BY <1>1, <2>4, <3>1 DEF Releasing_block, TRAP0
    <3>. QED  BY <2>1, <3>2 DEF Form
  <2>5. ~Requesting(s, f, globals)
    BY <1>1 DEF Requesting, TRAP0, result
  <2>6. CASE Receiving(s, f, globals)
    <3>1. ASSUME NEW w, NEW null,
                 s = <<set("ret_code_recv", NULL), set("param_1", NULL),
                       set("kernel_code", "RECEIVE_MESSAGE"), TRAP0(RECEIVE_MESSAGE),
                       again, result("ret_code_recv", w, null)>>
          PROVE  Receiving(Tail(s), f, globals') /\ Head(s).what \in Names
      <4>1. Head(s).what = "ret_code_recv" /\ Head(s).value = NULL
        BY <3>1 DEF set
      <4>. QED  BY <2>1, <3>1, <4>1 DEF Written, Names, Receiving
    <3>2. ASSUME NEW w, NEW null, f.interrupted \/ f.waited \/ globals.ret_code_recv = NULL,
                 s = <<set("param_1", NULL),
                       set("kernel_code", "RECEIVE_MESSAGE"), TRAP0(RECEIVE_MESSAGE),
                       again, result("ret_code_recv", w, null)>>
          PROVE  Receiving(Tail(s), f, globals') /\ Head(s).what \in Names
      <4>1. Head(s).what = "param_1"
        BY <3>2 DEF set
      <4>. QED  BY <2>1, <3>2, <4>1 DEF Written, Names, Receiving
    <3>3. ASSUME NEW w, NEW null, f.interrupted \/ f.waited \/ globals.ret_code_recv = NULL,
                 s = <<set("kernel_code", "RECEIVE_MESSAGE"), TRAP0(RECEIVE_MESSAGE),
                       again, result("ret_code_recv", w, null)>>
          PROVE  Receiving(Tail(s), f, globals') /\ Head(s).what \in Names
      <4>1. Head(s).what = "kernel_code" /\ Head(s).value = "RECEIVE_MESSAGE"
        BY <3>3 DEF set
      <4>. QED  BY <2>1, <3>3, <4>1 DEF Written, Names, Receiving
    <3>4. ASSUME NEW w, NEW null
          PROVE  /\ s # <<TRAP0(RECEIVE_MESSAGE), again, result("ret_code_recv", w, null)>>
                 /\ s # <<again, result("ret_code_recv", w, null)>>
                 /\ s # <<result("ret_code_recv", w, null)>>
      BY <1>1 DEF TRAP0, again, result
    <3>5. Receiving(Tail(s), f, globals') /\ Head(s).what \in Names
      BY <2>6, <3>1, <3>2, <3>3, <3>4 DEF Receiving
    <3>. QED  BY <2>1, <3>5 DEF Form
  <2>. QED  BY <1>1, <1>2, <2>2, <2>3, <2>4, <2>5, <2>6 DEF Form
<1>5. Typed'
  BY <1>1, <1>3, <1>4 DEF Calling, Typed
<1>. QED  BY <1>1, <1>3, <1>4, <1>5, CallerStep DEF Calling, f

\* The loop of receive_message puts two steps in front of the rest of the stub.
LEMMA Concatenation ==
    ASSUME NEW a, NEW b, NEW x, NEW y
    PROVE  <<a, b>> \o <<x, y>> = <<a, b, x, y>>
<1> DEFINE S == {a, b, x, y}
           s == <<a, b>> \o <<x, y>>
           t == <<a, b, x, y>>
<1>1. <<a, b>> \in Seq(S) /\ <<x, y>> \in Seq(S) /\ t \in Seq(S) /\ Len(t) = 4
  OBVIOUS
<1>2. s \in Seq(S) /\ Len(s) = 4
  BY <1>1
<1>3. s[1] = t[1] /\ s[2] = t[2] /\ s[3] = t[3] /\ s[4] = t[4]
  BY <1>1
<1> HIDE DEF s, t
<1>4. \A i \in 1 .. 4 : s[i] = t[i]
  BY <1>3
<1>. QED  BY <1>1, <1>2, <1>4, SeqEqual DEF s, t

\* The stub traps again only if it had to wait, or after an interrupt.
LEMMA AgainKeeps ==
    ASSUME Calling, NEW c \in Pids, Again(c)
    PROVE  Calling'
<1> DEFINE s == todo[c]
           f == fate[c]
<1>1. /\ kernel.current = c /\ UNCHANGED <<kernel, fate, globals>>
      /\ Head(s).op = "again" /\ s # << >>
      /\ IF globals.msg_return THEN todo' = [todo EXCEPT ![c] = Tail(s)]
         ELSE todo' = [todo EXCEPT ![c] = receive_again \o s]
  BY DEF Again, Next_is, Runs, Done, data
<1>2. /\ Form(s, f, globals) /\ DOMAIN todo = Pids
  BY DEF Calling, Typed
<1>3. /\ DOMAIN todo' = Pids
      /\ \A p \in Pids \ {c} : todo'[p] = todo[p]
      /\ IF globals.msg_return THEN todo'[c] = Tail(s) ELSE todo'[c] = receive_again \o s
  BY <1>1, <1>2
<1> HIDE DEF s, f
<1>4. PICK w, null : /\ s = <<again, result("ret_code_recv", w, null)>>
                     /\ \/ f.interrupted \/ f.waited
                        \/ globals.msg_return = TRUE /\ globals.ret_code_recv = f.answer
  <2>1. ~Releasing_processor(s, f, globals)
    BY <1>1 DEF Releasing_processor, set, TRAP0
  <2>2. ~Sending(s, f, globals)
    BY <1>1 DEF Sending, set, TRAP0
  <2>3. ~Releasing_block(s, f, globals)
    BY <1>1 DEF Releasing_block, set, TRAP0
  <2>4. ~Requesting(s, f, globals)
    BY <1>1 DEF Requesting, TRAP0, result
  <2>5. Receiving(s, f, globals)
    BY <1>1, <1>2, <2>1, <2>2, <2>3, <2>4 DEF Form
  <2>. QED  BY <1>1, <2>5 DEF Receiving, set, TRAP0, result
<1>5. Form(todo'[c], f, globals)
  <2>1. CASE globals.msg_return
    <3>1. todo'[c] = <<result("ret_code_recv", w, null)>>
      BY <1>3, <1>4, <2>1
    <3>. QED  BY <1>4, <3>1 DEF Form, Receiving
  <2>2. CASE ~globals.msg_return
    <3>1. todo'[c] = <<set("kernel_code", "RECEIVE_MESSAGE"), TRAP0(RECEIVE_MESSAGE),
                       again, result("ret_code_recv", w, null)>>
      BY <1>3, <1>4, <2>2, Concatenation DEF receive_again
    <3>. QED  BY <1>4, <2>2, <3>1 DEF Form, Receiving
  <2>. QED  BY <2>1, <2>2
<1>6. Typed'
  BY <1>1, <1>3 DEF Calling, Typed
<1>. QED  BY <1>1, <1>3, <1>5, <1>6, CallerStep DEF Calling, f

\* A result is read in the last step of a stub.
LEMMA ResultKeeps ==
    ASSUME Calling, NEW c \in Pids, Result(c)
    PROVE  Calling'
<1> DEFINE s == todo[c]
<1>1. /\ kernel.current = c /\ UNCHANGED globals
      /\ Head(s).op = "result" /\ s # << >>
      /\ todo' = [todo EXCEPT ![c] = Tail(s)]
      /\ fate' = [fate EXCEPT ![c] = Fresh]
  BY DEF Result, Next_is, Runs, Done
<1>2. /\ Form(s, fate[c], globals) /\ DOMAIN todo = Pids /\ DOMAIN fate = Pids
  BY DEF Calling, Typed
<1>3. /\ DOMAIN todo' = Pids /\ DOMAIN fate' = Pids
      /\ \A p \in Pids \ {c} : todo'[p] = todo[p] /\ fate'[p] = fate[p]
      /\ todo'[c] = Tail(s) /\ fate'[c] = Fresh
  BY <1>1, <1>2
<1> HIDE DEF s
<1>4. Tail(s) = << >>
  BY <1>1, <1>2 DEF Form, Releasing_processor, Sending, Releasing_block, Requesting,
                    Receiving, set, TRAP0, again
<1>5. FateTyped(Fresh) /\ ~Fresh.interrupted
  BY DEF FateTyped, Fresh
<1>6. Typed'
  BY <1>1, <1>3, <1>5 DEF Calling, Typed
<1>. QED  BY <1>1, <1>3, <1>4, <1>5, <1>6, CallerStep DEF Form, Careless
-----------------------------------------------------------------------------
(* The trap.                                                                   *)

\* What the kernel notes about a call.
LEMMA Noted ==
    ASSUME NEW f, FateTyped(f), NEW v
    PROVE  LET a == [f EXCEPT !.answer = v]
               w == [f EXCEPT !.answer = v, !.waited = TRUE]
           IN  /\ FateTyped(a) /\ a.answer = v
               /\ a.interrupted = f.interrupted /\ a.waited = f.waited
               /\ FateTyped(w) /\ w.waited /\ w.interrupted = f.interrupted
<1>1. ASSUME NEW a, a = [f EXCEPT !.answer = v]
      PROVE  /\ FateTyped(a) /\ a.answer = v
             /\ a.interrupted = f.interrupted /\ a.waited = f.waited
  BY <1>1 DEF FateTyped
<1>2. ASSUME NEW w, w = [f EXCEPT !.answer = v, !.waited = TRUE]
      PROVE  FateTyped(w) /\ w.waited /\ w.interrupted = f.interrupted
  BY <1>2 DEF FateTyped
<1>. QED  BY <1>1, <1>2

\* What is common to all traps: the step is done, and the history of the call
\* stays typed, and starts anew when the trap was its last step.
LEMMA TrapEffect ==
    ASSUME Calling, NEW c \in Pids, swi_trap_handler(c)
    PROVE  /\ kernel.current = c /\ Head(todo[c]).op = "trap" /\ todo[c] # << >>
           /\ todo'[c] = Tail(todo[c])
           /\ \A p \in Pids \ {c} : todo'[p] = todo[p] /\ fate'[p] = fate[p]
           /\ IF in_stub(c) THEN fate'[c].interrupted = fate[c].interrupted
              ELSE fate'[c] = Fresh
           /\ Typed'
<1>1. \E code : Executes(c, code)
  BY DEF swi_trap_handler, trap_send_message, trap_receive_message,
         trap_request_memory_block, trap_release_memory_block, trap_release_processor
<1>2. /\ kernel.current = c /\ Head(todo[c]).op = "trap" /\ todo[c] # << >>
      /\ todo' = [todo EXCEPT ![c] = Tail(@)]
  BY <1>1 DEF Executes, Next_is, Runs, Done
<1>3. \E v : answers(c, v) \/ waits(c)
  BY DEF swi_trap_handler, trap_send_message, trap_receive_message,
         trap_request_memory_block, trap_release_memory_block, trap_release_processor
<1>4. DOMAIN todo = Pids /\ DOMAIN fate = Pids /\ DOMAIN globals = Names /\ FateTyped(fate[c])
  BY DEF Calling, Typed
<1>5. /\ DOMAIN fate' = Pids /\ \A p \in Pids \ {c} : fate'[p] = fate[p]
      /\ IF in_stub(c) THEN fate'[c].interrupted = fate[c].interrupted
         ELSE fate'[c] = Fresh
      /\ FateTyped(fate'[c])
  <2>1. FateTyped(Fresh)
    BY DEF FateTyped, Fresh
  <2>2. ASSUME NEW v, answers(c, v) PROVE <1>5
    BY <1>4, <2>1, <2>2, Noted DEF answers
  <2>3. CASE waits(c)
    BY <1>4, <2>1, <2>3, Noted DEF waits
  <2>. QED  BY <1>3, <2>2, <2>3
<1>6. DOMAIN globals' = Names
  <2>1. \/ UNCHANGED globals
        \/ \E v : globals' = [globals EXCEPT !.ret_code = v]
        \/ \E ready, v : globals' = [globals EXCEPT !.msg_return = ready, !.ret_code_recv = v]
    BY DEF swi_trap_handler, trap_send_message, trap_receive_message,
           trap_request_memory_block, trap_release_memory_block, trap_release_processor,
           stores_result, received
  <2>. QED  BY <1>4, <2>1
<1>. QED  BY <1>2, <1>4, <1>5, <1>6 DEF Calling, Typed

\* Where a stub may trap.
LEMMA TrapForms ==
    ASSUME NEW s, NEW f, NEW g, Form(s, f, g), s # << >>, Head(s).op = "trap"
    PROVE  \/ Tail(s) = << >> /\ Len(s) = 1
           \/ \E w, null :
                /\ s = <<TRAP0(REQUEST_MEMORY), result("ret_code", w, null)>>
                /\ f.interrupted \/ g.kernel_code = "REQUEST_MEMORY"
           \/ \E w, null :
                /\ s = <<TRAP0(RECEIVE_MESSAGE), again, result("ret_code_recv", w, null)>>
                /\ f.interrupted \/ /\ g.kernel_code = "RECEIVE_MESSAGE"
                                    /\ f.waited \/ g.ret_code_recv = NULL
<1>1. CASE Releasing_processor(s, f, g)
  <2>1. s = <<TRAP0(RELEASE_PROCESSOR)>>
    BY <1>1 DEF Releasing_processor, set
  <2>. QED  BY <2>1
<1>2. CASE Sending(s, f, g)
  <2>1. \E d, b : s = <<TRAP0(SEND_MESSAGE(d, b))>>
    BY <1>2 DEF Sending, set
  <2>. QED  BY <2>1
<1>3. CASE Releasing_block(s, f, g)
  <2>1. \E b : s = <<TRAP0(RELEASE_MEMORY(b))>>
    BY <1>3 DEF Releasing_block, set
  <2>. QED  BY <2>1
<1>4. CASE Requesting(s, f, g)
  BY <1>4 DEF Requesting, result
<1>5. CASE Receiving(s, f, g)
  BY <1>5 DEF Receiving, set, again, result
<1>. QED  BY <1>1, <1>2, <1>3, <1>4, <1>5 DEF Form

\* After its trap a stub reads what the kernel answered, unless the process waits.
LEMMA TrapCalls ==
    ASSUME Calling, NEW c \in Pids, swi_trap_handler(c)
    PROVE  Calling'
<1> DEFINE s == todo[c]
           f == fate[c]
           h == fate'[c]
<1>1. Form(s, f, globals) /\ DOMAIN globals = Names /\ DOMAIN fate = Pids /\ FateTyped(f)
  BY DEF Calling, Typed
<1>a. /\ kernel.current = c /\ Head(s).op = "trap" /\ s # << >>
      /\ todo'[c] = Tail(s)
      /\ IF Len(s) > 1 THEN h.interrupted = f.interrupted ELSE h = Fresh
  BY TrapEffect DEF in_stub
<1>b. ASSUME Form(todo'[c], h, globals'), kernel'.current = c \/ Careless(todo'[c], h),
             h.interrupted => f.interrupted
      PROVE  Calling'
  BY <1>b, TrapEffect, CallerStep DEF Calling
<1>c. ASSUME waits(c), Len(s) > 1
      PROVE  h.waited
  <2>1. h = [f EXCEPT !.answer = NOTHING, !.waited = TRUE]
    BY <1>1, <1>c DEF waits, in_stub
  <2> HIDE DEF f, h
  <2>. QED  BY <1>1, <2>1, Noted
<1>d. ASSUME NEW v, answers(c, v), Len(s) > 1
      PROVE  h.answer = v /\ h.waited = f.waited
  <2>1. h = [f EXCEPT !.answer = v]
    BY <1>1, <1>d DEF answers, in_stub
  <2> HIDE DEF f, h
  <2>. QED  BY <1>1, <2>1, Noted
<1> HIDE DEF s, f, h
<1>2. CASE Tail(s) = << >> /\ Len(s) = 1
  <2>1. todo'[c] = << >> /\ h = Fresh
    BY <1>a, <1>2
  <2>. QED  BY <1>b, <2>1 DEF Form, Careless, Fresh
<1>3. ASSUME NEW w, NEW null, f.interrupted \/ globals.kernel_code = "REQUEST_MEMORY",
             s = <<TRAP0(REQUEST_MEMORY), result("ret_code", w, null)>>
      PROVE  Calling'
  <2>1. Len(s) > 1 /\ h.interrupted = f.interrupted
    BY <1>a, <1>3
  <2>2. todo'[c] = <<result("ret_code", w, null)>>
    BY <1>a, <1>3
  <2>3. CASE f.interrupted
    BY <2>1, <2>2, <2>3, <1>b DEF Form, Requesting, Careless
  <2>4. CASE ~f.interrupted
    <3>1. trap_request_memory_block(c)
      BY <1>3, <2>4 DEF swi_trap_handler, trap_send_message, trap_receive_message,
             trap_release_memory_block, trap_release_processor, Executes
    <3>2. \/ waits(c)
          \/ \E v : stores_result(TRUE, v) /\ answers(c, v) /\ UNCHANGED kernel
      BY <3>1 DEF trap_request_memory_block
    <3>3. CASE waits(c)
      <4>1. h.waited /\ Careless(todo'[c], h)
        BY <1>c, <2>1, <2>2, <3>3 DEF Careless, result
      <4>. QED  BY <1>b, <2>1, <2>2, <4>1 DEF Form, Requesting
    <3>4. ASSUME NEW v, stores_result(TRUE, v), answers(c, v), UNCHANGED kernel
          PROVE  Calling'
      <4>1. globals'.ret_code = v /\ h.answer = v
        BY <1>1, <1>d, <2>1, <3>4 DEF stores_result, Names
      <4>. QED  BY <1>a, <1>b, <2>1, <2>2, <3>4, <4>1 DEF Form, Requesting
    <3>. QED  BY <3>2, <3>3, <3>4
  <2>. QED  BY <2>3, <2>4
<1>4. ASSUME NEW w, NEW null,
             f.interrupted \/ /\ globals.kernel_code = "RECEIVE_MESSAGE"
                              /\ f.waited \/ globals.ret_code_recv = NULL,
             s = <<TRAP0(RECEIVE_MESSAGE), again, result("ret_code_recv", w, null)>>
      PROVE  Calling'
  <2>1. Len(s) > 1 /\ h.interrupted = f.interrupted
    BY <1>a, <1>4
  <2>2. todo'[c] = <<again, result("ret_code_recv", w, null)>>
    BY <1>a, <1>4
  <2>3. CASE f.interrupted
    BY <2>1, <2>2, <2>3, <1>b DEF Form, Receiving, Careless
  <2>4. CASE ~f.interrupted
    <3>1. trap_receive_message(c)
      BY <1>4, <2>4 DEF swi_trap_handler, trap_send_message, trap_request_memory_block,
             trap_release_memory_block, trap_release_processor, Executes
    <3>2. \/ waits(c)
          \/ \E v : received(TRUE, v) /\ answers(c, v) /\ UNCHANGED kernel
          \/ received(TRUE, globals.ret_code_recv) /\ answers(c, NULL) /\ UNCHANGED kernel
      BY <3>1 DEF trap_receive_message
    <3>3. CASE waits(c)
      <4>1. h.waited /\ Careless(todo'[c], h)
        BY <1>c, <2>1, <2>2, <3>3 DEF Careless, again
      <4>. QED  BY <1>b, <2>1, <2>2, <4>1 DEF Form, Receiving
    <3>4. ASSUME NEW v, NEW a, received(TRUE, v), answers(c, a), UNCHANGED kernel,
                 f.waited \/ v = a
          PROVE  Calling'
      <4>1. /\ globals'.msg_return = TRUE /\ globals'.ret_code_recv = v
            /\ h.answer = a /\ h.waited = f.waited
        BY <1>1, <1>d, <2>1, <3>4 DEF received, Names
      <4>. QED  BY <1>a, <1>b, <2>1, <2>2, <3>4, <4>1 DEF Form, Receiving
    <3>. QED  BY <1>4, <2>4, <3>2, <3>3, <3>4
  <2>. QED  BY <2>3, <2>4
<1>. QED  BY <1>1, <1>a, <1>2, <1>3, <1>4, TrapForms
-----------------------------------------------------------------------------
(* Interrupts, and the timer i-process.                                        *)

\* An interrupt makes the stub it falls into careless, and it falls into no stub
\* of an i-process.
LEMMA InterruptCalls ==
    ASSUME Calling, NEW i \in I_PROCESSES, interrupt_handler(i), kernel.current \in Pids
    PROVE  Calling'
<1> DEFINE c == kernel.current
           f == fate[c]
           h == fate'[c]
           b == todo[c] # << >>
<1>1. /\ Form(todo[c], f, globals) /\ DOMAIN fate = Pids /\ FateTyped(f)
  BY DEF Calling, Typed
<1>2. /\ UNCHANGED <<globals, todo>> /\ c \notin I_PROCESSES
      /\ fate' = [fate EXCEPT ![c].interrupted = b]
  BY DEF interrupt_handler, InterruptsEnabled
<1>3. /\ DOMAIN fate' = Pids /\ \A p \in Pids \ {c} : fate'[p] = fate[p]
      /\ h = [f EXCEPT !.interrupted = b]
  BY <1>1, <1>2
<1>4. b \in BOOLEAN
  OBVIOUS
<1> HIDE DEF f, h, b
<1>5. FateTyped(h) /\ h.interrupted = b
  BY <1>1, <1>3, <1>4 DEF FateTyped
<1>6. Form(todo'[c], h, globals') /\ Careless(todo'[c], h)
  <2>1. CASE todo[c] = << >>
    BY <1>2, <2>1 DEF Form, Careless
  <2>2. CASE todo[c] # << >>
    <3>1. h.interrupted
      BY <1>5, <2>2 DEF b
    <3>. QED  BY <1>1, <1>2, <3>1 DEF Careless, Form, Releasing_processor, Sending,
                  Releasing_block, Requesting, Receiving
  <2>. QED  BY <2>1, <2>2
<1>7. Typed'
  BY <1>2, <1>3, <1>5 DEF Calling, Typed, h
<1>. QED  BY <1>2, <1>3, <1>6, <1>7, CallerStep DEF h

\* The timer i-process has finished its last stub when it polls its mailbox.
LEMMA TimerCalls ==
    ASSUME Calling, timer_tick \/ timer_waits
    PROVE  Calling'
<1> DEFINE c == TIMER_PID
<1>1. /\ kernel.current = c /\ todo[c] = << >> /\ UNCHANGED fate
      /\ globals' = [globals EXCEPT !.msg_return = FALSE]
      /\ \/ todo' = [todo EXCEPT ![c] = release_processor] /\ UNCHANGED kernel
         \/ UNCHANGED todo
  BY DEF timer_tick, timer_waits, timer_polls, Runs
<1>2. c \in Pids /\ c \in I_PROCESSES
  BY SchedulerAssumption DEF I_PROCESSES
<1>3. Typed'
  BY <1>1 DEF Calling, Typed
<1>4. /\ \A p \in Pids \ {c} : todo'[p] = todo[p]
      /\ todo'[c] = << >> \/ (todo'[c] = release_processor /\ UNCHANGED kernel)
  BY <1>1, <1>2 DEF Calling, Typed
<1>5. Form(todo'[c], fate'[c], globals')
  BY <1>4 DEF Form, Releasing_processor, release_processor
<1>. QED  BY <1>1, <1>2, <1>3, <1>4, <1>5, CallerStep DEF Calling, Careless
-----------------------------------------------------------------------------
\* No stub has been entered when the system is booted.
LEMMA InitCalls ==
    ASSUME Init
    PROVE  Calling
<1>1. Typed
  BY DEF Init, Typed, Names, FateTyped, Fresh
<1>2. \A p \in Pids : todo[p] = << >> /\ ~fate[p].interrupted
  BY DEF Init, Fresh
<1>3. I_PROCESSES \subseteq Pids
  BY SchedulerAssumption DEF I_PROCESSES
<1>. QED  BY <1>1, <1>2, <1>3 DEF Calling, Form, Careless

\* Every step keeps what the stubs have put into the globals in order.
LEMMA NextCalls ==
    ASSUME Calling, kernel.current \in Pids, [Next]_vars
    PROVE  Calling'
<1>1. ASSUME NEW c \in Pids, Call(c) \/ Set(c) \/ Again(c) \/ Result(c) \/ swi_trap_handler(c)
      PROVE  Calling'
  BY <1>1, CallKeeps, SetKeeps, AgainKeeps, ResultKeeps, TrapCalls
<1>2. CASE UNCHANGED vars
  BY <1>2 DEF vars, Calling, Typed
<1>. QED  BY <1>1, <1>2, InterruptCalls, TimerCalls DEF Next

\* What the invariant says of a process at its trap and at the read of its result.
LEMMA CallsOwn ==
    ASSUME Calling, NEW c \in Pids, ~fate[c].interrupted
    PROVE  /\ Traps(c) => OwnCall(c)
           /\ Reads(c) /\ ~fate[c].waited => OwnResult(c)
<1> DEFINE s == todo[c]
           f == fate[c]
<1>1. Form(s, f, globals)
  BY DEF Calling
<1> HIDE DEF s, f
<1>2. ASSUME s # << >>, Head(s).op = "trap", ~f.interrupted
      PROVE  LET mine == Head(s).call
             IN  /\ globals.kernel_code = mine.code
                 /\ \A g \in DOMAIN mine \cap {"param_1", "param_2"} : globals[g] = mine[g]
  <2>1. CASE Releasing_processor(s, f, globals)
    BY <1>2, <2>1 DEF Releasing_processor, set, TRAP0, RELEASE_PROCESSOR
  <2>2. CASE Sending(s, f, globals)
    BY <1>2, <2>2 DEF Sending, set, TRAP0, SEND_MESSAGE
  <2>3. CASE Releasing_block(s, f, globals)
    BY <1>2, <2>3 DEF Releasing_block, set, TRAP0, RELEASE_MEMORY
  <2>4. CASE Requesting(s, f, globals)
    BY <1>2, <2>4 DEF Requesting, result, TRAP0, REQUEST_MEMORY
  <2>5. CASE Receiving(s, f, globals)
    BY <1>2, <2>5 DEF Receiving, set, result, again, TRAP0, RECEIVE_MESSAGE
  <2>. QED  BY <1>1, <1>2, <2>1, <2>2, <2>3, <2>4, <2>5 DEF Form
<1>3. ASSUME s # << >>, Head(s).op = "result", ~f.interrupted, ~f.waited
      PROVE  globals[Head(s).what] = f.answer
  <2>1. CASE Releasing_processor(s, f, globals)
    BY <1>3, <2>1 DEF Releasing_processor, set, TRAP0
  <2>2. CASE Sending(s, f, globals)
    BY <1>3, <2>2 DEF Sending, set, TRAP0
  <2>3. CASE Releasing_block(s, f, globals)
    BY <1>3, <2>3 DEF Releasing_block, set, TRAP0
  <2>4. CASE Requesting(s, f, globals)
    BY <1>3, <2>4 DEF Requesting, TRAP0, result
  <2>5. CASE Receiving(s, f, globals)
    BY <1>3, <2>5 DEF Receiving, set, TRAP0, again, result
  <2>. QED  BY <1>1, <1>3, <2>1, <2>2, <2>3, <2>4, <2>5 DEF Form
<1>. QED  BY <1>2, <1>3 DEF Traps, Reads, Next_is, OwnCall, OwnResult, s, f

\* It holds in every behaviour, whatever the programs do.
LEMMA SpecCalls == Spec => []Calling
<1> DEFINE IInv == Safe /\ Calling
<1>1. Init => IInv
  BY InitSafe, InitCalls
<1>2. IInv /\ [Next]_vars => IInv'
  BY NextSafe, NextCalls DEF Safe, KernelStates
<1>3. IInv => Calling
  OBVIOUS
<1>. QED  BY <1>1, <1>2, <1>3, PTL DEF Spec

\* A process that was not interrupted since it entered a stub traps with the call it
\* made, and gets the kernel's answer to it unless it had to wait: all damage the
\* shared globals can do takes an interrupt or a wait.
THEOREM UninterruptedCallsAreOwn == Spec => []UninterruptedCallIsOwn
<1>1. Calling => UninterruptedCallIsOwn
  BY CallsOwn DEF UninterruptedCallIsOwn
<1>. QED  BY <1>1, SpecCalls, PTL

\* The i-processes use the same globals as everybody they interrupt, and are never
\* spoilt by it.
THEOREM IProcessesCallTheirOwn == Spec => []IProcessCallsItsOwn
<1>1. Calling => IProcessCallsItsOwn
  <2>1. I_PROCESSES \subseteq Pids
    BY SchedulerAssumption DEF I_PROCESSES
  <2>2. Calling => \A i \in I_PROCESSES : ~fate[i].interrupted
    BY DEF Calling
  <2>. QED  BY <2>1, <2>2, CallsOwn DEF IProcessCallsItsOwn
<1>. QED  BY <1>1, SpecCalls, PTL
=============================================================================
