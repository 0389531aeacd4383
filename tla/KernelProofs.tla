---------------------------- MODULE KernelProofs ----------------------------
(* Invariants of the kernel for every set of processes and blocks, every boot  *)
(* order and every program.                                                    *)
EXTENDS Kernel, SchedulerProofs

(* The steps.  Safe is the inductive invariant, without the programs of the    *)
(* i-processes; Exact is kept as long as no priority is changed.               *)

Safe ==
    /\ kernel \in KernelStates
    /\ mess_queue \in [Pids -> Seq(Blocks)]
    /\ free_mem_q \in SUBSET Blocks
    /\ delayed \in SUBSET (Blocks \X Pids)
    /\ held \in [Pids -> SUBSET Blocks]
    /\ NoLostWakeup

Keeps == Safe' /\ (Exact(kernel) => Exact(kernel'))

\* A step keeps NoLostWakeup if those it makes wait have no message, and those
\* it gives a message do not wait.
LEMMA KeepsNoLostWakeup ==
    ASSUME NoLostWakeup, NEW W, Reaches(kernel, kernel', W),
           \A p \in W : mess_queue'[p] = << >>,
           \A p \in Pids : \/ mess_queue[p] = << >> => mess_queue'[p] = << >>
                           \/ kernel'.state[p] # MESSAGE_WAIT
    PROVE  NoLostWakeup'
  BY DEF NoLostWakeup, Reaches

\* Nothing but the state of the kernel changes.
LEMMA KernelStep ==
    ASSUME Safe, NEW W, Reaches(kernel, kernel', W),
           \A p \in W : mess_queue[p] = << >>,
           UNCHANGED <<mess_queue, free_mem_q, delayed, held>>
    PROVE  Keeps
<1>1. NoLostWakeup'
  BY KeepsNoLostWakeup DEF Safe
<1>. QED  BY <1>1 DEF Safe, Keeps, Reaches

\* A message reaches the mailbox of d, who is woken if it waits for one.
LEMMA Deliver ==
    ASSUME Safe, NEW d \in Pids, NEW b \in Blocks,
           mess_queue' = [mess_queue EXCEPT ![d] = Append(@, b)],
           kernel' = wake_receiver(kernel, d)
    PROVE  /\ kernel' \in KernelStates
           /\ Exact(kernel) => Exact(kernel')
           /\ mess_queue' \in [Pids -> Seq(Blocks)]
           /\ NoLostWakeup'
<1>1. Reaches(kernel, kernel', {}) /\ kernel'.state[d] # MESSAGE_WAIT
  BY WakeReceiver DEF Safe
<1>2. mess_queue' \in [Pids -> Seq(Blocks)]
  BY DEF Safe
<1>3. \A p \in Pids : p # d => mess_queue'[p] = mess_queue[p]
  BY DEF Safe
<1>4. NoLostWakeup'
  BY <1>1, <1>3, KeepsNoLostWakeup DEF Safe
<1>. QED  BY <1>1, <1>2, <1>4 DEF Reaches

\* send_message keeps the invariant.
LEMMA SendKeeps ==
    ASSUME Safe, NEW c \in Pids, NEW d \in Pids, NEW b, Send(c, d, b)
    PROVE  Keeps
<1>1. b \in Blocks
  BY DEF Safe, Send
<1>2. /\ kernel' \in KernelStates /\ (Exact(kernel) => Exact(kernel'))
      /\ mess_queue' \in [Pids -> Seq(Blocks)] /\ NoLostWakeup'
  BY <1>1, Deliver DEF Send
<1>3. held' \in [Pids -> SUBSET Blocks]
  BY DEF Safe, Send
<1>. QED  BY <1>2, <1>3 DEF Safe, Keeps, Send

\* receive_message keeps the invariant: a process with a message does not wait,
\* and a process without one has none when it starts to wait.
LEMMA ReceiveKeeps ==
    ASSUME Safe, NEW c \in Pids, ReceiveMessage(c) \/ ReceiveBlocks(c)
    PROVE  Keeps
<1>1. CASE ReceiveMessage(c)
  <2>1. mess_queue[c] \in Seq(Blocks) /\ mess_queue[c] # << >>
    BY <1>1 DEF Safe, ReceiveMessage
  <2>2. Head(mess_queue[c]) \in Blocks /\ Tail(mess_queue[c]) \in Seq(Blocks)
    BY <2>1
  <2>3. /\ mess_queue' \in [Pids -> Seq(Blocks)]
        /\ held' \in [Pids -> SUBSET Blocks]
        /\ \A p \in Pids : p # c => mess_queue'[p] = mess_queue[p]
    BY <1>1, <2>2 DEF Safe, ReceiveMessage
  <2>4. NoLostWakeup'
    BY <1>1, <2>1, <2>3 DEF Safe, NoLostWakeup, ReceiveMessage
  <2>. QED  BY <1>1, <2>3, <2>4 DEF Safe, Keeps, ReceiveMessage
<1>2. CASE ReceiveBlocks(c)
  <2>1. Reaches(kernel, kernel', {c}) /\ mess_queue[c] = << >>
    BY <1>2, WaitForMessage DEF Safe, ReceiveBlocks, Runs
  <2>. QED  BY <1>2, <2>1, KernelStep DEF ReceiveBlocks
<1>. QED  BY <1>1, <1>2

\* request_memory_block keeps the invariant.
LEMMA RequestKeeps ==
    ASSUME Safe, NEW c \in Pids, RequestBlock(c) \/ RequestBlocks(c)
    PROVE  Keeps
<1>1. CASE RequestBlock(c)
  <2>1. /\ free_mem_q' \in SUBSET Blocks
        /\ held' \in [Pids -> SUBSET Blocks]
    BY <1>1 DEF Safe, RequestBlock
  <2>2. NoLostWakeup'
    BY <1>1 DEF Safe, NoLostWakeup, RequestBlock
  <2>. QED  BY <1>1, <2>1, <2>2 DEF Safe, Keeps, RequestBlock
<1>2. CASE RequestBlocks(c)
  <2>1. Reaches(kernel, kernel', {})
    BY <1>2, WaitForMemory DEF Safe, RequestBlocks
  <2>. QED  BY <1>2, <2>1, KernelStep DEF RequestBlocks
<1>. QED  BY <1>1, <1>2

\* release_memory_block keeps the invariant.
LEMMA ReleaseKeeps ==
    ASSUME Safe, NEW c \in Pids, NEW b, Release(c, b)
    PROVE  Keeps
<1>1. Reaches(kernel, kernel', {})
  BY WakeMemoryWaiter DEF Safe, Release
<1>2. free_mem_q' \in SUBSET Blocks /\ held' \in [Pids -> SUBSET Blocks]
  BY DEF Safe, Release
<1>3. NoLostWakeup'
  BY <1>1, KeepsNoLostWakeup DEF Safe, Release
<1>. QED  BY <1>1, <1>2, <1>3 DEF Safe, Keeps, Reaches, Release

\* release_processor keeps the invariant.
LEMMA ReleaseProcessorKeeps ==
    ASSUME Safe, NEW c \in Pids, ReleaseProcessor(c)
    PROVE  Keeps
<1>1. Reaches(kernel, kernel', {})
  BY ProcessSwitch DEF Safe, ReleaseProcessor
<1>. QED  BY <1>1, KernelStep DEF ReleaseProcessor

\* delayed_send keeps the invariant.
LEMMA DelayedSendKeeps ==
    ASSUME Safe, NEW c \in Pids, NEW d \in Pids, NEW b, DelayedSend(c, d, b)
    PROVE  Keeps
<1>1. delayed' \in SUBSET (Blocks \X Pids) /\ held' \in [Pids -> SUBSET Blocks]
  BY DEF Safe, DelayedSend
<1>2. NoLostWakeup'
  BY DEF Safe, NoLostWakeup, DelayedSend
<1>. QED  BY <1>1, <1>2 DEF Safe, Keeps, DelayedSend

\* set_process_priority keeps the types, and wakes and puts to sleep nobody.
LEMMA SetPriorityKeeps ==
    ASSUME Safe, NEW c \in Pids, NEW p \in Pids, NEW l \in Levels, SetPriority(c, p, l)
    PROVE  Safe'
<1>1. /\ kernel' \in KernelStates
      /\ \A q \in Pids : kernel'.state[q] = MESSAGE_WAIT => kernel.state[q] = MESSAGE_WAIT
  BY SetProcessPriority DEF Safe, SetPriority
<1>2. NoLostWakeup'
  BY <1>1 DEF Safe, NoLostWakeup, SetPriority
<1>. QED  BY <1>1, <1>2 DEF Safe, SetPriority

\* An ordinary process keeps the invariant, and highest_prio right if its program
\* changes no priority.
LEMMA ProcessKeeps ==
    ASSUME Safe, NEW c \in Pids, Process(c)
    PROVE  /\ Safe' /\ at' = at
           /\ "set_process_priority" \notin Calls[c] => Keeps
<1>1. ASSUME NEW b \in held[c], NEW d \in Pids, Send(c, d, b) PROVE Keeps
  BY <1>1, SendKeeps
<1>2. ASSUME ReceiveMessage(c) \/ ReceiveBlocks(c) PROVE Keeps
  BY <1>2, ReceiveKeeps
<1>3. ASSUME RequestBlock(c) \/ RequestBlocks(c) PROVE Keeps
  BY <1>3, RequestKeeps
<1>4. ASSUME NEW b \in held[c], Release(c, b) PROVE Keeps
  BY <1>4, ReleaseKeeps
<1>5. ASSUME ReleaseProcessor(c) PROVE Keeps
  BY <1>5, ReleaseProcessorKeeps
<1>6. ASSUME NEW b \in held[c], DelayedSend(c, c, b) PROVE Keeps
  BY <1>6, DelayedSendKeeps
<1>7. ASSUME NEW r \in NewPriorities, SetPriority(c, r[1], r[2]) PROVE Safe'
  <2>1. r[1] \in Pids /\ r[2] \in Levels
    BY SchedulerAssumption, KernelAssumption
  <2>. QED  BY <1>7, <2>1, SetPriorityKeeps
<1>8. \/ Keeps
      \/ "set_process_priority" \in Calls[c] /\ Safe'
  BY <1>1, <1>2, <1>3, <1>4, <1>5, <1>6, <1>7 DEF Process
<1>9. at' = at
  BY DEF Process
<1>. QED  BY <1>8, <1>9 DEF Keeps

\* An interrupt keeps the invariant.
LEMMA InterruptKeeps ==
    ASSUME Safe, timer_handler \/ uart_handler
    PROVE  Keeps /\ at' = at
<1>1. TIMER_PID \in Pids /\ UART_PID \in Pids
  BY SchedulerAssumption, KernelAssumption
<1>2. CASE timer_handler
  <2> DEFINE k == enter_i_process(kernel, TIMER_PID)
  <2>1. Reaches(kernel, k, {}) /\ k \in KernelStates
    BY <1>1, EnterIProcess DEF Safe, Reaches
  <2>2. kernel' = k \/ kernel' = hang(k)
    BY <1>2 DEF timer_handler
  <2> HIDE DEF k
  <2>3. Reaches(k, hang(k), {})
    BY <2>1, Assignments
  <2>4. Reaches(kernel, kernel', {})
    BY <2>1, <2>2, <2>3 DEF Reaches
  <2>. QED  BY <1>2, <2>4, KernelStep DEF timer_handler
<1>3. CASE uart_handler
  <2>1. Reaches(kernel, kernel', {})
    BY <1>1, <1>3, EnterIProcess DEF Safe, uart_handler
  <2>. QED  BY <1>3, <2>1, KernelStep DEF uart_handler
<1>. QED  BY <1>2, <1>3

\* Neither the kernel nor anything it keeps changes.
LEMMA SameKernel ==
    ASSUME Safe, UNCHANGED <<kernel, mess_queue, free_mem_q, delayed, held>>
    PROVE  Keeps
  BY DEF Safe, Keeps, NoLostWakeup

AtOK == at \in [I_PROCESSES -> Places]

\* Every jump of an i-process is to one of its labels.
LEMMA GotoOK ==
    ASSUME AtOK, NEW i \in I_PROCESSES, NEW l \in Places, Goto(i, l)
    PROVE  AtOK'
  BY DEF AtOK, Goto

\* The timer i-process keeps the invariant.
LEMMA TimerKeeps ==
    ASSUME Safe, AtOK, timer_poll \/ timer_expire \/ timer_done
    PROVE  Keeps /\ AtOK'
<1>1. TIMER_PID \in Pids /\ TIMER_PID \in I_PROCESSES
  BY SchedulerAssumption, KernelAssumption DEF I_PROCESSES
<1>2. {"start", "expire"} \subseteq Places
  BY DEF Places
<1>3. CASE timer_poll
  <2>1. CASE ReceiveBlocks(TIMER_PID) /\ UNCHANGED at
    BY <1>1, <2>1, ReceiveKeeps DEF AtOK
  <2>2. CASE Goto(TIMER_PID, "expire") /\ UNCHANGED <<kernel, mess_queue, free_mem_q, delayed, held>>
    BY <1>1, <1>2, <2>2, SameKernel, GotoOK
  <2>. QED  BY <1>3, <2>1, <2>2 DEF timer_poll
<1>4. CASE timer_expire
  <2>1. PICK m \in delayed :
          /\ delayed' = delayed \ {m}
          /\ mess_queue' = [mess_queue EXCEPT ![m[2]] = Append(@, m[1])]
          /\ kernel' = wake_receiver(kernel, m[2])
    BY <1>4 DEF timer_expire
  <2>2. m[1] \in Blocks /\ m[2] \in Pids
    BY DEF Safe
  <2>3. /\ kernel' \in KernelStates /\ (Exact(kernel) => Exact(kernel'))
        /\ mess_queue' \in [Pids -> Seq(Blocks)] /\ NoLostWakeup'
    BY <2>1, <2>2, Deliver
  <2>. QED  BY <1>4, <2>1, <2>3 DEF Safe, Keeps, AtOK, timer_expire
<1>5. CASE timer_done
  BY <1>1, <1>2, <1>5, ReleaseProcessorKeeps, GotoOK DEF timer_done
<1>. QED  BY <1>3, <1>4, <1>5

\* The UART i-process keeps the invariant.
LEMMA UartKeeps ==
    ASSUME Safe, AtOK,
           \/ uart_status \/ uart_request \/ uart_send
           \/ uart_drain \/ uart_write \/ uart_done
    PROVE  Keeps /\ AtOK'
<1>1. UART_PID \in Pids /\ KCD_PID \in Pids /\ UART_PID \in I_PROCESSES
  BY SchedulerAssumption, KernelAssumption DEF I_PROCESSES
<1>2. Places = {"start", "expire", "request", "send", "drain", "write", "done"}
  BY DEF Places
<1>3. \A l \in Places : Goto(UART_PID, l) => AtOK'
  BY <1>1, GotoOK
<1>4. uart_transmit => AtOK'
  BY <1>2, <1>3 DEF uart_transmit
<1>5. CASE uart_status
  BY <1>2, <1>3, <1>4, <1>5, SameKernel DEF uart_status
<1>6. CASE uart_request
  <2>1. RequestBlock(UART_PID) \/ RequestBlocks(UART_PID) => Keeps
    BY <1>1, RequestKeeps
  <2>. QED  BY <1>2, <1>3, <1>4, <1>6, <2>1, SameKernel DEF uart_request
<1>7. CASE uart_send
  <2>1. \A b : Send(UART_PID, KCD_PID, b) => Keeps
    BY <1>1, SendKeeps
  <2>. QED  BY <1>4, <1>7, <2>1 DEF uart_send
<1>8. CASE uart_drain
  <2>1. ReceiveMessage(UART_PID) \/ ReceiveBlocks(UART_PID) => Keeps
    BY <1>1, ReceiveKeeps
  <2>. QED  BY <1>2, <1>3, <1>8, <2>1, SameKernel DEF uart_drain, AtOK
<1>9. CASE uart_write
  <2>1. \A b : Release(UART_PID, b) => Keeps
    BY <1>1, ReleaseKeeps
  <2>. QED  BY <1>2, <1>3, <1>9, <2>1 DEF uart_write
<1>10. CASE uart_done
  BY <1>1, <1>2, <1>3, <1>10, ReleaseProcessorKeeps DEF uart_done
<1>. QED  BY <1>5, <1>6, <1>7, <1>8, <1>9, <1>10
-----------------------------------------------------------------------------
(* The theorems.                                                               *)

\* The system boots into a state of the invariant, with highest_prio right.
LEMMA InitSafe ==
    ASSUME Init
    PROVE  Safe /\ AtOK /\ Exact(kernel)
<1> DEFINE d == dequeue_PCB_FIFO_by_priority(booted, "READY_queue")
<1>1. /\ Reaches(booted, d.s, {}) /\ d.s \in KernelStates /\ d.pcb \in Pids \cup {NULL}
  BY Booted, DequeueReaches DEF Queues
<1>2. kernel = IF d.pcb = NULL THEN hang(d.s) ELSE context_switch(d.s, d.pcb)
  BY DEF Init
<1> HIDE DEF d
<1>3. Reaches(d.s, kernel, {})
  BY <1>1, <1>2, Assignments
<1>4. kernel \in KernelStates /\ Exact(kernel)
  BY <1>1, <1>3, Booted DEF Reaches
<1>5. NoLostWakeup
  BY DEF Init, NoLostWakeup
<1>6. /\ mess_queue \in [Pids -> Seq(Blocks)] /\ free_mem_q \in SUBSET Blocks
      /\ delayed \in SUBSET (Blocks \X Pids) /\ held \in [Pids -> SUBSET Blocks]
  BY DEF Init
<1>7. AtOK
  BY DEF Init, AtOK, Places
<1>. QED  BY <1>4, <1>5, <1>6, <1>7 DEF Safe

\* Every step of the system keeps the invariant.
LEMMA NextSafe ==
    ASSUME Safe, AtOK, [Next]_vars
    PROVE  /\ Safe' /\ AtOK'
           /\ (\A c \in Pids : "set_process_priority" \notin Calls[c]) => Keeps
<1>1. ASSUME NEW c \in Pids, Process(c)
      PROVE  Safe' /\ AtOK' /\ ("set_process_priority" \notin Calls[c] => Keeps)
  BY <1>1, ProcessKeeps DEF AtOK
<1>2. CASE timer_handler \/ uart_handler
  BY <1>2, InterruptKeeps DEF AtOK, Keeps
<1>3. CASE IProcess
  BY <1>3, TimerKeeps, UartKeeps DEF IProcess, Keeps
<1>4. CASE UNCHANGED vars
  BY <1>4, SameKernel DEF vars, AtOK, Keeps
<1>. QED  BY <1>1, <1>2, <1>3, <1>4 DEF Next

\* The invariant holds in every reachable state.
LEMMA Invariant == Spec => [](Safe /\ AtOK)
<1>1. Init => Safe /\ AtOK
  BY InitSafe
<1>2. Safe /\ AtOK /\ [Next]_vars => (Safe /\ AtOK)'
  BY NextSafe
<1>. QED  BY <1>1, <1>2, PTL DEF Spec

\* Whatever the programs call, the state of the kernel stays within its types: in
\* particular highest_prio of both queues stays between 0 and NUM_PRIO + 1, and no
\* dispatch ever makes a null pointer the current process.
THEOREM KernelTyped == Spec => []TypeOK
<1>1. Safe /\ AtOK => TypeOK
  BY DEF Safe, AtOK, TypeOK
<1>. QED  BY <1>1, Invariant, PTL

\* No message is ever left in the mailbox of a process that sleeps, even when
\* priorities change and lists break.
THEOREM NoWakeupIsLost == Spec => []NoLostWakeup
<1>1. Safe /\ AtOK => NoLostWakeup
  BY DEF Safe
<1>. QED  BY <1>1, Invariant, PTL

\* As long as no program changes a priority, highest_prio of both queues is that of
\* the most urgent list in use.
THEOREM HighestPrioStaysExact ==
    (\A c \in Pids : "set_process_priority" \notin Calls[c]) => (Spec => []HighestPrioExact)
<1> DEFINE Fixed == \A c \in Pids : "set_process_priority" \notin Calls[c]
           I == Safe /\ AtOK /\ Exact(kernel) /\ Fixed
<1>1. Fixed /\ Init => I
  BY InitSafe
<1>2. I /\ [Next]_vars => I'
  BY NextSafe DEF Keeps
<1>3. I => HighestPrioExact
  BY DEF Exact, HighestPrioExact
<1> HIDE DEF I, Fixed
<1>4. Fixed => (Spec => []HighestPrioExact)
  BY <1>1, <1>2, <1>3, PTL DEF Spec
<1>. QED  BY <1>4 DEF Fixed
-----------------------------------------------------------------------------
(* Memory blocks: the kernel neither loses nor shares one.                     *)
(*                                                                             *)
(* Where a block is, one predicate per kind of place, and BlocksInOnePlace in  *)
(* terms of them.                                                              *)

IsDelayed(b) == \E m \in delayed : m[1] = b
IsHeld(b) == \E p \in Pids : b \in held[p]
IsInMailbox(b) == \E p \in Pids : \E i \in DOMAIN mess_queue[p] : mess_queue[p][i] = b

DelayedOnce(b) == \A m, n \in delayed : m[1] = b /\ n[1] = b => m = n
HeldOnce(b) == \A p, q \in Pids : b \in held[p] /\ b \in held[q] => p = q
InMailboxOnce(b) ==
    \A p, q \in Pids : \A i \in DOMAIN mess_queue[p], j \in DOMAIN mess_queue[q] :
        mess_queue[p][i] = b /\ mess_queue[q][j] = b => p = q /\ i = j

Somewhere(b) == b \in free_mem_q \/ IsDelayed(b) \/ IsHeld(b) \/ IsInMailbox(b)

Alone(b) ==
    /\ b \in free_mem_q => ~IsDelayed(b) /\ ~IsHeld(b) /\ ~IsInMailbox(b)
    /\ IsDelayed(b) => ~IsHeld(b) /\ ~IsInMailbox(b)
    /\ IsHeld(b) => ~IsInMailbox(b)
    /\ DelayedOnce(b) /\ HeldOnce(b) /\ InMailboxOnce(b)

Conserved == \A b \in Blocks : Somewhere(b) /\ Alone(b)

\* What is in the set PlacesOf(b).
LEMMA Place ==
    ASSUME NEW b, NEW x
    PROVE  x \in PlacesOf(b) <=>
              \/ b \in free_mem_q /\ x = <<"free", NULL_PID, 0>>
              \/ \E m \in delayed : m[1] = b /\ x = <<"delayed", m[2], 0>>
              \/ \E p \in Pids : b \in held[p] /\ x = <<"held", p, 0>>
              \/ \E p \in Pids : \E i \in DOMAIN mess_queue[p] :
                    mess_queue[p][i] = b /\ x = <<"mailbox", p, i>>
<1>1. x \in {<<"free", NULL_PID, 0>> : z \in {y \in free_mem_q : y = b}} <=>
         b \in free_mem_q /\ x = <<"free", NULL_PID, 0>>
  OBVIOUS
<1>2. x \in {<<"delayed", m[2], 0>> : m \in {y \in delayed : y[1] = b}} <=>
         \E m \in delayed : m[1] = b /\ x = <<"delayed", m[2], 0>>
  OBVIOUS
<1>3. x \in {<<"held", p, 0>> : p \in {q \in Pids : b \in held[q]}} <=>
         \E p \in Pids : b \in held[p] /\ x = <<"held", p, 0>>
  OBVIOUS
<1>4. x \in UNION {{<<"mailbox", p, i>> : i \in InMailbox(p, b)} : p \in Pids} <=>
         \E p \in Pids : \E i \in DOMAIN mess_queue[p] :
            mess_queue[p][i] = b /\ x = <<"mailbox", p, i>>
  BY DEF InMailbox
<1>. QED  BY <1>1, <1>2, <1>3, <1>4 DEF PlacesOf

\* A block that is somewhere, and alone there, is in one place.
LEMMA ConservedMeans == Conserved => BlocksInOnePlace
<1> SUFFICES ASSUME Conserved, NEW b \in Blocks
             PROVE  \E x \in PlacesOf(b) : PlacesOf(b) = {x}
  BY DEF BlocksInOnePlace
<1>1. Somewhere(b) /\ Alone(b)
  BY DEF Conserved
<1>2. \E x : x \in PlacesOf(b)
  <2>1. CASE b \in free_mem_q
    BY <2>1, Place
  <2>2. CASE IsDelayed(b)
    BY <2>2, Place DEF IsDelayed
  <2>3. CASE IsHeld(b)
    BY <2>3, Place DEF IsHeld
  <2>4. CASE IsInMailbox(b)
    <3>1. PICK p \in Pids : \E i \in DOMAIN mess_queue[p] : mess_queue[p][i] = b
      BY <2>4 DEF IsInMailbox
    <3>2. PICK i \in DOMAIN mess_queue[p] : mess_queue[p][i] = b
      BY <3>1
    <3>3. <<"mailbox", p, i>> \in PlacesOf(b)
      BY <3>2, Place
    <3>. QED  BY <3>3
  <2>. QED  BY <1>1, <2>1, <2>2, <2>3, <2>4 DEF Somewhere
<1>3. ASSUME NEW x \in PlacesOf(b), NEW y \in PlacesOf(b) PROVE x = y
  <2>1. CASE b \in free_mem_q
    BY <1>1, <2>1, Place DEF Alone, IsDelayed, IsHeld, IsInMailbox
  <2>2. CASE IsDelayed(b)
    BY <1>1, <2>2, Place DEF Alone, IsHeld, IsInMailbox, DelayedOnce
  <2>3. CASE IsHeld(b)
    BY <1>1, <2>3, Place DEF Alone, IsDelayed, IsInMailbox, HeldOnce
  <2>4. CASE IsInMailbox(b)
    BY <1>1, <2>4, Place DEF Alone, IsDelayed, IsHeld, InMailboxOnce
  <2>. QED  BY <1>1, <2>1, <2>2, <2>3, <2>4 DEF Somewhere
<1>. QED  BY <1>2, <1>3
-----------------------------------------------------------------------------
(* The ways a block moves.                                                     *)

\* What a message that is put into a mailbox changes.
LEMMA Put ==
    ASSUME Safe, NEW d \in Pids, NEW b \in Blocks,
           mess_queue' = [mess_queue EXCEPT ![d] = Append(@, b)]
    PROVE  /\ DOMAIN mess_queue'[d] = DOMAIN mess_queue[d] \cup {Len(mess_queue[d]) + 1}
           /\ Len(mess_queue[d]) + 1 \notin DOMAIN mess_queue[d]
           /\ mess_queue'[d][Len(mess_queue[d]) + 1] = b
           /\ \A i \in DOMAIN mess_queue[d] : mess_queue'[d][i] = mess_queue[d][i]
           /\ \A p \in Pids : p # d => mess_queue'[p] = mess_queue[p]
<1>1. mess_queue \in [Pids -> Seq(Blocks)] /\ mess_queue[d] \in Seq(Blocks)
  BY DEF Safe
<1>2. mess_queue'[d] = Append(mess_queue[d], b)
  BY <1>1
<1>. QED  BY <1>1, <1>2

\* What taking the first message out of a mailbox changes.
LEMMA Take ==
    ASSUME Safe, NEW c \in Pids, mess_queue[c] # << >>,
           mess_queue' = [mess_queue EXCEPT ![c] = Tail(@)]
    PROVE  /\ 1 \in DOMAIN mess_queue[c] /\ Head(mess_queue[c]) = mess_queue[c][1]
           /\ Head(mess_queue[c]) \in Blocks
           /\ DOMAIN mess_queue[c] \subseteq Nat
           /\ \A i \in DOMAIN mess_queue'[c] :
                 /\ i + 1 \in DOMAIN mess_queue[c] /\ i + 1 # 1 /\ i \in Nat
                 /\ mess_queue'[c][i] = mess_queue[c][i + 1]
           /\ \A i \in DOMAIN mess_queue[c] : i # 1 => i - 1 \in DOMAIN mess_queue'[c]
                                                    /\ mess_queue'[c][i - 1] = mess_queue[c][i]
           /\ \A p \in Pids : p # c => mess_queue'[p] = mess_queue[p]
<1>1. mess_queue \in [Pids -> Seq(Blocks)] /\ mess_queue[c] \in Seq(Blocks)
  BY DEF Safe
<1>2. mess_queue'[c] = Tail(mess_queue[c])
  BY <1>1
<1>. QED  BY <1>1, <1>2

\* send_message: b goes from the hands of c into the mailbox of d.
LEMMA SendMoves ==
    ASSUME Safe, Conserved, NEW c \in Pids, NEW d \in Pids, NEW b, Send(c, d, b)
    PROVE  Conserved'
<1>1. /\ b \in held[c] /\ b \in Blocks
      /\ held' = [held EXCEPT ![c] = @ \ {b}]
      /\ mess_queue' = [mess_queue EXCEPT ![d] = Append(@, b)]
      /\ free_mem_q' = free_mem_q /\ delayed' = delayed
  BY DEF Send, Safe
<1>2. /\ DOMAIN mess_queue'[d] = DOMAIN mess_queue[d] \cup {Len(mess_queue[d]) + 1}
      /\ Len(mess_queue[d]) + 1 \notin DOMAIN mess_queue[d]
      /\ mess_queue'[d][Len(mess_queue[d]) + 1] = b
      /\ \A i \in DOMAIN mess_queue[d] : mess_queue'[d][i] = mess_queue[d][i]
      /\ \A p \in Pids : p # d => mess_queue'[p] = mess_queue[p]
  BY <1>1, Put
<1>3. \A p \in Pids : held'[p] = IF p = c THEN held[p] \ {b} ELSE held[p]
  BY <1>1 DEF Safe
<1>4. /\ b \notin free_mem_q /\ ~IsDelayed(b) /\ ~IsInMailbox(b) /\ HeldOnce(b)
  BY <1>1 DEF Conserved, Alone, IsHeld
<1>5. Somewhere(b)' /\ Alone(b)'
  <2>1. IsInMailbox(b)'
    BY <1>2 DEF IsInMailbox
  <2>2. b \notin free_mem_q' /\ ~IsDelayed(b)' /\ DelayedOnce(b)'
    BY <1>1, <1>4 DEF IsDelayed, DelayedOnce
  <2>3. ~IsHeld(b)' /\ HeldOnce(b)'
    BY <1>1, <1>3, <1>4 DEF IsHeld, HeldOnce
  <2>4. InMailboxOnce(b)'
    BY <1>2, <1>4 DEF IsInMailbox, InMailboxOnce
  <2>. QED  BY <2>1, <2>2, <2>3, <2>4 DEF Somewhere, Alone
<1>6. ASSUME NEW e \in Blocks, e # b PROVE Somewhere(e)' /\ Alone(e)'
  <2>1. Somewhere(e) /\ Alone(e)
    BY DEF Conserved
  <2>2. IsDelayed(e)' = IsDelayed(e) /\ DelayedOnce(e)' = DelayedOnce(e)
    BY <1>1 DEF IsDelayed, DelayedOnce
  <2>3. (IsHeld(e)' <=> IsHeld(e)) /\ (HeldOnce(e) => HeldOnce(e)')
    BY <1>3, <1>6 DEF IsHeld, HeldOnce
  <2>4. (IsInMailbox(e)' <=> IsInMailbox(e)) /\ (InMailboxOnce(e) => InMailboxOnce(e)')
    BY <1>2, <1>6 DEF IsInMailbox, InMailboxOnce
  <2>. QED  BY <1>1, <2>1, <2>2, <2>3, <2>4 DEF Somewhere, Alone
<1>. QED  BY <1>5, <1>6 DEF Conserved

\* The timer i-process sends a message that is due to its receiver.
LEMMA ExpireMoves ==
    ASSUME Safe, Conserved, timer_expire
    PROVE  Conserved'
<1>1. PICK m \in delayed :
         /\ delayed' = delayed \ {m}
         /\ mess_queue' = [mess_queue EXCEPT ![m[2]] = Append(@, m[1])]
         /\ free_mem_q' = free_mem_q /\ held' = held
  BY DEF timer_expire
<1> DEFINE b == m[1]
           d == m[2]
<1>2. b \in Blocks /\ d \in Pids
  BY DEF Safe
<1>3. /\ DOMAIN mess_queue'[d] = DOMAIN mess_queue[d] \cup {Len(mess_queue[d]) + 1}
      /\ Len(mess_queue[d]) + 1 \notin DOMAIN mess_queue[d]
      /\ mess_queue'[d][Len(mess_queue[d]) + 1] = b
      /\ \A i \in DOMAIN mess_queue[d] : mess_queue'[d][i] = mess_queue[d][i]
      /\ \A p \in Pids : p # d => mess_queue'[p] = mess_queue[p]
  BY <1>1, <1>2, Put
<1>4. IsDelayed(b)
  BY DEF IsDelayed
<1>5. /\ b \notin free_mem_q /\ ~IsHeld(b) /\ ~IsInMailbox(b)
      /\ HeldOnce(b) /\ DelayedOnce(b)
  BY <1>2, <1>4 DEF Conserved, Alone
<1>6. m[1] = b
  OBVIOUS
<1> HIDE DEF b, d
<1>7. Somewhere(b)' /\ Alone(b)'
  <2>1. IsInMailbox(b)'
    BY <1>2, <1>3 DEF IsInMailbox
  <2>2. b \notin free_mem_q' /\ ~IsHeld(b)' /\ HeldOnce(b)'
    BY <1>1, <1>5 DEF IsHeld, HeldOnce
  <2>3. ~IsDelayed(b)' /\ DelayedOnce(b)'
    BY <1>1, <1>5, <1>6 DEF IsDelayed, DelayedOnce
  <2>4. InMailboxOnce(b)'
    BY <1>3, <1>5 DEF IsInMailbox, InMailboxOnce
  <2>. QED  BY <2>1, <2>2, <2>3, <2>4 DEF Somewhere, Alone
<1>8. ASSUME NEW e \in Blocks, e # b PROVE Somewhere(e)' /\ Alone(e)'
  <2>1. Somewhere(e) /\ Alone(e)
    BY DEF Conserved
  <2>2. (IsDelayed(e)' <=> IsDelayed(e)) /\ (DelayedOnce(e) => DelayedOnce(e)')
    BY <1>1, <1>6, <1>8 DEF IsDelayed, DelayedOnce
  <2>3. IsHeld(e)' = IsHeld(e) /\ HeldOnce(e)' = HeldOnce(e)
    BY <1>1 DEF IsHeld, HeldOnce
  <2>4. (IsInMailbox(e)' <=> IsInMailbox(e)) /\ (InMailboxOnce(e) => InMailboxOnce(e)')
    BY <1>3, <1>8 DEF IsInMailbox, InMailboxOnce
  <2>. QED  BY <1>1, <2>1, <2>2, <2>3, <2>4 DEF Somewhere, Alone
<1>. QED  BY <1>7, <1>8 DEF Conserved

\* receive_message: the first message of c's mailbox goes into the hands of c.
LEMMA ReceiveMoves ==
    ASSUME Safe, Conserved, NEW c \in Pids, ReceiveMessage(c)
    PROVE  Conserved'
<1>0. PICK b : b = Head(mess_queue[c])
  OBVIOUS
<1>1. /\ mess_queue[c] # << >>
      /\ held' = [held EXCEPT ![c] = @ \cup {b}]
      /\ mess_queue' = [mess_queue EXCEPT ![c] = Tail(@)]
      /\ free_mem_q' = free_mem_q /\ delayed' = delayed
  BY <1>0 DEF ReceiveMessage
<1>2. /\ 1 \in DOMAIN mess_queue[c] /\ b = mess_queue[c][1]
      /\ b \in Blocks
      /\ DOMAIN mess_queue[c] \subseteq Nat
      /\ \A i \in DOMAIN mess_queue'[c] :
            /\ i + 1 \in DOMAIN mess_queue[c] /\ i + 1 # 1 /\ i \in Nat
            /\ mess_queue'[c][i] = mess_queue[c][i + 1]
      /\ \A i \in DOMAIN mess_queue[c] : i # 1 => i - 1 \in DOMAIN mess_queue'[c]
                                               /\ mess_queue'[c][i - 1] = mess_queue[c][i]
      /\ \A p \in Pids : p # c => mess_queue'[p] = mess_queue[p]
  BY <1>0, <1>1, Take
<1>3. \A p \in Pids : held'[p] = IF p = c THEN held[p] \cup {b} ELSE held[p]
  BY <1>1 DEF Safe
<1>4. IsInMailbox(b)
  BY <1>2 DEF IsInMailbox
<1>5. b \notin free_mem_q /\ ~IsDelayed(b) /\ ~IsHeld(b) /\ DelayedOnce(b) /\ InMailboxOnce(b)
  BY <1>2, <1>4 DEF Conserved, Alone
<1>6. Somewhere(b)' /\ Alone(b)'
  <2>1. IsHeld(b)' /\ HeldOnce(b)'
    BY <1>3, <1>5 DEF IsHeld, HeldOnce
  <2>2. b \notin free_mem_q' /\ ~IsDelayed(b)' /\ DelayedOnce(b)'
    BY <1>1, <1>5 DEF IsDelayed, DelayedOnce
  <2>3. ~IsInMailbox(b)' /\ InMailboxOnce(b)'
    <3>1. ASSUME NEW p \in Pids, NEW i \in DOMAIN mess_queue'[p], mess_queue'[p][i] = b
          PROVE  FALSE
      <4>1. CASE p = c
        BY <1>2, <1>5, <3>1, <4>1 DEF InMailboxOnce
      <4>2. CASE p # c
        BY <1>2, <1>5, <3>1, <4>2 DEF InMailboxOnce
      <4>. QED  BY <4>1, <4>2
    <3>. QED  BY <3>1 DEF IsInMailbox, InMailboxOnce
  <2>. QED  BY <2>1, <2>2, <2>3 DEF Somewhere, Alone
<1>7. ASSUME NEW e \in Blocks, e # b PROVE Somewhere(e)' /\ Alone(e)'
  <2>1. Somewhere(e) /\ Alone(e)
    BY DEF Conserved
  <2>2. IsDelayed(e)' = IsDelayed(e) /\ DelayedOnce(e)' = DelayedOnce(e)
    BY <1>1 DEF IsDelayed, DelayedOnce
  <2>3. (IsHeld(e)' <=> IsHeld(e)) /\ (HeldOnce(e) => HeldOnce(e)')
    BY <1>3, <1>7 DEF IsHeld, HeldOnce
  <2>4. IsInMailbox(e)' => IsInMailbox(e)
    <3>1. ASSUME NEW p \in Pids, NEW i \in DOMAIN mess_queue'[p], mess_queue'[p][i] = e
          PROVE  \E j \in DOMAIN mess_queue[p] : mess_queue[p][j] = e
      BY <1>2, <3>1
    <3>. QED  BY <3>1 DEF IsInMailbox
  <2>5. IsInMailbox(e) => IsInMailbox(e)'
    <3>1. ASSUME NEW p \in Pids, NEW i \in DOMAIN mess_queue[p], mess_queue[p][i] = e
          PROVE  \E j \in DOMAIN mess_queue'[p] : mess_queue'[p][j] = e
      BY <1>2, <1>7, <3>1
    <3>. QED  BY <3>1 DEF IsInMailbox
  <2>6. InMailboxOnce(e) => InMailboxOnce(e)'
    <3>1. ASSUME InMailboxOnce(e), NEW p \in Pids, NEW q \in Pids,
                 NEW i \in DOMAIN mess_queue'[p], NEW j \in DOMAIN mess_queue'[q],
                 mess_queue'[p][i] = e, mess_queue'[q][j] = e
          PROVE  p = q /\ i = j
      <4>1. \E k \in DOMAIN mess_queue[p] :
               mess_queue[p][k] = e /\ (IF p = c THEN k = i + 1 /\ i \in Nat ELSE k = i)
        BY <1>2, <3>1
      <4>2. \E k \in DOMAIN mess_queue[q] :
               mess_queue[q][k] = e /\ (IF q = c THEN k = j + 1 /\ j \in Nat ELSE k = j)
        BY <1>2, <3>1
      <4>3. p = q
        BY <3>1, <4>1, <4>2 DEF InMailboxOnce
      <4>4. CASE p = c
        BY <3>1, <4>1, <4>2, <4>3, <4>4 DEF InMailboxOnce
      <4>5. CASE p # c
        BY <3>1, <4>1, <4>2, <4>3, <4>5 DEF InMailboxOnce
      <4>. QED  BY <4>3, <4>4, <4>5
    <3>. QED  BY <3>1 DEF InMailboxOnce
  <2>. QED  BY <1>1, <2>1, <2>2, <2>3, <2>4, <2>5, <2>6 DEF Somewhere, Alone
<1>. QED  BY <1>6, <1>7 DEF Conserved

\* request_memory_block: a free block goes into the hands of c.
LEMMA RequestMoves ==
    ASSUME Safe, Conserved, NEW c \in Pids, RequestBlock(c)
    PROVE  Conserved'
<1>1. PICK b \in free_mem_q :
         /\ free_mem_q' = free_mem_q \ {b}
         /\ held' = [held EXCEPT ![c] = @ \cup {b}]
         /\ mess_queue' = mess_queue /\ delayed' = delayed
  BY DEF RequestBlock
<1>2. \A p \in Pids : held'[p] = IF p = c THEN held[p] \cup {b} ELSE held[p]
  BY <1>1 DEF Safe
<1>3. /\ ~IsDelayed(b) /\ ~IsHeld(b) /\ ~IsInMailbox(b)
      /\ DelayedOnce(b) /\ InMailboxOnce(b)
  BY DEF Conserved, Alone, Safe
<1>4. \A e : /\ IsDelayed(e)' = IsDelayed(e) /\ DelayedOnce(e)' = DelayedOnce(e)
             /\ IsInMailbox(e)' = IsInMailbox(e) /\ InMailboxOnce(e)' = InMailboxOnce(e)
  BY <1>1 DEF IsDelayed, DelayedOnce, IsInMailbox, InMailboxOnce
<1>5. IsHeld(b)' /\ HeldOnce(b)'
  BY <1>2, <1>3 DEF IsHeld, HeldOnce
<1>6. Somewhere(b)' /\ Alone(b)'
  BY <1>1, <1>3, <1>4, <1>5 DEF Somewhere, Alone
<1>7. ASSUME NEW e \in Blocks, e # b PROVE Somewhere(e)' /\ Alone(e)'
  <2>1. Somewhere(e) /\ Alone(e)
    BY DEF Conserved
  <2>2. (IsHeld(e)' <=> IsHeld(e)) /\ (HeldOnce(e) => HeldOnce(e)')
    BY <1>2, <1>7 DEF IsHeld, HeldOnce
  <2>. QED  BY <1>1, <1>4, <1>7, <2>1, <2>2 DEF Somewhere, Alone
<1>. QED  BY <1>6, <1>7 DEF Conserved

\* A block that leaves the hands of c, on the way to another place.
LEMMA Given ==
    ASSUME Safe, Conserved, NEW c \in Pids, NEW b \in held[c],
           held' = [held EXCEPT ![c] = @ \ {b}], mess_queue' = mess_queue
    PROVE  /\ b \in Blocks /\ b \notin free_mem_q /\ ~IsDelayed(b) /\ DelayedOnce(b)
           /\ ~IsHeld(b)' /\ HeldOnce(b)' /\ ~IsInMailbox(b)' /\ InMailboxOnce(b)'
           /\ \A e \in Blocks : e # b =>
                 /\ IsHeld(e)' <=> IsHeld(e)
                 /\ HeldOnce(e) => HeldOnce(e)'
                 /\ IsInMailbox(e)' = IsInMailbox(e) /\ InMailboxOnce(e)' = InMailboxOnce(e)
<1>1. b \in Blocks /\ IsHeld(b)
  BY DEF Safe, IsHeld
<1>2. \A p \in Pids : held'[p] = IF p = c THEN held[p] \ {b} ELSE held[p]
  BY DEF Safe
<1>3. /\ b \notin free_mem_q /\ ~IsDelayed(b) /\ ~IsInMailbox(b)
      /\ HeldOnce(b) /\ DelayedOnce(b) /\ InMailboxOnce(b)
  BY <1>1 DEF Conserved, Alone
<1>4. ~IsHeld(b)' /\ HeldOnce(b)'
  BY <1>2, <1>3 DEF IsHeld, HeldOnce
<1>5. \A e : IsInMailbox(e)' = IsInMailbox(e) /\ InMailboxOnce(e)' = InMailboxOnce(e)
  BY DEF IsInMailbox, InMailboxOnce
<1>6. \A e \in Blocks : e # b => (IsHeld(e)' <=> IsHeld(e)) /\ (HeldOnce(e) => HeldOnce(e)')
  BY <1>2 DEF IsHeld, HeldOnce
<1>. QED  BY <1>1, <1>3, <1>4, <1>5, <1>6

\* release_memory_block: b goes from the hands of c onto the free list.
LEMMA ReleaseMoves ==
    ASSUME Safe, Conserved, NEW c \in Pids, NEW b, Release(c, b)
    PROVE  Conserved'
<1>1. /\ b \in held[c]
      /\ held' = [held EXCEPT ![c] = @ \ {b}] /\ free_mem_q' = free_mem_q \cup {b}
      /\ mess_queue' = mess_queue /\ delayed' = delayed
  BY DEF Release
<1>2. \A e : IsDelayed(e)' = IsDelayed(e) /\ DelayedOnce(e)' = DelayedOnce(e)
  BY <1>1 DEF IsDelayed, DelayedOnce
<1>3. Somewhere(b)' /\ Alone(b)'
  BY <1>1, <1>2, Given DEF Somewhere, Alone
<1>4. ASSUME NEW e \in Blocks, e # b PROVE Somewhere(e)' /\ Alone(e)'
  BY <1>1, <1>2, <1>4, Given DEF Conserved, Somewhere, Alone
<1>. QED  BY <1>3, <1>4 DEF Conserved

\* delayed_send: b goes from the hands of c into the delayed send queue.
LEMMA DelayedSendMoves ==
    ASSUME Safe, Conserved, NEW c \in Pids, NEW d \in Pids, NEW b, DelayedSend(c, d, b)
    PROVE  Conserved'
<1>1. /\ b \in held[c]
      /\ held' = [held EXCEPT ![c] = @ \ {b}] /\ delayed' = delayed \cup {<<b, d>>}
      /\ mess_queue' = mess_queue /\ free_mem_q' = free_mem_q
  BY DEF DelayedSend
<1>2. ~IsDelayed(b)
  BY <1>1, Given
<1>3. IsDelayed(b)' /\ DelayedOnce(b)'
  <2>1. <<b, d>> \in delayed' /\ <<b, d>>[1] = b
    BY <1>1
  <2>2. \A m \in delayed' : m[1] = b => m = <<b, d>>
    BY <1>1, <1>2 DEF IsDelayed
  <2>3. IsDelayed(b)'
    BY <2>1 DEF IsDelayed
  <2>. QED  BY <2>2, <2>3 DEF DelayedOnce
<1>4. \A e : e # b => (IsDelayed(e)' <=> IsDelayed(e)) /\ (DelayedOnce(e) => DelayedOnce(e)')
  BY <1>1 DEF IsDelayed, DelayedOnce
<1>5. Somewhere(b)' /\ Alone(b)'
  BY <1>1, <1>3, Given DEF Somewhere, Alone
<1>6. ASSUME NEW e \in Blocks, e # b PROVE Somewhere(e)' /\ Alone(e)'
  BY <1>1, <1>4, <1>6, Given DEF Conserved, Somewhere, Alone
<1>. QED  BY <1>5, <1>6 DEF Conserved

\* Most steps move no block.
LEMMA NoneMoves ==
    ASSUME Conserved, UNCHANGED <<mess_queue, free_mem_q, delayed, held>>
    PROVE  Conserved'
  BY DEF Conserved, Somewhere, Alone, IsDelayed, IsHeld, IsInMailbox, DelayedOnce,
         HeldOnce, InMailboxOnce
-----------------------------------------------------------------------------
\* No call of an ordinary process loses or doubles a block.
LEMMA ProcessMoves ==
    ASSUME Safe, Conserved, NEW c \in Pids, Process(c)
    PROVE  Conserved'
<1>1. ASSUME NEW b \in held[c], NEW d \in Pids, Send(c, d, b) PROVE Conserved'
  BY <1>1, SendMoves
<1>2. ASSUME NEW b \in held[c], Release(c, b) PROVE Conserved'
  BY <1>2, ReleaseMoves
<1>3. ASSUME NEW b \in held[c], DelayedSend(c, c, b) PROVE Conserved'
  BY <1>3, DelayedSendMoves
<1>4. ASSUME \/ ReceiveBlocks(c) \/ RequestBlocks(c) \/ ReleaseProcessor(c)
             \/ \E r \in NewPriorities : SetPriority(c, r[1], r[2])
      PROVE  Conserved'
  BY <1>4, NoneMoves DEF ReceiveBlocks, RequestBlocks, ReleaseProcessor, SetPriority
<1>. QED  BY <1>1, <1>2, <1>3, <1>4, ReceiveMoves, RequestMoves DEF Process

\* Nor does a step of an i-process.
LEMMA IProcessMoves ==
    ASSUME Safe, Conserved, IProcess
    PROVE  Conserved'
<1>1. TIMER_PID \in Pids /\ UART_PID \in Pids /\ KCD_PID \in Pids
  BY SchedulerAssumption, KernelAssumption
<1>2. ASSUME NEW i \in Pids, ReceiveBlocks(i) \/ RequestBlocks(i) \/ ReleaseProcessor(i)
      PROVE  UNCHANGED <<mess_queue, free_mem_q, delayed, held>>
  BY <1>2 DEF ReceiveBlocks, RequestBlocks, ReleaseProcessor
<1>3. CASE timer_poll \/ timer_done \/ uart_status \/ uart_done
  BY <1>1, <1>2, <1>3, NoneMoves DEF timer_poll, timer_done, uart_status, uart_done
<1>4. CASE timer_expire
  BY <1>4, ExpireMoves
<1>5. CASE uart_request
  BY <1>1, <1>2, <1>5, NoneMoves, RequestMoves DEF uart_request
<1>6. CASE uart_send
  BY <1>1, <1>6, SendMoves DEF uart_send
<1>7. CASE uart_drain
  BY <1>1, <1>2, <1>7, NoneMoves, ReceiveMoves DEF uart_drain
<1>8. CASE uart_write
  BY <1>1, <1>8, ReleaseMoves DEF uart_write
<1>. QED  BY <1>3, <1>4, <1>5, <1>6, <1>7, <1>8 DEF IProcess

\* Whatever the programs call and whatever interrupts come in, every memory block
\* is in exactly one place: no block is lost and none has two users.
THEOREM BlocksStayInOnePlace == Spec => []BlocksInOnePlace
<1>1. Init => Conserved
  BY DEF Init, Conserved, Somewhere, Alone, IsDelayed, IsHeld, IsInMailbox,
         DelayedOnce, HeldOnce, InMailboxOnce
<1>2. Safe /\ AtOK /\ Conserved /\ [Next]_vars => Conserved'
  <2> SUFFICES ASSUME Safe, Conserved, [Next]_vars PROVE Conserved'
    OBVIOUS
  <2>1. CASE timer_handler \/ uart_handler
    BY <2>1, NoneMoves DEF timer_handler, uart_handler
  <2>2. CASE UNCHANGED vars
    BY <2>2, NoneMoves DEF vars
  <2>. QED  BY <2>1, <2>2, ProcessMoves, IProcessMoves DEF Next
<1>. QED  BY <1>1, <1>2, ConservedMeans, Invariant, PTL DEF Spec
-----------------------------------------------------------------------------
(* The system as it boots: every process is in one place, the kernel never     *)
(* walks a broken list, and the i-processes neither wait nor lose the          *)
(* processor.  For every set of processes and blocks, and every program and    *)
(* priority that satisfies AsBooted.                                           *)

\* List l of queue Q is linked properly, and the processes on it are those in S.
HasExactly(k, Q, l, S) ==
    \E q \in Seq(Pids) : ListIs(k, Q, l, q) /\ S = {q[i] : i \in 1 .. Len(q)}

\* The list of i-processes of priority l is as broken as it gets: a walk is at the
\* tail after one turn, or turns around on the spot.
Knotted(k, l) ==
    LET h == k.head["READY_queue"][l]
        t == k.tail["READY_queue"][l]
    IN  \/ h = NULL
        \/ /\ h \in I_PROCESSES /\ BootPriority[h] = l
           /\ t \in I_PROCESSES /\ BootPriority[t] = l
           /\ h = t \/ k.next[h] = t \/ k.next[h] = h

ILevels == {BootPriority[i] : i \in I_PROCESSES}
At(S, l) == {p \in S : BootPriority[p] = l}

\* on[Q] is the set of the ordinary processes on queue Q.
ListOK(k, on, Q, l) ==
    /\ k.head[Q][l] = NULL => k.tail[Q][l] = NULL
    /\ IF Q = "READY_queue" /\ l \in ILevels THEN Knotted(k, l)
       ELSE HasExactly(k, Q, l, At(on[Q], l))

Arranged(k, on) ==
    /\ k \in KernelStates /\ Exact(k) /\ ~k.hung /\ k.priority = BootPriority
    /\ on \in [Queues -> SUBSET Users]
    /\ \A Q, R \in Queues : Q # R => on[Q] \cap on[R] = {}
    /\ \A Q \in Queues, l \in Levels : ListOK(k, on, Q, l)

\* The ordinary processes have priorities of their own.
Apart == \A p \in Users, i \in I_PROCESSES : BootPriority[p] # BootPriority[i]
-----------------------------------------------------------------------------
(* One list.                                                                   *)

\* A list nobody touches stays as it is.
LEMMA HasExactlyKept ==
    ASSUME NEW k, NEW e, NEW Q, NEW l, NEW S, HasExactly(k, Q, l, S),
           e.head[Q][l] = k.head[Q][l], e.tail[Q][l] = k.tail[Q][l],
           \A p \in S : e.next[p] = k.next[p]
    PROVE  HasExactly(e, Q, l, S)
<1>1. PICK q \in Seq(Pids) : ListIs(k, Q, l, q) /\ S = {q[i] : i \in 1 .. Len(q)}
  BY DEF HasExactly
<1>2. \A i \in 1 .. Len(q) : e.next[q[i]] = k.next[q[i]]
  BY <1>1
<1>3. ListIs(e, Q, l, q)
  BY <1>1, <1>2, ListKept
<1>. QED  BY <1>1, <1>3 DEF HasExactly

\* A list is empty when its head is NULL.
LEMMA EmptyOrNot ==
    ASSUME NEW k, NEW Q, NEW l, NEW S, HasExactly(k, Q, l, S)
    PROVE  k.head[Q][l] = NULL <=> S = {}
<1>1. PICK q \in Seq(Pids) : ListIs(k, Q, l, q) /\ S = {q[i] : i \in 1 .. Len(q)}
  BY DEF HasExactly
<1>2. /\ Len(q) \in Nat /\ (q # << >> <=> Len(q) # 0)
      /\ \A i \in 1 .. Len(q) : q[i] \in Pids /\ q[i] # NULL
  BY <1>1, ListFits
<1>3. k.head[Q][l] = IF q = << >> THEN NULL ELSE q[Len(q)]
  BY <1>1 DEF ListIs
<1>4. CASE Len(q) = 0
  BY <1>1, <1>2, <1>3, <1>4
<1>5. CASE Len(q) # 0
  <2>1. Len(q) \in 1 .. Len(q)
    BY <1>2, <1>5
  <2>. QED  BY <1>1, <1>2, <1>3, <1>5, <2>1
<1>. QED  BY <1>4, <1>5

\* A process is linked into a list it is not on.
LEMMA HasExactlyEnqueued ==
    ASSUME NEW k, NEW e, NEW Q, NEW l, NEW S, HasExactly(k, Q, l, S),
           NEW p \in Pids, p \notin S,
           k.next \in [Pids -> Pointers],
           e.next = [k.next EXCEPT ![p] = k.head[Q][l]],
           e.head[Q][l] = p,
           e.tail[Q][l] = IF isEmpty(k, Q, l) THEN p ELSE k.tail[Q][l]
    PROVE  HasExactly(e, Q, l, S \cup {p})
<1>1. PICK q \in Seq(Pids) : ListIs(k, Q, l, q) /\ S = {q[i] : i \in 1 .. Len(q)}
  BY DEF HasExactly
<1> DEFINE r == Append(q, p)
<1>2. \A i \in 1 .. Len(q) : q[i] # p
  BY <1>1
<1>3. ListIs(e, Q, l, r)
  BY <1>1, <1>2, ListEnqueued
<1>4. /\ r \in Seq(Pids) /\ Len(r) = Len(q) + 1 /\ Len(q) \in Nat
      /\ \A i \in 1 .. Len(r) : r[i] = IF i = Len(q) + 1 THEN p ELSE q[i]
  OBVIOUS
<1> HIDE DEF r
<1>5. \A i \in 1 .. Len(r) : i \in 1 .. Len(q) \/ i = Len(q) + 1
  BY <1>4
<1>6. {r[i] : i \in 1 .. Len(r)} \subseteq S \cup {p}
  BY <1>1, <1>4, <1>5
<1>7. S \cup {p} \subseteq {r[i] : i \in 1 .. Len(r)}
  <2>1. \A i \in 1 .. Len(q) : i \in 1 .. Len(r) /\ r[i] = q[i]
    BY <1>4
  <2>2. Len(q) + 1 \in 1 .. Len(r) /\ r[Len(q) + 1] = p
    BY <1>4
  <2>. QED  BY <1>1, <2>1, <2>2
<1>. QED  BY <1>3, <1>4, <1>6, <1>7 DEF HasExactly

\* The oldest process of a list that has one is taken off it, and nothing else is
\* touched but the pointer of another process on the list.
Taken(k, Q, l, S, d) ==
    /\ d.pcb \in S
    /\ HasExactly(d.s, Q, l, S \ {d.pcb})
    /\ \A R \in Queues, m \in Levels : R # Q \/ m # l =>
          d.s.head[R][m] = k.head[R][m] /\ d.s.tail[R][m] = k.tail[R][m]
    /\ d.s.head[Q][l] = NULL => d.s.tail[Q][l] = NULL
    /\ \A x \in Pids : d.s.next[x] # k.next[x] => x \in S
    /\ d.s.hung = k.hung

LEMMA TakesOldest ==
    ASSUME NEW k \in KernelStates, NEW Q \in Queues, NEW l \in Levels, NEW S,
           HasExactly(k, Q, l, S), S # {}
    PROVE  Taken(k, Q, l, S, dequeue_PCB_FIFO(k, Q, l))
<1>1. PICK q \in Seq(Pids) : ListIs(k, Q, l, q) /\ S = {q[i] : i \in 1 .. Len(q)}
  BY DEF HasExactly
<1>2. /\ Len(q) \in Nat /\ Len(q) # 0
      /\ \A i \in 1 .. Len(q) : q[i] \in Pids /\ q[i] # NULL
  BY <1>1, ListFits
<1>3. /\ \A i, j \in 1 .. Len(q) : q[i] = q[j] => i = j
      /\ k.head[Q][l] = q[Len(q)] /\ k.tail[Q][l] = q[1]
  BY <1>1, <1>2 DEF ListIs
<1>4. q[1] \in S
  BY <1>1, <1>2
<1>5. CASE Len(q) = 1
  <2> DEFINE e == unlink_all(k, Q, l)
  <2>1. dequeue_PCB_FIFO(k, Q, l) = [pcb |-> q[1], s |-> e]
    BY <1>1, <1>5, DequeueOnList
  <2>2. /\ e.head = [k.head EXCEPT ![Q][l] = NULL]
        /\ e.tail = [k.tail EXCEPT ![Q][l] = NULL]
        /\ e.next = k.next /\ e.hung = k.hung
    BY DEF unlink_all, KernelStates
  <2> HIDE DEF e
  <2>3. /\ e.head[Q][l] = NULL /\ e.tail[Q][l] = NULL
        /\ \A R \in Queues, m \in Levels : R # Q \/ m # l =>
             e.head[R][m] = k.head[R][m] /\ e.tail[R][m] = k.tail[R][m]
    BY <2>2 DEF KernelStates
  <2>4. S \ {q[1]} = {}
    BY <1>1, <1>5
  <2>5. PICK r \in Seq(Pids) : Len(r) = 0
    <3>1. Tail(q) \in Seq(Pids) /\ Len(Tail(q)) = 0
      BY <1>2, <1>5
    <3>. QED  BY <3>1
  <2>6. ListIs(e, Q, l, r) /\ {r[i] : i \in 1 .. Len(r)} = {}
    <3>1. ListIs(e, Q, l, r)
      BY <2>3, <2>5, ListEmptied
    <3>. QED  BY <2>5, <3>1
  <2>7. HasExactly(e, Q, l, S \ {q[1]})
    BY <2>4, <2>5, <2>6 DEF HasExactly
  <2>8. SUFFICES ASSUME NEW d, d = [pcb |-> q[1], s |-> e] PROVE Taken(k, Q, l, S, d)
    BY <2>1
  <2>9. d.pcb = q[1] /\ d.s = e
    BY <2>8
  <2>. QED  BY <1>4, <2>2, <2>3, <2>7, <2>9 DEF Taken
<1>6. CASE Len(q) > 1
  <2> DEFINE e == TailTaken(k, Q, l, q)
             r == Tail(q)
  <2>1. dequeue_PCB_FIFO(k, Q, l) = [pcb |-> q[1], s |-> e]
    BY <1>1, <1>6, DequeueOnList
  <2>2. /\ e.head = k.head /\ e.tail = [k.tail EXCEPT ![Q][l] = q[2]]
        /\ e.next = [k.next EXCEPT ![q[2]] = NULL] /\ e.hung = k.hung
    BY DEF TailTaken, KernelStates
  <2>3. Shortened(q, 1, r)
    BY <1>1, <1>2, <1>6 DEF Shortened
  <2>4. q[2] \in S /\ q[2] \in Pids
    BY <1>1, <1>2, <1>6
  <2> HIDE DEF e, r
  <2>5. /\ e.tail[Q][l] = q[2]
        /\ \A R \in Queues, m \in Levels : R # Q \/ m # l =>
             e.head[R][m] = k.head[R][m] /\ e.tail[R][m] = k.tail[R][m]
    BY <2>2 DEF KernelStates
  <2>6. k.next \in [Pids -> Pointers]
    BY DEF KernelStates
  <2>7. ListIs(e, Q, l, r)
    BY <1>1, <1>6, <2>2, <2>3, <2>5, <2>6, ListTailTaken
  <2>8. {r[i] : i \in 1 .. Len(r)} = S \ {q[1]}
    <3>1. /\ Len(r) = Len(q) - 1
          /\ \A i \in 1 .. Len(r) : r[i] = q[i + 1] /\ i + 1 \in 1 .. Len(q) /\ i + 1 # 1
      BY <1>2, <2>3 DEF Shortened
    <3>2. \A i \in 1 .. Len(q) : i # 1 => i - 1 \in 1 .. Len(r) /\ r[i - 1] = q[i]
      BY <1>2, <3>1
    <3>3. 1 \in 1 .. Len(q)
      BY <1>2
    <3>4. \A i \in 1 .. Len(q) : q[i] = q[1] <=> i = 1
      BY <1>3, <3>3
    <3>5. \A i \in 1 .. Len(r) : r[i] \in S \ {q[1]}
      BY <1>1, <3>1, <3>4
    <3>6. \A x \in S \ {q[1]} : \E i \in 1 .. Len(r) : x = r[i]
      <4> SUFFICES ASSUME NEW x \in S \ {q[1]} PROVE \E i \in 1 .. Len(r) : x = r[i]
        OBVIOUS
      <4>1. PICK j \in 1 .. Len(q) : x = q[j]
        BY <1>1
      <4>2. j # 1
        BY <4>1
      <4>. QED  BY <3>2, <4>1, <4>2
    <3>. QED  BY <3>5, <3>6
  <2>9. HasExactly(e, Q, l, S \ {q[1]})
    <3>1. r \in Seq(Pids)
      BY <2>7 DEF ListIs
    <3>. QED  BY <2>7, <2>8, <3>1 DEF HasExactly
  <2>10. \A x \in Pids : e.next[x] # k.next[x] => x \in S
    BY <2>2, <2>4, <2>6
  <2>11. e.head[Q][l] # NULL
    <3>1. Len(q) \in 1 .. Len(q)
      BY <1>2
    <3>. QED  BY <1>2, <1>3, <2>2, <3>1
  <2>12. SUFFICES ASSUME NEW d, d = [pcb |-> q[1], s |-> e] PROVE Taken(k, Q, l, S, d)
    BY <2>1
  <2>13. d.pcb = q[1] /\ d.s = e
    BY <2>12
  <2>14. d.pcb \in S /\ HasExactly(d.s, Q, l, S \ {d.pcb})
    BY <1>4, <2>9, <2>13
  <2>15. d.s.head[Q][l] # NULL /\ d.s.hung = k.hung
    BY <2>2, <2>11, <2>13
  <2>16. /\ \A R \in Queues, m \in Levels : R # Q \/ m # l =>
              d.s.head[R][m] = k.head[R][m] /\ d.s.tail[R][m] = k.tail[R][m]
         /\ \A x \in Pids : d.s.next[x] # k.next[x] => x \in S
    BY <2>5, <2>10, <2>13
  <2>. QED  BY <2>14, <2>15, <2>16 DEF Taken
<1>7. Len(q) = 1 \/ Len(q) > 1
  <2>1. PICK n \in Nat : n = Len(q) /\ n # 0
    BY <1>2
  <2>2. n = 1 \/ n > 1
    BY <2>1
  <2>. QED  BY <2>1, <2>2
<1>. QED  BY <1>5, <1>6, <1>7
-----------------------------------------------------------------------------
(* All lists.                                                                  *)

\* From k to e nothing is written but list l of queue Q and the pointers of processes
\* of that list, and on2 differs from on in that list only.
Touched(k, e, on, on2, Q, l) ==
    /\ \A R \in Queues, m \in Levels : R # Q \/ m # l =>
          /\ e.head[R][m] = k.head[R][m] /\ e.tail[R][m] = k.tail[R][m]
          /\ At(on2[R], m) = At(on[R], m)
    /\ \A x \in Pids : e.next[x] # k.next[x] =>
          /\ BootPriority[x] = l
          /\ \A R \in Queues : x \in on[R] => R = Q
          /\ x \in I_PROCESSES => Q = "READY_queue"

\* The other lists stay as they are.
LEMMA OtherListsKept ==
    ASSUME NEW k, NEW e, NEW on, NEW on2, NEW Q \in Queues, NEW l \in Levels,
           Arranged(k, on), Touched(k, e, on, on2, Q, l)
    PROVE  \A R \in Queues, m \in Levels : R # Q \/ m # l => ListOK(e, on2, R, m)
<1> SUFFICES ASSUME NEW R \in Queues, NEW m \in Levels, R # Q \/ m # l
             PROVE  ListOK(e, on2, R, m)
  OBVIOUS
<1>1. ListOK(k, on, R, m) /\ on[R] \subseteq Pids
  BY DEF Arranged, Users
<1>2. /\ e.head[R][m] = k.head[R][m] /\ e.tail[R][m] = k.tail[R][m]
      /\ At(on2[R], m) = At(on[R], m)
  BY DEF Touched
<1>3. I_PROCESSES \subseteq Pids
  BY SchedulerAssumption DEF I_PROCESSES
<1>4. CASE R = "READY_queue" /\ m \in ILevels
  <2>1. \A i \in I_PROCESSES : BootPriority[i] = m => e.next[i] = k.next[i]
    BY <1>3, <1>4 DEF Touched
  <2>2. Knotted(k, m)
    BY <1>1, <1>4 DEF ListOK
  <2>3. Knotted(e, m)
    BY <1>2, <1>4, <2>1, <2>2 DEF Knotted
  <2>. QED  BY <1>1, <1>2, <1>4, <2>3 DEF ListOK
<1>5. CASE ~(R = "READY_queue" /\ m \in ILevels)
  <2>1. HasExactly(k, R, m, At(on[R], m))
    BY <1>1, <1>5 DEF ListOK
  <2>2. \A x \in At(on[R], m) : e.next[x] = k.next[x]
    BY <1>1 DEF At, Touched
  <2>3. HasExactly(e, R, m, At(on[R], m))
    BY <1>2, <2>1, <2>2, HasExactlyKept
  <2>. QED  BY <1>1, <1>2, <1>5, <2>3 DEF ListOK
<1>. QED  BY <1>4, <1>5

\* What linking p into list l of queue Q writes.
Writes(k, e, Q, l, p) ==
    /\ e.next = [k.next EXCEPT ![p] = k.head[Q][l]]
    /\ e.head[Q][l] = p
    /\ e.tail[Q][l] = IF isEmpty(k, Q, l) THEN p ELSE k.tail[Q][l]
    /\ \A R \in Queues, m \in Levels : R # Q \/ m # l =>
          e.head[R][m] = k.head[R][m] /\ e.tail[R][m] = k.tail[R][m]
    /\ e.hung = k.hung

\* Linking in writes no more than that.
LEMMA EnqueueWrites ==
    ASSUME NEW k \in KernelStates, NEW Q \in Queues, NEW p \in Pids
    PROVE  Writes(k, enqueue_PCB_by_priority(k, Q, p), Q, k.priority[p], p)
<1> DEFINE l == k.priority[p]
           t == IF isEmpty(k, Q, l) THEN p ELSE k.tail[Q][l]
           e == enqueue_PCB_by_priority(k, Q, p)
<1>1. /\ l \in Levels
      /\ k.head \in [Queues -> [Levels -> Pointers]]
      /\ k.tail \in [Queues -> [Levels -> Pointers]]
  BY DEF KernelStates
<1>2. /\ e.next = [k.next EXCEPT ![p] = k.head[Q][l]]
      /\ e.head = [k.head EXCEPT ![Q][l] = p]
      /\ e.tail = [k.tail EXCEPT ![Q][l] = t]
      /\ e.hung = k.hung
  BY DEF enqueue_PCB_by_priority, enqueue_PCB, KernelStates
<1> HIDE DEF e, l, t
<1>3. /\ e.head[Q][l] = p /\ e.tail[Q][l] = t
      /\ \A R \in Queues, m \in Levels : R # Q \/ m # l =>
            e.head[R][m] = k.head[R][m] /\ e.tail[R][m] = k.tail[R][m]
  BY <1>1, <1>2
<1>4. Writes(k, e, Q, l, p)
  BY <1>2, <1>3 DEF Writes, t
<1>. QED  BY <1>4 DEF e, l

\* An ordinary process that is on no queue is linked in.
LEMMA UserEnqueued ==
    ASSUME Apart, NEW k, NEW on, Arranged(k, on), NEW Q \in Queues,
           NEW p \in Users, \A R \in Queues : p \notin on[R]
    PROVE  Arranged(enqueue_PCB_by_priority(k, Q, p), [on EXCEPT ![Q] = @ \cup {p}])
<1> DEFINE e == enqueue_PCB_by_priority(k, Q, p)
           l == BootPriority[p]
           on2 == [on EXCEPT ![Q] = @ \cup {p}]
<1>1. /\ k \in KernelStates /\ Exact(k) /\ ~k.hung /\ k.priority = BootPriority
      /\ on \in [Queues -> SUBSET Users]
      /\ \A R, T \in Queues : R # T => on[R] \cap on[T] = {}
  BY DEF Arranged
<1>2. p \in Pids /\ l \in Levels /\ p \notin I_PROCESSES /\ k.priority[p] = l
  BY <1>1, SchedulerAssumption DEF Users
<1>3. QueuesOnly(k, e) /\ Exact(e)
  BY <1>1, <1>2, EnqueueTyped
<1>4. Writes(k, e, Q, l, p)
  <2>1. Writes(k, e, Q, k.priority[p], p)
    BY <1>1, <1>2, EnqueueWrites
  <2>. QED  BY <1>2, <2>1
<1> HIDE DEF e
<1>5. /\ on2 \in [Queues -> SUBSET Users]
      /\ \A R \in Queues : on2[R] = IF R = Q THEN on[Q] \cup {p} ELSE on[R]
  BY <1>1
<1> HIDE DEF on2
<1>6. \A R, T \in Queues : R # T => on2[R] \cap on2[T] = {}
  BY <1>1, <1>5
<1>7. k.next \in [Pids -> Pointers]
  BY <1>1 DEF KernelStates
<1>8. \A R \in Queues, m \in Levels : R # Q \/ m # l => At(on2[R], m) = At(on[R], m)
  BY <1>5 DEF At
<1>9. \A x \in Pids : e.next[x] # k.next[x] => x = p
  BY <1>4, <1>7 DEF Writes
<1>10. \A R \in Queues, m \in Levels : R # Q \/ m # l => ListOK(e, on2, R, m)
  <2>1. Touched(k, e, on, on2, Q, l)
    BY <1>2, <1>4, <1>8, <1>9 DEF Touched, Writes
  <2>. QED  BY <1>2, <2>1, OtherListsKept
<1>11. ListOK(e, on2, Q, l)
  <2>1. l \notin ILevels
    BY DEF ILevels, Apart
  <2>2. HasExactly(k, Q, l, At(on[Q], l))
    BY <1>2, <2>1 DEF Arranged, ListOK
  <2>3. p \notin At(on[Q], l) /\ At(on2[Q], l) = At(on[Q], l) \cup {p}
    BY <1>5 DEF At
  <2>4. HasExactly(e, Q, l, At(on[Q], l) \cup {p})
    BY <1>2, <1>4, <1>7, <2>2, <2>3, HasExactlyEnqueued DEF Writes
  <2>5. e.head[Q][l] # NULL
    BY <1>2, <1>4, PidsAssumption DEF Writes
  <2>. QED  BY <2>1, <2>3, <2>4, <2>5 DEF ListOK
<1>12. \A R \in Queues, m \in Levels : ListOK(e, on2, R, m)
  BY <1>10, <1>11
<1>13. Arranged(e, on2)
  BY <1>1, <1>3, <1>4, <1>5, <1>6, <1>12 DEF Arranged, QueuesOnly, Writes
<1>. QED  BY <1>13 DEF e, on2

\* An i-process is linked in, whether it is linked already or not.
LEMMA IProcessEnqueued ==
    ASSUME Apart, NEW k, NEW on, Arranged(k, on), NEW i \in I_PROCESSES
    PROVE  Arranged(enqueue_PCB_by_priority(k, "READY_queue", i), on)
<1> DEFINE Q == "READY_queue"
           e == enqueue_PCB_by_priority(k, Q, i)
           l == BootPriority[i]
<1>1. /\ k \in KernelStates /\ Exact(k) /\ ~k.hung /\ k.priority = BootPriority
      /\ on \in [Queues -> SUBSET Users] /\ Q \in Queues
  BY DEF Arranged, Queues
<1>2. i \in Pids /\ l \in Levels /\ k.priority[i] = l /\ l \in ILevels /\ i # NULL
  BY <1>1, SchedulerAssumption, PidsAssumption DEF I_PROCESSES, ILevels
<1>3. QueuesOnly(k, e) /\ Exact(e)
  BY <1>1, <1>2, EnqueueTyped
<1>4. Writes(k, e, Q, l, i)
  <2>1. Writes(k, e, Q, k.priority[i], i)
    BY <1>1, <1>2, EnqueueWrites
  <2>. QED  BY <1>2, <2>1
<1> HIDE DEF e
<1>5. k.next \in [Pids -> Pointers]
  BY <1>1 DEF KernelStates
<1>6. \A x \in Pids : e.next[x] # k.next[x] => x = i
  BY <1>4, <1>5 DEF Writes
<1>7. \A R \in Queues : i \notin on[R]
  BY <1>1 DEF Users
<1>8. \A R \in Queues, m \in Levels : R # Q \/ m # l => ListOK(e, on, R, m)
  <2>1. Touched(k, e, on, on, Q, l)
    BY <1>1, <1>2, <1>4, <1>6, <1>7 DEF Touched, Writes
  <2>. QED  BY <1>1, <1>2, <2>1, OtherListsKept
<1>9. Knotted(e, l)
  <2>1. Knotted(k, l)
    BY <1>1, <1>2 DEF Arranged, ListOK
  <2>2. e.next[i] = k.head[Q][l]
    BY <1>2, <1>4, <1>5 DEF Writes
  <2>3. CASE k.head[Q][l] = NULL
    BY <1>2, <1>4, <2>3 DEF Knotted, isEmpty, Writes
  <2>4. CASE k.head[Q][l] # NULL
    <3>1. /\ k.head[Q][l] \in I_PROCESSES /\ k.tail[Q][l] \in I_PROCESSES
          /\ BootPriority[k.tail[Q][l]] = l
      BY <2>1, <2>4 DEF Knotted
    <3>2. e.tail[Q][l] = k.tail[Q][l]
      BY <1>4, <2>4 DEF isEmpty, Writes
    <3>3. \/ i = k.tail[Q][l] \/ k.head[Q][l] = k.tail[Q][l] \/ k.head[Q][l] = i
      BY <3>1 DEF I_PROCESSES
    <3>. QED  BY <1>2, <1>4, <2>2, <3>1, <3>2, <3>3 DEF Knotted, Writes
  <2>. QED  BY <2>3, <2>4
<1>10. ListOK(e, on, Q, l)
  BY <1>2, <1>4, <1>9 DEF ListOK, Writes
<1>11. \A R \in Queues, m \in Levels : ListOK(e, on, R, m)
  BY <1>8, <1>10
<1>12. Arranged(e, on)
  BY <1>1, <1>3, <1>4, <1>11 DEF Arranged, QueuesOnly, Writes
<1>. QED  BY <1>12 DEF e
\* Assignments to other fields change no list.
SameQueues(k, e) ==
    /\ e \in KernelStates
    /\ e.next = k.next /\ e.head = k.head /\ e.tail = k.tail
    /\ e.highest_prio = k.highest_prio /\ e.priority = k.priority /\ e.hung = k.hung

LEMMA AssignedArranged ==
    ASSUME NEW k, NEW e, NEW on, Arranged(k, on), SameQueues(k, e)
    PROVE  Arranged(e, on)
<1>1. \A Q \in Queues : highest_prio_exact(e, Q)
  BY DEF Arranged, SameQueues, Exact, highest_prio_exact, isEmpty
<1>2. \A Q \in Queues, l \in Levels : ListOK(e, on, Q, l)
  <2> SUFFICES ASSUME NEW Q \in Queues, NEW l \in Levels PROVE ListOK(e, on, Q, l)
    OBVIOUS
  <2>1. ListOK(k, on, Q, l)
    BY DEF Arranged
  <2>2. Knotted(k, l) => Knotted(e, l)
    BY DEF Knotted, SameQueues
  <2>3. HasExactly(k, Q, l, At(on[Q], l)) => HasExactly(e, Q, l, At(on[Q], l))
    BY HasExactlyKept DEF SameQueues
  <2>. QED  BY <2>1, <2>2, <2>3 DEF ListOK, SameQueues
<1>. QED  BY <1>1, <1>2 DEF Arranged, SameQueues, Exact

\* The index of a queue is at most the priority of a process on it.
LEMMA MostUrgent ==
    ASSUME Apart, NEW k, NEW on, Arranged(k, on), NEW Q \in Queues, NEW p \in on[Q]
    PROVE  k.highest_prio[Q] \in Levels /\ k.highest_prio[Q] <= BootPriority[p]
<1> DEFINE l == BootPriority[p]
           h == k.highest_prio[Q]
<1>1. p \in Users /\ p \in Pids /\ l \in Levels /\ l \notin ILevels
  BY SchedulerAssumption DEF Arranged, Users, ILevels, Apart
<1>2. h \in 0 .. NUM_PRIO + 1 /\ \A m \in Levels : m < h => isEmpty(k, Q, m)
  BY DEF Arranged, Exact, highest_prio_exact
<1>3. HasExactly(k, Q, l, At(on[Q], l)) /\ p \in At(on[Q], l)
  BY <1>1 DEF Arranged, ListOK, At
<1>4. ~isEmpty(k, Q, l)
  BY <1>3, EmptyOrNot DEF isEmpty
<1>5. ~(l < h)
  BY <1>1, <1>2, <1>4
<1> HIDE DEF l, h
<1>6. h \in Levels /\ h <= l
  BY <1>1, <1>2, <1>5 DEF Levels, NUM_PRIO
<1>. QED  BY <1>6 DEF l, h

\* The oldest process of the most urgent list is taken off.
Dequeued(k, on, Q, d) ==
    /\ d.pcb \in on[Q] /\ BootPriority[d.pcb] = k.highest_prio[Q]
    /\ QueuesOnly(k, d.s)
    /\ Arranged(d.s, [on EXCEPT ![Q] = @ \ {d.pcb}])

LEMMA UserDequeued ==
    ASSUME NEW k, NEW on, Arranged(k, on), NEW Q \in Queues,
           k.highest_prio[Q] \in Levels,
           ~(Q = "READY_queue" /\ k.highest_prio[Q] \in ILevels)
    PROVE  Dequeued(k, on, Q, dequeue_PCB_FIFO_by_priority(k, Q))
<1> DEFINE h == k.highest_prio[Q]
           S == At(on[Q], h)
           c == dequeue_PCB_FIFO(k, Q, h)
           d == dequeue_PCB_FIFO_by_priority(k, Q)
           e == [c.s EXCEPT !.highest_prio[Q] = first_not_empty(c.s, Q, @)]
           on2 == [on EXCEPT ![Q] = @ \ {c.pcb}]
<1>1. /\ k \in KernelStates /\ Exact(k) /\ ~k.hung /\ k.priority = BootPriority
      /\ on \in [Queues -> SUBSET Users]
      /\ \A R, T \in Queues : R # T => on[R] \cap on[T] = {}
  BY DEF Arranged
<1>2. HasExactly(k, Q, h, S)
  BY DEF Arranged, ListOK
<1>3. S # {}
  <2>1. k.head[Q][h] # NULL
    BY <1>1 DEF Exact, highest_prio_exact, isEmpty
  <2>. QED  BY <1>2, <2>1, EmptyOrNot
<1>4. Taken(k, Q, h, S, c)
  BY <1>1, <1>2, <1>3, TakesOldest
<1>5. d = [pcb |-> c.pcb, s |-> e]
  BY DEF dequeue_PCB_FIFO_by_priority, Levels, NUM_PRIO
<1>6. c.s \in KernelStates /\ c.s.priority = k.priority
  BY <1>1, DequeueFromList DEF QueuesOnly
<1>7. QueuesOnly(k, d.s) /\ Exact(d.s)
  BY <1>1, DequeueTyped
<1> HIDE DEF c
<1>8. /\ e.next = c.s.next /\ e.head = c.s.head /\ e.tail = c.s.tail /\ e.hung = c.s.hung
  BY <1>6 DEF KernelStates
<1> HIDE DEF d, e
<1>9. d.pcb = c.pcb /\ d.s = e
  BY <1>5
<1>10. c.pcb \in on[Q] /\ BootPriority[c.pcb] = h
  BY <1>4 DEF Taken, At
<1>11. /\ on2 \in [Queues -> SUBSET Users]
       /\ \A R \in Queues : on2[R] = IF R = Q THEN on[Q] \ {c.pcb} ELSE on[R]
  BY <1>1
<1> HIDE DEF on2
<1>12. \A R, T \in Queues : R # T => on2[R] \cap on2[T] = {}
  BY <1>1, <1>11
<1>13. Touched(k, e, on, on2, Q, h)
  <2>1. \A R \in Queues, m \in Levels : R # Q \/ m # h => At(on2[R], m) = At(on[R], m)
    BY <1>10, <1>11 DEF At
  <2>2. \A x \in S : /\ BootPriority[x] = h /\ x \notin I_PROCESSES
                     /\ \A R \in Queues : x \in on[R] => R = Q
    BY <1>1 DEF At, Users
  <2>3. \A x \in Pids : e.next[x] # k.next[x] => x \in S
    BY <1>4, <1>8 DEF Taken
  <2>4. \A R \in Queues, m \in Levels : R # Q \/ m # h =>
           e.head[R][m] = k.head[R][m] /\ e.tail[R][m] = k.tail[R][m]
    BY <1>4, <1>8 DEF Taken
  <2> HIDE DEF S, h
  <2>. QED  BY <2>1, <2>2, <2>3, <2>4 DEF Touched
<1>14. \A R \in Queues, m \in Levels : R # Q \/ m # h => ListOK(e, on2, R, m)
  BY <1>13, OtherListsKept
<1>15. ListOK(e, on2, Q, h)
  <2>1. HasExactly(c.s, Q, h, S \ {c.pcb})
    BY <1>4 DEF Taken
  <2>2. At(on2[Q], h) = S \ {c.pcb}
    BY <1>11 DEF At
  <2>3. HasExactly(e, Q, h, S \ {c.pcb})
    BY <1>8, <2>1, HasExactlyKept
  <2>4. e.head[Q][h] = NULL => e.tail[Q][h] = NULL
    BY <1>4, <1>8 DEF Taken
  <2>. QED  BY <2>2, <2>3, <2>4 DEF ListOK
<1>16. \A R \in Queues, m \in Levels : ListOK(e, on2, R, m)
  BY <1>14, <1>15
<1>17. ~e.hung /\ e.priority = BootPriority /\ e \in KernelStates /\ Exact(e)
  BY <1>1, <1>4, <1>7, <1>8, <1>9 DEF Taken, QueuesOnly
<1>18. Arranged(e, on2)
  BY <1>11, <1>12, <1>16, <1>17 DEF Arranged
<1>19. Dequeued(k, on, Q, d)
  BY <1>7, <1>9, <1>10, <1>18 DEF Dequeued, on2
<1>. QED  BY <1>19 DEF d
-----------------------------------------------------------------------------
(* Dispatching.                                                                *)

\* p never waits and is more urgent than the i-processes.
Spins(p) ==
    /\ p \in Users
    /\ "receive_message" \notin Calls[p] /\ "request_memory_block" \notin Calls[p]
    /\ \A i \in I_PROCESSES : BootPriority[p] < BootPriority[i]

SpinnerReady(on) == \E p \in on["READY_queue"] : Spins(p)

\* As long as a process that spins is ready, no list of i-processes is the first.
LEMMA Dispatchable ==
    ASSUME Apart, NEW k, NEW on, Arranged(k, on), SpinnerReady(on)
    PROVE  Dequeued(k, on, "READY_queue", dequeue_PCB_FIFO_by_priority(k, "READY_queue"))
<1> DEFINE Q == "READY_queue"
           h == k.highest_prio[Q]
<1>1. PICK p \in on[Q] : Spins(p)
  BY DEF SpinnerReady
<1>2. Q \in Queues
  BY DEF Queues
<1>3. h \in Levels /\ h <= BootPriority[p]
  BY <1>2, MostUrgent
<1>4. BootPriority \in [Pids -> Levels] /\ I_PROCESSES \subseteq Pids /\ p \in Pids
  BY <1>1, SchedulerAssumption DEF I_PROCESSES, Spins, Users
<1> HIDE DEF h
<1>5. \A i \in I_PROCESSES : h # BootPriority[i]
  <2> SUFFICES ASSUME NEW i \in I_PROCESSES PROVE h # BootPriority[i]
    OBVIOUS
  <2>1. /\ BootPriority[p] < BootPriority[i]
        /\ BootPriority[p] \in Int /\ BootPriority[i] \in Int /\ h \in Int
    BY <1>1, <1>3, <1>4 DEF Spins, Levels
  <2>. QED  BY <1>3, <2>1
<1>6. h \notin ILevels
  BY <1>5 DEF ILevels
<1>. QED  BY <1>2, <1>3, <1>6, UserDequeued DEF h

\* The next process of the ready queue is dispatched.
Dispatched(k, on, e) ==
    \E p \in on["READY_queue"] :
        /\ Arranged(e, [on EXCEPT !["READY_queue"] = @ \ {p}])
        /\ e.current = p /\ e.in_i_process = k.in_i_process
        /\ e.state = [k.state EXCEPT ![p] = RUNNING]

LEMMA DispatchArranged ==
    ASSUME Apart, NEW k, NEW on, Arranged(k, on), SpinnerReady(on)
    PROVE  Dispatched(k, on, dispatch(k))
<1> DEFINE d == dequeue_PCB_FIFO_by_priority(k, "READY_queue")
           on2 == [on EXCEPT !["READY_queue"] = @ \ {d.pcb}]
<1>1. Dequeued(k, on, "READY_queue", d)
  BY Dispatchable
<1>2. d.pcb \in Pids /\ d.pcb # NULL
  BY <1>1, PidsAssumption DEF Dequeued, Arranged, Users, Queues
<1>3. dispatch(k) = context_switch([d.s EXCEPT !.state[d.pcb] = RUNNING], d.pcb)
  BY <1>2 DEF dispatch
<1>4. Arranged(d.s, on2) /\ d.pcb \in on["READY_queue"] /\ QueuesOnly(k, d.s)
  BY <1>1 DEF Dequeued
<1> SUFFICES ASSUME NEW e, e = [[d.s EXCEPT !.state[d.pcb] = RUNNING] EXCEPT !.current = d.pcb]
             PROVE  Dispatched(k, on, e)
  BY <1>3 DEF context_switch
<1> HIDE DEF d
<1>5. d.s \in KernelStates
  BY <1>4 DEF QueuesOnly
<1>6. /\ SameQueues(d.s, e) /\ e.current = d.pcb /\ e.in_i_process = d.s.in_i_process
      /\ e.state = [d.s.state EXCEPT ![d.pcb] = RUNNING]
  BY <1>2, <1>5 DEF SameQueues, KernelStates, States, RUNNING
<1>7. Arranged(e, on2)
  BY <1>4, <1>6, AssignedArranged
<1>. QED  BY <1>4, <1>6, <1>7 DEF Dispatched, QueuesOnly

\* The processor goes to the next ready process if that is at least as urgent, and
\* the current process back on the ready queue.
Switched(k, on, e) ==
    \/ e = k /\ k.current \notin I_PROCESSES
    \/ \E p \in on["READY_queue"] :
         /\ Arranged(e, [on EXCEPT !["READY_queue"] = (@ \ {p}) \cup ({k.current} \cap Users)])
         /\ e.current = p /\ e.in_i_process = FALSE
         /\ e.state = [k.state EXCEPT ![p] = RUNNING, ![k.current] = READY]

LEMMA SwitchArranged ==
    ASSUME Apart, NEW k, NEW on, Arranged(k, on), NEW c, c = k.current,
           SpinnerReady(on) \/ Spins(c), \A Q \in Queues : c \notin on[Q]
    PROVE  Switched(k, on, process_switch(k))
<1> DEFINE Q == "READY_queue"
           h == k.highest_prio[Q]
           d == dequeue_PCB_FIFO_by_priority(k, Q)
           run == [d.s EXCEPT !.state[d.pcb] = RUNNING, !.state[c] = READY,
                              !.in_i_process = FALSE]
           on2 == [on EXCEPT ![Q] = @ \ {d.pcb}]
           on3 == [on EXCEPT ![Q] = (@ \ {d.pcb}) \cup ({c} \cap Users)]
           e4 == enqueue_PCB_by_priority(run, Q, c)
<1>1. /\ k \in KernelStates /\ k.priority = BootPriority /\ Q \in Queues
      /\ on \in [Queues -> SUBSET Users] /\ c \in Pids
      /\ h \in 0 .. NUM_PRIO + 1
  <2>1. k \in KernelStates /\ Q \in Queues
    BY DEF Arranged, Queues
  <2>. QED  BY <2>1 DEF Arranged, KernelStates
<1>2. BootPriority \in [Pids -> Levels] /\ I_PROCESSES \subseteq Pids
  BY SchedulerAssumption DEF I_PROCESSES
<1>3. \A x \in Pids : BootPriority[x] \in 0 .. NUM_PRIO
  BY <1>2 DEF Levels
<1>4. ASSUME SpinnerReady(on), NEW i \in I_PROCESSES PROVE h < BootPriority[i]
  <2>1. PICK p \in on[Q] : Spins(p)
    BY <1>4 DEF SpinnerReady
  <2>2. h <= BootPriority[p] /\ BootPriority[p] < BootPriority[i] /\ p \in Pids
    BY <1>1, <1>4, <2>1, MostUrgent DEF Spins, Users
  <2>3. BootPriority[p] \in Int /\ BootPriority[i] \in Int /\ h \in Int
    BY <1>1, <1>2, <1>3, <2>2 DEF NUM_PRIO
  <2> HIDE DEF h
  <2>. QED  BY <2>2, <2>3
<1>5. CASE h > BootPriority[c]
  <2>1. process_switch(k) = k
    BY <1>1, <1>5 DEF process_switch
  <2>2. c \notin I_PROCESSES
    <3> SUFFICES ASSUME c \in I_PROCESSES PROVE FALSE
      OBVIOUS
    <3>1. SpinnerReady(on)
      BY DEF Spins, Users
    <3>2. h < BootPriority[c]
      BY <1>4, <3>1
    <3>3. h \in Int /\ BootPriority[c] \in Int
      BY <1>1, <1>3 DEF NUM_PRIO
    <3> HIDE DEF h
    <3>. QED  BY <1>5, <3>2, <3>3
  <2>. QED  BY <2>1, <2>2 DEF Switched
<1>6. CASE ~(h > BootPriority[c])
  <2>1. Dequeued(k, on, Q, d)
    <3>1. CASE SpinnerReady(on)
      BY <3>1, Dispatchable
    <3>2. CASE Spins(c)
      <4>1. h <= BootPriority[c] /\ h \in Int /\ BootPriority[c] \in 0 .. NUM_PRIO
        BY <1>1, <1>3, <1>6 DEF NUM_PRIO
      <4>2. h \in Levels
        BY <1>1, <4>1 DEF Levels, NUM_PRIO
      <4>3. \A i \in I_PROCESSES : BootPriority[c] < BootPriority[i]
                                   /\ BootPriority[i] \in 0 .. NUM_PRIO
        BY <1>2, <1>3, <3>2 DEF Spins
      <4> HIDE DEF h
      <4>4. \A i \in I_PROCESSES : h # BootPriority[i]
        BY <4>1, <4>3 DEF NUM_PRIO
      <4>5. h \notin ILevels
        BY <4>4 DEF ILevels
      <4>. QED  BY <1>1, <4>2, <4>5, UserDequeued DEF h
    <3>. QED  BY <3>1, <3>2
  <2>2. d.pcb \in on[Q] /\ QueuesOnly(k, d.s) /\ Arranged(d.s, on2)
    BY <2>1 DEF Dequeued
  <2>3. d.pcb \in Users /\ d.pcb \in Pids /\ d.pcb # NULL /\ d.pcb # c
    BY <1>1, <2>2, PidsAssumption DEF Users
  <2>4. process_switch(k) = context_switch(e4, d.pcb)
    BY <1>1, <1>6, <2>3 DEF process_switch
  <2> HIDE DEF d
  <2>5. /\ SameQueues(d.s, run) /\ run.current = k.current /\ run.in_i_process = FALSE
        /\ run.state = [k.state EXCEPT ![d.pcb] = RUNNING, ![c] = READY]
    <3>1. d.s \in KernelStates /\ d.s.state = k.state /\ d.s.current = k.current
      BY <2>2 DEF QueuesOnly
    <3>. QED  BY <1>1, <2>3, <3>1 DEF SameQueues, KernelStates, States, RUNNING, READY
  <2> HIDE DEF run
  <2>6. Arranged(run, on2)
    BY <2>2, <2>5, AssignedArranged
  <2>7. /\ on2 \in [Queues -> SUBSET Users] /\ on3 \in [Queues -> SUBSET Users]
        /\ \A R \in Queues : on2[R] = IF R = Q THEN on[Q] \ {d.pcb} ELSE on[R]
        /\ on3[Q] = (on2[Q]) \cup ({c} \cap Users)
        /\ \A R \in Queues : R # Q => on3[R] = on2[R]
    BY <1>1
  <2>8. \A R \in Queues : c \notin on2[R]
    BY <2>7
  <2> HIDE DEF on2, on3
  <2>9. Arranged(e4, on3)
    <3>1. CASE c \in Users
      <4>1. Arranged(e4, [on2 EXCEPT ![Q] = @ \cup {c}])
        BY <1>1, <2>6, <2>8, <3>1, UserEnqueued
      <4>2. on3 = [on2 EXCEPT ![Q] = @ \cup {c}]
        BY <2>7, <3>1
      <4>. QED  BY <4>1, <4>2
    <3>2. CASE c \notin Users
      <4>1. c \in I_PROCESSES
        BY <1>1, <3>2 DEF Users
      <4>2. on3 = on2
        BY <2>7, <3>2
      <4>. QED  BY <2>6, <4>1, <4>2, IProcessEnqueued
    <3>. QED  BY <3>1, <3>2
  <2>10. QueuesOnly(run, e4)
    BY <1>1, <2>5, EnqueueTyped DEF SameQueues
  <2> SUFFICES ASSUME NEW e, e = [e4 EXCEPT !.current = d.pcb]
               PROVE  Switched(k, on, e)
    BY <2>4 DEF context_switch
  <2> HIDE DEF e4
  <2>11. /\ SameQueues(e4, e) /\ e.current = d.pcb
         /\ e.in_i_process = e4.in_i_process /\ e.state = e4.state
    <3>1. e4 \in KernelStates
      BY <2>10 DEF QueuesOnly
    <3>. QED  BY <2>3, <3>1 DEF SameQueues, KernelStates
  <2>12. Arranged(e, on3)
    BY <2>9, <2>11, AssignedArranged
  <2>13. /\ e.in_i_process = FALSE
         /\ e.state = [k.state EXCEPT ![d.pcb] = RUNNING, ![k.current] = READY]
    BY <2>5, <2>10, <2>11 DEF QueuesOnly
  <2>. QED  BY <2>2, <2>11, <2>12, <2>13 DEF Switched, on3
<1>. QED  BY <1>5, <1>6

\* An ordinary process that is on no queue is made ready.
MadeReady(k, on, d, e) ==
    /\ Arranged(e, [on EXCEPT !["READY_queue"] = @ \cup {d}])
    /\ e.current = k.current /\ e.in_i_process = k.in_i_process
    /\ e.state = [k.state EXCEPT ![d] = READY]

LEMMA MakeReadyArranged ==
    ASSUME Apart, NEW k, NEW on, Arranged(k, on), NEW d \in Users,
           \A Q \in Queues : d \notin on[Q]
    PROVE  MadeReady(k, on, d, make_ready(k, d))
<1> DEFINE k1 == [k EXCEPT !.state[d] = READY]
           e == enqueue_PCB_by_priority(k1, "READY_queue", d)
<1>1. k \in KernelStates /\ d \in Pids /\ "READY_queue" \in Queues
  BY DEF Arranged, Users, Queues
<1>2. /\ SameQueues(k, k1) /\ k1.current = k.current /\ k1.in_i_process = k.in_i_process
      /\ k1.state = [k.state EXCEPT ![d] = READY]
  BY <1>1 DEF SameQueues, KernelStates, States, READY
<1> HIDE DEF k1
<1>3. Arranged(k1, on)
  BY <1>2, AssignedArranged
<1>4. QueuesOnly(k1, e)
  BY <1>1, <1>2, EnqueueTyped DEF SameQueues
<1>5. Arranged(e, [on EXCEPT !["READY_queue"] = @ \cup {d}])
  BY <1>1, <1>3, UserEnqueued
<1> HIDE DEF e
<1>6. MadeReady(k, on, d, e)
  BY <1>2, <1>4, <1>5 DEF MadeReady, QueuesOnly
<1>. QED  BY <1>6 DEF e, k1, make_ready
-----------------------------------------------------------------------------
(* Every process in its place.                                                 *)

Runnable == {READY, RUNNING}

\* The queues hold whom the states of the processes say.  Neither the i-processes
\* nor those that spin wait.
Fits(k, on) ==
    /\ \A p \in Users :
         /\ p \in on["READY_queue"] <=> k.state[p] \in Runnable /\ p # k.current
         /\ p \in on["MEMORY_WAIT_queue"] <=> k.state[p] = MEMORY_WAIT
    /\ k.state[k.current] \in Runnable
    /\ k.in_i_process <=> k.current \in I_PROCESSES
    /\ \A p \in Pids : p \in I_PROCESSES \/ Spins(p) => k.state[p] \in Runnable

Placed(k) == \E on : Arranged(k, on) /\ Fits(k, on)

\* What the programs and priorities of boot provide.
LEMMA BootFacts ==
    ASSUME AsBooted
    PROVE  Apart /\ \E p \in Pids : Spins(p)
  BY DEF AsBooted, Apart, Spins, Users

\* What every state provides.
LEMMA PlacedFacts ==
    ASSUME NEW k, NEW on, Arranged(k, on), Fits(k, on)
    PROVE  /\ k \in KernelStates /\ ~k.hung /\ k.priority = BootPriority /\ k.current \in Pids
           /\ k.current \notin I_PROCESSES => k.current \in Users
           /\ on \in [Queues -> SUBSET Users]
           /\ on["READY_queue"] \subseteq Users /\ on["MEMORY_WAIT_queue"] \subseteq Users
           /\ \A Q \in Queues : \A p \in on[Q] :
                 Q = "READY_queue" \/ k.state[p] = MEMORY_WAIT
           /\ \A Q \in Queues : k.current \notin on[Q]
           /\ I_PROCESSES \subseteq Pids /\ Users \subseteq Pids
           /\ "READY_queue" \in Queues /\ "MEMORY_WAIT_queue" \in Queues
<1>1. k \in KernelStates /\ ~k.hung /\ k.priority = BootPriority
      /\ on \in [Queues -> SUBSET Users]
  BY DEF Arranged
<1>2. k.current \in Pids
  BY <1>1 DEF KernelStates
<1>3. I_PROCESSES \subseteq Pids /\ Users \subseteq Pids
      /\ "READY_queue" \in Queues /\ "MEMORY_WAIT_queue" \in Queues
  BY SchedulerAssumption DEF I_PROCESSES, Users, Queues
<1>4. on["READY_queue"] \subseteq Users /\ on["MEMORY_WAIT_queue"] \subseteq Users
  BY <1>1, <1>3
<1>5. \A Q \in Queues : Q = "READY_queue" \/ Q = "MEMORY_WAIT_queue"
  BY DEF Queues
<1>6. \A Q \in Queues : \A p \in on[Q] : Q = "READY_queue" \/ k.state[p] = MEMORY_WAIT
  BY <1>4, <1>5 DEF Fits
<1>7. \A Q \in Queues : k.current \notin on[Q]
  BY <1>4, <1>5 DEF Fits, Runnable, READY, RUNNING, MEMORY_WAIT
<1>. QED  BY <1>1, <1>2, <1>3, <1>4, <1>6, <1>7 DEF Users

\* A process that spins is ready or runs.
LEMMA SomeoneSpins ==
    ASSUME AsBooted, NEW k, NEW on, Fits(k, on)
    PROVE  SpinnerReady(on) \/ Spins(k.current)
<1>1. PICK p \in Pids : Spins(p)
  BY BootFacts
<1>2. p \in Users /\ k.state[p] \in Runnable
  BY <1>1 DEF Spins, Fits
<1>. QED  BY <1>1, <1>2 DEF Fits, SpinnerReady

\* The current process has begun to wait, and the next one is dispatched.
LEMMA WaitPlaced ==
    ASSUME AsBooted, NEW k, NEW on, Arranged(k, on), ~k.in_i_process,
           k.current \notin I_PROCESSES, k.state[k.current] \notin Runnable,
           \A p \in Users : /\ p \in on["READY_queue"] <=> k.state[p] \in Runnable
                            /\ p \in on["MEMORY_WAIT_queue"] <=> k.state[p] = MEMORY_WAIT,
           \A p \in Pids : p \in I_PROCESSES \/ Spins(p) => k.state[p] \in Runnable
    PROVE  Placed(dispatch(k))
<1> DEFINE e == dispatch(k)
<1>1. PICK s \in Pids : Spins(s)
  BY BootFacts
<1>2. SpinnerReady(on)
  BY <1>1 DEF SpinnerReady, Spins
<1>3. Dispatched(k, on, e)
  BY <1>2, BootFacts, DispatchArranged
<1> HIDE DEF e
<1>4. PICK p \in on["READY_queue"] :
        /\ Arranged(e, [on EXCEPT !["READY_queue"] = @ \ {p}])
        /\ e.current = p /\ e.in_i_process = k.in_i_process
        /\ e.state = [k.state EXCEPT ![p] = RUNNING]
  BY <1>3 DEF Dispatched
<1> DEFINE on2 == [on EXCEPT !["READY_queue"] = @ \ {p}]
<1>5. /\ k.state \in [Pids -> States] /\ on \in [Queues -> SUBSET Users]
      /\ "READY_queue" \in Queues /\ "MEMORY_WAIT_queue" \in Queues
      /\ Users \subseteq Pids
  BY DEF Arranged, KernelStates, Queues, Users
<1>6. p \in Users /\ p \notin I_PROCESSES
  BY <1>5 DEF Users
<1>7. \A x \in Pids : e.state[x] = IF x = p THEN RUNNING ELSE k.state[x]
  BY <1>4, <1>5, <1>6
<1>8. /\ on2["READY_queue"] = on["READY_queue"] \ {p}
      /\ on2["MEMORY_WAIT_queue"] = on["MEMORY_WAIT_queue"]
  BY <1>5
<1>9. Arranged(e, on2)
  BY <1>4
<1> HIDE DEF on2
<1>10. Fits(e, on2)
  <2>1. \A x \in Users : x \in on2["READY_queue"] <=> e.state[x] \in Runnable /\ x # p
    BY <1>5, <1>7, <1>8
  <2>2. \A x \in Users : x \in on2["MEMORY_WAIT_queue"] <=> e.state[x] = MEMORY_WAIT
    BY <1>5, <1>6, <1>7, <1>8 DEF Runnable, READY, RUNNING, MEMORY_WAIT
  <2>3. \A x \in Pids : x \in I_PROCESSES \/ Spins(x) => e.state[x] \in Runnable
    BY <1>7 DEF Runnable
  <2>4. e.state[e.current] \in Runnable
    BY <1>4, <1>5, <1>6, <1>7 DEF Runnable
  <2>. QED  BY <1>4, <1>6, <2>1, <2>2, <2>3, <2>4 DEF Fits
<1>. QED  BY <1>9, <1>10 DEF Placed, e

\* receive_message of a process that finds no message.
LEMMA WaitForMessagePlaced ==
    ASSUME AsBooted, NEW k, Placed(k), ~k.in_i_process, ~Spins(k.current)
    PROVE  Placed(wait_for_message(k))
<1> DEFINE c == k.current
           k1 == [k EXCEPT !.state[c] = MESSAGE_WAIT]
<1>1. PICK on : Arranged(k, on) /\ Fits(k, on)
  BY DEF Placed
<1>2. /\ k \in KernelStates /\ c \in Pids /\ c \in Users
      /\ Users \subseteq Pids /\ c \notin I_PROCESSES
  BY <1>1, PlacedFacts DEF Fits, Users
<1>3. /\ SameQueues(k, k1) /\ k1.current = c /\ k1.in_i_process = k.in_i_process
      /\ k1.state = [k.state EXCEPT ![c] = MESSAGE_WAIT]
  BY <1>2 DEF SameQueues, KernelStates, States, MESSAGE_WAIT
<1> HIDE DEF k1
<1>4. Arranged(k1, on)
  BY <1>1, <1>3, AssignedArranged
<1>5. \A x \in Pids : k1.state[x] = IF x = c THEN MESSAGE_WAIT ELSE k.state[x]
  BY <1>2, <1>3 DEF KernelStates
<1>6. k.state[c] \in Runnable
  BY <1>1 DEF Fits
<1> HIDE DEF c
<1>7. \A p \in Users : /\ p \in on["READY_queue"] <=> k1.state[p] \in Runnable
                       /\ p \in on["MEMORY_WAIT_queue"] <=> k1.state[p] = MEMORY_WAIT
  BY <1>1, <1>2, <1>5, <1>6
     DEF Fits, c, Runnable, READY, RUNNING, MEMORY_WAIT, MESSAGE_WAIT
<1>8. \A p \in Pids : p \in I_PROCESSES \/ Spins(p) => k1.state[p] \in Runnable
  BY <1>1, <1>2, <1>5 DEF Fits, c
<1>9. Placed(dispatch(k1))
  BY <1>2, <1>3, <1>4, <1>5, <1>7, <1>8, WaitPlaced
     DEF Runnable, READY, RUNNING, MESSAGE_WAIT
<1>. QED  BY <1>9 DEF wait_for_message, k1, c

\* request_memory_block of a process that finds no block.
LEMMA WaitForMemoryPlaced ==
    ASSUME AsBooted, NEW k, Placed(k), ~k.in_i_process, ~Spins(k.current)
    PROVE  Placed(wait_for_memory(k))
<1> DEFINE c == k.current
           M == "MEMORY_WAIT_queue"
           k1 == [k EXCEPT !.state[c] = MEMORY_WAIT]
           k2 == enqueue_PCB_by_priority(k1, M, c)
<1>1. PICK on : Arranged(k, on) /\ Fits(k, on)
  BY DEF Placed
<1> DEFINE on2 == [on EXCEPT ![M] = @ \cup {c}]
<1>2. /\ k \in KernelStates /\ c \in Pids /\ c \in Users /\ M \in Queues
      /\ Users \subseteq Pids /\ c \notin I_PROCESSES
      /\ on \in [Queues -> SUBSET Users] /\ "READY_queue" \in Queues
      /\ \A Q \in Queues : c \notin on[Q]
  BY <1>1, PlacedFacts DEF Fits, Users
<1>3. /\ SameQueues(k, k1) /\ k1.current = c /\ k1.in_i_process = k.in_i_process
      /\ k1.state = [k.state EXCEPT ![c] = MEMORY_WAIT]
  BY <1>2 DEF SameQueues, KernelStates, States, MEMORY_WAIT
<1> HIDE DEF k1
<1>4. Arranged(k1, on)
  BY <1>1, <1>3, AssignedArranged
<1>5. \A x \in Pids : k1.state[x] = IF x = c THEN MEMORY_WAIT ELSE k.state[x]
  BY <1>2, <1>3 DEF KernelStates
<1>6. k.state[c] \in Runnable
  BY <1>1 DEF Fits
<1> HIDE DEF c
<1>7. Arranged(k2, on2)
  BY <1>2, <1>4, BootFacts, UserEnqueued
<1>8. QueuesOnly(k1, k2)
  BY <1>2, <1>3, EnqueueTyped DEF SameQueues
<1>9. k2.state = k1.state /\ k2.current = c /\ k2.in_i_process = k.in_i_process
  BY <1>3, <1>8 DEF QueuesOnly
<1>10. on2["READY_queue"] = on["READY_queue"] /\ on2[M] = on[M] \cup {c}
  BY <1>2
<1> HIDE DEF k2, on2
<1>11. \A p \in Users : /\ p \in on2["READY_queue"] <=> k2.state[p] \in Runnable
                        /\ p \in on2[M] <=> k2.state[p] = MEMORY_WAIT
  BY <1>1, <1>2, <1>5, <1>6, <1>9, <1>10
     DEF Fits, c, Runnable, READY, RUNNING, MEMORY_WAIT
<1>12. \A p \in Pids : p \in I_PROCESSES \/ Spins(p) => k2.state[p] \in Runnable
  BY <1>1, <1>2, <1>5, <1>9 DEF Fits, c
<1>13. Placed(dispatch(k2))
  BY <1>2, <1>5, <1>7, <1>9, <1>11, <1>12, WaitPlaced
     DEF Runnable, READY, RUNNING, MEMORY_WAIT
<1>. QED  BY <1>13 DEF wait_for_memory, k1, k2, c

\* release_processor.
LEMMA SwitchPlaced ==
    ASSUME AsBooted, NEW k, Placed(k)
    PROVE  /\ Placed(process_switch(k))
           /\ \A x \in Pids : k.state[x] \in Runnable => process_switch(k).state[x] \in Runnable
<1> DEFINE e == process_switch(k)
           c == k.current
           Q == "READY_queue"
<1>1. PICK on : Arranged(k, on) /\ Fits(k, on)
  BY DEF Placed
<1>2. /\ k \in KernelStates /\ c \in Pids /\ Q \in Queues
      /\ Users \subseteq Pids /\ (c \notin I_PROCESSES => c \in Users)
      /\ on \in [Queues -> SUBSET Users] /\ "MEMORY_WAIT_queue" \in Queues
      /\ \A R \in Queues : c \notin on[R]
  BY <1>1, PlacedFacts
<1>3. Switched(k, on, e)
  BY <1>1, <1>2, BootFacts, SomeoneSpins, SwitchArranged
<1> HIDE DEF e
<1>4. CASE e = k
  BY <1>1, <1>4 DEF Placed, e
<1>5. CASE e # k
  <2>1. PICK p \in on[Q] :
         /\ Arranged(e, [on EXCEPT ![Q] = (@ \ {p}) \cup ({c} \cap Users)])
         /\ e.current = p /\ e.in_i_process = FALSE
         /\ e.state = [k.state EXCEPT ![p] = RUNNING, ![c] = READY]
    BY <1>3, <1>5 DEF Switched
  <2> DEFINE on2 == [on EXCEPT ![Q] = (@ \ {p}) \cup ({c} \cap Users)]
  <2>2. p \in Users /\ p \in Pids /\ p # c /\ p \notin I_PROCESSES
    BY <1>2 DEF Users
  <2>3. \A x \in Pids : e.state[x] = IF x = c THEN READY
                                     ELSE IF x = p THEN RUNNING ELSE k.state[x]
    BY <1>2, <2>1, <2>2 DEF KernelStates
  <2>4. /\ on2[Q] = (on[Q] \ {p}) \cup ({c} \cap Users)
        /\ on2["MEMORY_WAIT_queue"] = on["MEMORY_WAIT_queue"]
    BY <1>2
  <2>5. Arranged(e, on2)
    BY <2>1
  <2> HIDE DEF on2, c
  <2>6. k.state[c] \in Runnable /\ k.state[p] \in Runnable
    BY <1>1, <2>2 DEF Fits, c
  <2>7. Fits(e, on2)
    <3>1. \A x \in Users : x \in on2[Q] <=> e.state[x] \in Runnable /\ x # p
      BY <1>1, <1>2, <2>2, <2>3, <2>4 DEF Fits, c, Runnable
    <3>2. \A x \in Users : x \in on2["MEMORY_WAIT_queue"] <=> e.state[x] = MEMORY_WAIT
      BY <1>1, <1>2, <2>3, <2>4, <2>6 DEF Fits, Runnable, READY, RUNNING, MEMORY_WAIT
    <3>3. \A x \in Pids : x \in I_PROCESSES \/ Spins(x) => e.state[x] \in Runnable
      BY <1>1, <2>3 DEF Fits, Runnable
    <3>4. e.state[e.current] \in Runnable
      BY <2>1, <2>2, <2>3 DEF Runnable
    <3>. QED  BY <2>1, <2>2, <3>1, <3>2, <3>3, <3>4 DEF Fits
  <2>8. Placed(e)
    BY <2>5, <2>7 DEF Placed
  <2>9. \A x \in Pids : k.state[x] \in Runnable => e.state[x] \in Runnable
    BY <2>3 DEF Runnable
  <2>. QED  BY <2>8, <2>9 DEF e
<1>. QED  BY <1>4, <1>5
-----------------------------------------------------------------------------
(* Waking, and interrupts.                                                     *)

\* A process that waits for a message is an ordinary one, on no queue.
LEMMA WaiterFacts ==
    ASSUME NEW k, NEW on, Arranged(k, on), Fits(k, on), NEW d \in Pids,
           k.state[d] = MESSAGE_WAIT
    PROVE  d \in Users /\ d # k.current /\ \A Q \in Queues : d \notin on[Q]
<1>1. d \in Users
  BY DEF Users, Fits, Runnable, READY, RUNNING, MESSAGE_WAIT
<1>2. d # k.current
  BY DEF Fits, Runnable, READY, RUNNING, MESSAGE_WAIT
<1>3. \A Q \in Queues : Q = "READY_queue" \/ Q = "MEMORY_WAIT_queue"
  BY DEF Queues
<1>. QED  BY <1>1, <1>2, <1>3 DEF Fits, Runnable, READY, RUNNING, MESSAGE_WAIT, MEMORY_WAIT

\* A process that is made ready is on the ready queue.
LEMMA MadeReadyFits ==
    ASSUME NEW k, NEW on, NEW e, Arranged(k, on), NEW d \in Users, d # k.current,
           MadeReady(k, on, d, e),
           \A Q \in Queues : d \notin on[Q],
           \A p \in Users : p # d =>
             /\ p \in on["READY_queue"] <=> k.state[p] \in Runnable /\ p # k.current
             /\ p \in on["MEMORY_WAIT_queue"] <=> k.state[p] = MEMORY_WAIT,
           k.state[k.current] \in Runnable,
           k.in_i_process <=> k.current \in I_PROCESSES,
           \A p \in Pids : p \in I_PROCESSES \/ Spins(p) => k.state[p] \in Runnable
    PROVE  Placed(e)
<1> DEFINE on2 == [on EXCEPT !["READY_queue"] = @ \cup {d}]
<1>1. /\ k.state \in [Pids -> States] /\ on \in [Queues -> SUBSET Users]
      /\ "READY_queue" \in Queues /\ "MEMORY_WAIT_queue" \in Queues
      /\ Users \subseteq Pids /\ k.current \in Pids
  BY DEF Arranged, KernelStates, Queues, Users
<1>2. /\ Arranged(e, on2)
      /\ e.current = k.current /\ e.in_i_process = k.in_i_process
  BY DEF MadeReady
<1>3. \A x \in Pids : e.state[x] = IF x = d THEN READY ELSE k.state[x]
  BY <1>1 DEF MadeReady
<1>4. /\ on2["READY_queue"] = on["READY_queue"] \cup {d}
      /\ on2["MEMORY_WAIT_queue"] = on["MEMORY_WAIT_queue"]
  BY <1>1
<1> HIDE DEF on2
<1>5. \A x \in Users : x \in on2["READY_queue"] <=> e.state[x] \in Runnable /\ x # e.current
  BY <1>1, <1>2, <1>3, <1>4 DEF Runnable
<1>6. \A x \in Users : x \in on2["MEMORY_WAIT_queue"] <=> e.state[x] = MEMORY_WAIT
  BY <1>1, <1>3, <1>4 DEF READY, MEMORY_WAIT
<1>7. \A x \in Pids : x \in I_PROCESSES \/ Spins(x) => e.state[x] \in Runnable
  BY <1>3 DEF Runnable
<1>8. e.state[e.current] \in Runnable
  BY <1>1, <1>2, <1>3
<1>9. Fits(e, on2)
  BY <1>2, <1>5, <1>6, <1>7, <1>8 DEF Fits
<1>. QED  BY <1>2, <1>9 DEF Placed

\* send_message: the receiver is woken if it waits, and the sender goes on.
LEMMA WakeReceiverPlaced ==
    ASSUME AsBooted, NEW k, Placed(k), NEW d \in Pids,
           k.current \in I_PROCESSES \/ <<k.current, d>> \in Sends
    PROVE  Placed(wake_receiver(k, d)) /\ wake_receiver(k, d).current = k.current
<1>1. PICK on : Arranged(k, on) /\ Fits(k, on)
  BY DEF Placed
<1>2. CASE k.state[d] # MESSAGE_WAIT
  BY <1>2 DEF wake_receiver
<1>3. CASE k.state[d] = MESSAGE_WAIT
  <2>1. d \in Users /\ d # k.current /\ \A Q \in Queues : d \notin on[Q]
    BY <1>1, <1>3, WaiterFacts
  <2>2. MadeReady(k, on, d, make_ready(k, d))
    BY <1>1, <2>1, BootFacts, MakeReadyArranged
  <2>3. Placed(make_ready(k, d))
    BY <1>1, <2>1, <2>2, MadeReadyFits DEF Fits
  <2>4. ~(k.priority[d] > k.priority[k.current] /\ ~k.in_i_process)
    <3>1. CASE k.current \in I_PROCESSES
      BY <1>1, <3>1 DEF Fits
    <3>2. CASE k.current \notin I_PROCESSES
      <4>1. k.current \in Users /\ k.priority = BootPriority /\ <<k.current, d>> \in Sends
        BY <1>1, <3>2, PlacedFacts
      <4>2. BootPriority[d] <= BootPriority[k.current]
        BY <2>1, <4>1 DEF AsBooted
      <4>3. BootPriority[d] \in Int /\ BootPriority[k.current] \in Int
        BY <2>1, <4>1, SchedulerAssumption DEF Users, Levels
      <4>. QED  BY <4>1, <4>2, <4>3
    <3>. QED  BY <3>1, <3>2
  <2>5. wake_receiver(k, d) = make_ready(k, d)
    BY <1>3, <2>4 DEF wake_receiver
  <2>. QED  BY <2>2, <2>3, <2>5 DEF MadeReady
<1>. QED  BY <1>2, <1>3

\* The oldest of the most urgent processes that wait for memory is made ready.
MemoryWoken(k, d, e) ==
    /\ d \in Users /\ k.state[d] = MEMORY_WAIT /\ d # k.current
    /\ Placed(e) /\ e.current = k.current /\ e.state[d] = READY

LEMMA MemoryWaiterWoken ==
    ASSUME AsBooted, NEW k, Placed(k), ~is_METAPCB_queue_empty(k, "MEMORY_WAIT_queue"),
           NEW d, d = dequeue_PCB_FIFO_by_priority(k, "MEMORY_WAIT_queue")
    PROVE  MemoryWoken(k, d.pcb, make_ready(d.s, d.pcb))
<1> DEFINE M == "MEMORY_WAIT_queue"
           e == make_ready(d.s, d.pcb)
<1>1. PICK on : Arranged(k, on) /\ Fits(k, on)
  BY DEF Placed
<1>2. /\ k \in KernelStates /\ M \in Queues /\ "READY_queue" \in Queues
      /\ on \in [Queues -> SUBSET Users] /\ Users \subseteq Pids
      /\ \A Q, R \in Queues : Q # R => on[Q] \cap on[R] = {}
  BY <1>1, PlacedFacts DEF Arranged
<1>3. k.highest_prio[M] \in Levels
  <2>1. k.highest_prio[M] \in 0 .. NUM_PRIO + 1
    BY <1>2 DEF KernelStates
  <2>. QED  BY <2>1 DEF is_METAPCB_queue_empty, Levels, NUM_PRIO
<1>4. Dequeued(k, on, M, d)
  <2>1. M # "READY_queue"
    OBVIOUS
  <2>. QED  BY <1>1, <1>2, <1>3, <2>1, UserDequeued
<1> DEFINE on2 == [on EXCEPT ![M] = @ \ {d.pcb}]
<1>5. /\ d.pcb \in on[M] /\ QueuesOnly(k, d.s) /\ Arranged(d.s, on2)
  BY <1>4 DEF Dequeued
<1>6. d.pcb \in Users /\ k.state[d.pcb] = MEMORY_WAIT
  BY <1>1, <1>2, <1>5 DEF Fits
<1>7. d.pcb # k.current
  BY <1>1, <1>6 DEF Fits, Runnable, READY, RUNNING, MEMORY_WAIT
<1>8. \A Q \in Queues : d.pcb \notin on2[Q]
  BY <1>2, <1>5
<1>9. on2["READY_queue"] = on["READY_queue"] /\ on2[M] = on[M] \ {d.pcb}
  BY <1>2
<1> HIDE DEF on2
<1>10. /\ d.s.state = k.state /\ d.s.current = k.current /\ d.s.in_i_process = k.in_i_process
  BY <1>5 DEF QueuesOnly
<1>11. MadeReady(d.s, on2, d.pcb, e)
  BY <1>5, <1>6, <1>8, BootFacts, MakeReadyArranged
<1> HIDE DEF e
<1>12. \A p \in Users : p # d.pcb =>
         /\ p \in on2["READY_queue"] <=> d.s.state[p] \in Runnable /\ p # d.s.current
         /\ p \in on2[M] <=> d.s.state[p] = MEMORY_WAIT
  BY <1>1, <1>9, <1>10 DEF Fits
<1>13. /\ d.s.state[d.s.current] \in Runnable
       /\ d.s.in_i_process <=> d.s.current \in I_PROCESSES
       /\ \A p \in Pids : p \in I_PROCESSES \/ Spins(p) => d.s.state[p] \in Runnable
  BY <1>1, <1>10 DEF Fits
<1>14. Placed(e)
  BY <1>5, <1>6, <1>7, <1>8, <1>10, <1>11, <1>12, <1>13, MadeReadyFits
<1>15. e.current = k.current /\ e.state[d.pcb] = READY
  BY <1>2, <1>6, <1>10, <1>11 DEF MadeReady, KernelStates
<1>. QED  BY <1>6, <1>7, <1>14, <1>15 DEF MemoryWoken, e

\* A process more urgent than the caller stops to wait for memory.
GivesWay(k, e) ==
    \E p \in Users : /\ k.state[p] = MEMORY_WAIT /\ e.state[p] # MEMORY_WAIT
                     /\ k.priority[p] < k.priority[k.current]

\* release_memory_block.
LEMMA WakeMemoryWaiterPlaced ==
    ASSUME AsBooted, NEW k, Placed(k)
    PROVE  /\ Placed(wake_memory_waiter(k))
           /\ wake_memory_waiter(k).current # k.current => GivesWay(k, wake_memory_waiter(k))
<1> DEFINE d == dequeue_PCB_FIFO_by_priority(k, "MEMORY_WAIT_queue")
           e == make_ready(d.s, d.pcb)
<1>1. CASE is_METAPCB_queue_empty(k, "MEMORY_WAIT_queue")
  BY <1>1 DEF wake_memory_waiter
<1>2. CASE ~is_METAPCB_queue_empty(k, "MEMORY_WAIT_queue")
  <2>1. MemoryWoken(k, d.pcb, e)
    BY <1>2, MemoryWaiterWoken
  <2>2. d.pcb \in Pids /\ d.pcb # NULL
    BY <2>1, PidsAssumption DEF MemoryWoken, Users
  <2>3. wake_memory_waiter(k) = IF k.priority[d.pcb] < k.priority[k.current]
                                THEN process_switch(e) ELSE e
    BY <1>2, <2>2 DEF wake_memory_waiter
  <2> HIDE DEF d, e
  <2>4. CASE ~(k.priority[d.pcb] < k.priority[k.current])
    BY <2>1, <2>3, <2>4 DEF MemoryWoken
  <2>5. CASE k.priority[d.pcb] < k.priority[k.current]
    <3>1. Placed(e) /\ e.state[d.pcb] \in Runnable
      BY <2>1 DEF MemoryWoken, Runnable
    <3>2. Placed(process_switch(e)) /\ process_switch(e).state[d.pcb] \in Runnable
      BY <2>2, <3>1, SwitchPlaced
    <3>3. process_switch(e).state[d.pcb] # MEMORY_WAIT
      BY <3>2 DEF Runnable, READY, RUNNING, MEMORY_WAIT
    <3>. QED  BY <2>1, <2>3, <2>5, <3>2, <3>3 DEF MemoryWoken, GivesWay
  <2>. QED  BY <2>4, <2>5
<1>. QED  BY <1>1, <1>2

\* The interrupt handlers.
LEMMA EnterIProcessPlaced ==
    ASSUME AsBooted, NEW k, Placed(k), k.current \notin I_PROCESSES, NEW i \in I_PROCESSES
    PROVE  /\ Placed(enter_i_process(k, i))
           /\ enter_i_process(k, i).current = i
<1> DEFINE c == k.current
           Q == "READY_queue"
           k1 == [k EXCEPT !.in_i_process = TRUE]
           k2 == enqueue_PCB_by_priority(k1, Q, c)
<1>1. PICK on : Arranged(k, on) /\ Fits(k, on)
  BY DEF Placed
<1> DEFINE on2 == [on EXCEPT ![Q] = @ \cup {c}]
<1>2. /\ k \in KernelStates /\ c \in Pids /\ c \in Users /\ Q \in Queues
      /\ Users \subseteq Pids /\ on \in [Queues -> SUBSET Users]
      /\ "MEMORY_WAIT_queue" \in Queues /\ I_PROCESSES \subseteq Pids
      /\ \A R \in Queues : c \notin on[R]
  BY <1>1, PlacedFacts
<1>3. /\ SameQueues(k, k1) /\ k1.current = c /\ k1.in_i_process = TRUE /\ k1.state = k.state
  BY <1>2 DEF SameQueues, KernelStates
<1> HIDE DEF k1
<1>4. Arranged(k1, on)
  BY <1>1, <1>3, AssignedArranged
<1>5. k.state[c] \in Runnable
  BY <1>1 DEF Fits
<1>6. Arranged(k2, on2)
  BY <1>2, <1>4, BootFacts, UserEnqueued
<1>7. QueuesOnly(k1, k2)
  BY <1>2, <1>3, EnqueueTyped DEF SameQueues
<1>8. k2.state = k.state /\ k2.in_i_process = TRUE /\ k2 \in KernelStates
  BY <1>3, <1>7 DEF QueuesOnly
<1>9. on2["READY_queue"] = on["READY_queue"] \cup {c}
      /\ on2["MEMORY_WAIT_queue"] = on["MEMORY_WAIT_queue"]
  BY <1>2
<1> HIDE DEF on2
<1>10. enter_i_process(k, i) = context_switch(k2, i)
  BY DEF enter_i_process, k1
<1> HIDE DEF k2
<1> SUFFICES ASSUME NEW e, e = [k2 EXCEPT !.current = i]
             PROVE  Placed(e) /\ e.current = i
  BY <1>10 DEF context_switch
<1>11. /\ SameQueues(k2, e) /\ e.current = i /\ e.in_i_process = TRUE /\ e.state = k.state
  BY <1>2, <1>8 DEF SameQueues, KernelStates
<1>12. Arranged(e, on2)
  BY <1>6, <1>11, AssignedArranged
<1>13. Fits(e, on2)
  <2>1. \A x \in Users : x \in on2["READY_queue"] <=> e.state[x] \in Runnable /\ x # e.current
    BY <1>1, <1>5, <1>9, <1>11 DEF Fits, Users
  <2>2. \A x \in Users : x \in on2["MEMORY_WAIT_queue"] <=> e.state[x] = MEMORY_WAIT
    BY <1>1, <1>9, <1>11 DEF Fits
  <2>3. \A x \in Pids : x \in I_PROCESSES \/ Spins(x) => e.state[x] \in Runnable
    BY <1>1, <1>11 DEF Fits
  <2>4. e.state[e.current] \in Runnable
    BY <1>2, <1>11, <2>3
  <2>. QED  BY <1>11, <2>1, <2>2, <2>3, <2>4 DEF Fits
<1>. QED  BY <1>11, <1>12, <1>13 DEF Placed
-----------------------------------------------------------------------------
(* Booting.                                                                    *)

\* r lists the numbers of T in increasing order.
Enumerates(r, T) ==
    /\ r \in Seq(Nat)
    /\ \A i, j \in 1 .. Len(r) : i < j => r[i] < r[j]
    /\ T = {r[i] : i \in 1 .. Len(r)}

\* There is such a list.
LEMMA Enumeration ==
    ASSUME NEW T \in SUBSET (Nat \ {0}), NEW n \in Nat
    PROVE  \E r : Enumerates(r, {i \in T : i <= n})
<1> DEFINE Upto(m) == {i \in T : i <= m}
           Bad == {m \in Nat : ~\E r : Enumerates(r, Upto(m))}
<1>1. SUFFICES Bad = {}
  BY <1>1
<1>2. SUFFICES ASSUME Bad # {} PROVE FALSE
  OBVIOUS
<1>3. PICK m \in Bad : \A j \in Bad : m <= j
  <2>1. Bad \in SUBSET Nat
    OBVIOUS
  <2> HIDE DEF Bad
  <2>. QED  BY <1>2, <2>1, Least
<1>9. m \in Nat /\ \A i \in T : i \in Nat /\ i # 0
  OBVIOUS
<1>4. m # 0
  <2>1. \A i \in T : ~(i <= 0)
    BY <1>9
  <2>2. Upto(0) = {}
    BY <2>1
  <2>3. Enumerates(<< >>, {})
    BY DEF Enumerates
  <2>. QED  BY <2>2, <2>3
<1>5. m - 1 \in Nat /\ ~(m <= m - 1)
  BY <1>4, <1>9
<1>6. PICK r : Enumerates(r, Upto(m - 1))
  BY <1>3, <1>5
<1> HIDE DEF Bad
<1>10. \A i \in T : i <= m <=> i <= m - 1 \/ i = m
  BY <1>9
<1>7. CASE m \notin T
  <2>1. Upto(m) = Upto(m - 1)
    BY <1>7, <1>10
  <2>. QED  BY <1>6, <2>1 DEF Bad
<1>8. CASE m \in T
  <2> DEFINE s == Append(r, m)
  <2>1. Upto(m) = Upto(m - 1) \cup {m}
    BY <1>8, <1>10
  <2>2. /\ r \in Seq(Nat) /\ Len(r) \in Nat
        /\ \A i, j \in 1 .. Len(r) : i < j => r[i] < r[j]
        /\ Upto(m - 1) = {r[i] : i \in 1 .. Len(r)}
    BY <1>6 DEF Enumerates
  <2>3. /\ s \in Seq(Nat) /\ Len(s) = Len(r) + 1
        /\ \A i \in 1 .. Len(r) : s[i] = r[i]
        /\ s[Len(r) + 1] = m
    BY <1>9, <2>2
  <2>4. \A i \in 1 .. Len(r) : r[i] \in Nat /\ r[i] < m
    <3>1. \A i \in 1 .. Len(r) : r[i] \in Upto(m - 1)
      BY <2>2
    <3>2. \A x \in Upto(m - 1) : x \in Nat /\ x < m
      BY <1>9
    <3>. QED  BY <3>1, <3>2
  <2> HIDE DEF s
  <2>5. \A i, j \in 1 .. Len(s) : i < j => s[i] < s[j]
    <3> SUFFICES ASSUME NEW i \in 1 .. Len(s), NEW j \in 1 .. Len(s), i < j
                 PROVE  s[i] < s[j]
      OBVIOUS
    <3>1. i \in 1 .. Len(r) /\ (j \in 1 .. Len(r) \/ j = Len(r) + 1)
      BY <2>2, <2>3
    <3>. QED  BY <2>2, <2>3, <2>4, <3>1
  <2>6. Upto(m) = {s[i] : i \in 1 .. Len(s)}
    <3>1. \A i \in 1 .. Len(s) : i \in 1 .. Len(r) \/ i = Len(r) + 1
      BY <2>2, <2>3
    <3>2. \A i \in 1 .. Len(r) : i \in 1 .. Len(s)
      BY <2>2, <2>3
    <3>3. Len(r) + 1 \in 1 .. Len(s)
      BY <2>2, <2>3
    <3> HIDE DEF Upto
    <3>4. {s[i] : i \in 1 .. Len(s)} \subseteq Upto(m)
      BY <2>1, <2>2, <2>3, <3>1
    <3>5. Upto(m) \subseteq {s[i] : i \in 1 .. Len(s)}
      BY <2>1, <2>2, <2>3, <3>2, <3>3
    <3>. QED  BY <3>4, <3>5
  <2>7. Enumerates(s, Upto(m))
    BY <2>3, <2>5, <2>6 DEF Enumerates
  <2>. QED  BY <2>7 DEF Bad
<1>. QED  BY <1>7, <1>8

\* The greatest and the least of a set of numbers.
LEMMA PicksEnds ==
    ASSUME NEW T \in SUBSET Nat, NEW m \in T
    PROVE  /\ (\A j \in T : j <= m) => Newest(T) = m
           /\ (\A j \in T : m <= j) => Oldest(T) = m
<1>1. ASSUME \A j \in T : j <= m PROVE Newest(T) = m
  <2>1. Newest(T) \in T /\ \A j \in T : j <= Newest(T)
    BY <1>1 DEF Newest
  <2>2. Newest(T) <= m /\ m <= Newest(T) /\ m \in Nat /\ Newest(T) \in Nat
    BY <1>1, <2>1
  <2>. QED  BY <2>2
<1>2. ASSUME \A j \in T : m <= j PROVE Oldest(T) = m
  <2>1. Oldest(T) \in T /\ \A j \in T : Oldest(T) <= j
    BY <1>2 DEF Oldest
  <2>2. Oldest(T) <= m /\ m <= Oldest(T) /\ m \in Nat /\ Oldest(T) \in Nat
    BY <1>2, <2>1
  <2>. QED  BY <2>2
<1>. QED  BY <1>1, <1>2

\* The fields of the PCBs and of the queues when all PCBs are linked in.
LEMMA BootedFields ==
    /\ booted.next = [p \in Pids |->
                        IF \E i \in DOMAIN BootOrder : BootOrder[i] = p
                        THEN BootNext(CHOOSE i \in DOMAIN BootOrder : BootOrder[i] = p)
                        ELSE NULL]
    /\ \A l \in Levels : /\ booted.head["READY_queue"][l] = BootHead(l)
                         /\ booted.tail["READY_queue"][l] = BootTail(l)
                         /\ booted.head["MEMORY_WAIT_queue"][l] = NULL
                         /\ booted.tail["MEMORY_WAIT_queue"][l] = NULL
    /\ ~booted.hung /\ ~booted.in_i_process /\ booted.priority = BootPriority
<1> DEFINE nx == [p \in Pids |->
                    IF \E i \in DOMAIN BootOrder : BootOrder[i] = p
                    THEN BootNext(CHOOSE i \in DOMAIN BootOrder : BootOrder[i] = p)
                    ELSE NULL]
           hd == [empty_queues.head EXCEPT !["READY_queue"] = [l \in Levels |-> BootHead(l)]]
           tl == [empty_queues.tail EXCEPT !["READY_queue"] = [l \in Levels |-> BootTail(l)]]
           hp == empty_queues.highest_prio
           st == [p \in Pids |-> READY]
           k == [current |-> NULL_PID, in_i_process |-> FALSE, hung |-> FALSE,
                 state |-> st, priority |-> BootPriority, next |-> nx,
                 head |-> hd, tail |-> tl, highest_prio |-> hp]
           hp1 == [hp EXCEPT !["READY_queue"] = first_not_empty(k, "READY_queue", 0)]
           e == [k EXCEPT !.highest_prio = hp1]
<1>1. booted = e
  BY DEF booted
<1>2. \A l \in Levels : /\ hd["READY_queue"][l] = BootHead(l)
                        /\ tl["READY_queue"][l] = BootTail(l)
                        /\ hd["MEMORY_WAIT_queue"][l] = NULL
                        /\ tl["MEMORY_WAIT_queue"][l] = NULL
  BY DEF empty_queues, Queues
<1> HIDE DEF nx, hd, tl, hp, hp1, st
<1>3. /\ e.next = nx /\ e.head = hd /\ e.tail = tl /\ ~e.hung /\ ~e.in_i_process
      /\ e.priority = BootPriority
  OBVIOUS
<1> HIDE DEF e, k
<1>. QED  BY <1>1, <1>2, <1>3 DEF nx

\* A list of the ready queue holds the ordinary processes of its priority.
LEMMA BootList ==
    ASSUME AsBooted, NEW l \in Levels
    PROVE  HasExactly(booted, "READY_queue", l, At(Users, l))
<1> DEFINE S == BootIndices(l)
           n == Len(BootOrder)
           Q == "READY_queue"
<1>1. /\ n \in Nat /\ DOMAIN BootOrder = 1 .. n
      /\ \A i \in 1 .. n : BootOrder[i] \in Users /\ BootOrder[i] \in Pids
  BY SchedulerAssumption DEF Users, I_PROCESSES
<1>2. /\ \A i, j \in 1 .. n : BootOrder[i] = BootOrder[j] => i = j
      /\ \A p \in Users : \E i \in 1 .. n : BootOrder[i] = p
  BY <1>1 DEF AsBooted
<1>3. \A i : i \in S <=> i \in 1 .. n /\ BootPriority[BootOrder[i]] = l
  BY <1>1 DEF BootIndices
<1> HIDE DEF S, n
<1>4. S \in SUBSET (Nat \ {0}) /\ \A i \in S : i <= n
  BY <1>1, <1>3
<1>5. PICK r : Enumerates(r, S)
  <2>1. {i \in S : i <= n} = S
    BY <1>4
  <2>. QED  BY <1>1, <1>4, <2>1, Enumeration
<1>6. /\ r \in Seq(Nat) /\ Len(r) \in Nat
      /\ \A i \in 1 .. Len(r) : r[i] \in S /\ r[i] \in Nat /\ r[i] \in 1 .. n
      /\ \A i, j \in 1 .. Len(r) : i < j => r[i] < r[j]
      /\ \A x \in S : \E i \in 1 .. Len(r) : x = r[i]
  BY <1>3, <1>5 DEF Enumerates
<1>7. \A i, j \in 1 .. Len(r) : (i < j <=> r[i] < r[j]) /\ (i <= j <=> r[i] <= r[j])
  <2> SUFFICES ASSUME NEW i \in 1 .. Len(r), NEW j \in 1 .. Len(r)
               PROVE  (i < j <=> r[i] < r[j]) /\ (i <= j <=> r[i] <= r[j])
    OBVIOUS
  <2>1. i < j \/ i = j \/ j < i
    BY <1>6
  <2>2. r[i] \in Nat /\ r[j] \in Nat /\ (i < j => r[i] < r[j]) /\ (j < i => r[j] < r[i])
    BY <1>6
  <2>. QED  BY <2>1, <2>2
<1> DEFINE q == [i \in 1 .. Len(r) |-> BootOrder[r[i]]]
<1>8. q \in Seq(Pids) /\ Len(q) = Len(r)
  BY <1>1, <1>6
<1>9. \A i \in 1 .. Len(r) : q[i] = BootOrder[r[i]]
  OBVIOUS
<1> HIDE DEF q
<1>10. \A i, j \in 1 .. Len(q) : q[i] = q[j] => i = j
  <2> SUFFICES ASSUME NEW i \in 1 .. Len(r), NEW j \in 1 .. Len(r), q[i] = q[j]
               PROVE  i = j
    BY <1>8
  <2>1. BootOrder[r[i]] = BootOrder[r[j]]
    BY <1>9
  <2>2. r[i] \in 1 .. n /\ r[j] \in 1 .. n /\ r[i] \in Nat
    BY <1>6
  <2>3. r[i] = r[j]
    BY <1>2, <2>1, <2>2
  <2>4. i <= j /\ j <= i
    BY <1>7, <2>2, <2>3
  <2>. QED  BY <1>6, <2>4
<1>11. At(Users, l) = {q[i] : i \in 1 .. Len(q)}
  <2>1. \A i \in 1 .. Len(q) : q[i] \in At(Users, l)
    BY <1>1, <1>3, <1>6, <1>8, <1>9 DEF At
  <2>2. \A p \in At(Users, l) : \E i \in 1 .. Len(q) : p = q[i]
    <3> SUFFICES ASSUME NEW p \in At(Users, l) PROVE \E i \in 1 .. Len(q) : p = q[i]
      OBVIOUS
    <3>1. PICK x \in 1 .. n : BootOrder[x] = p
      BY <1>2 DEF At
    <3>2. x \in S
      BY <1>3, <3>1 DEF At
    <3>3. PICK i \in 1 .. Len(r) : x = r[i]
      BY <1>6, <3>2
    <3>. QED  BY <1>8, <1>9, <3>1, <3>3
  <2>. QED  BY <2>1, <2>2
<1>12. S = {} <=> Len(q) = 0
  <2>1. Len(r) # 0 => 1 \in 1 .. Len(r)
    BY <1>6
  <2>. QED  BY <1>6, <1>8, <2>1
<1>13. ASSUME Len(q) # 0
       PROVE  BootHead(l) = q[Len(q)] /\ BootTail(l) = q[1]
  <2>1. 1 \in 1 .. Len(r) /\ Len(r) \in 1 .. Len(r)
    BY <1>6, <1>8, <1>13
  <2>2. \A x \in S : x <= r[Len(r)] /\ r[1] <= x
    <3> SUFFICES ASSUME NEW x \in S PROVE x <= r[Len(r)] /\ r[1] <= x
      OBVIOUS
    <3>1. PICK i \in 1 .. Len(r) : x = r[i]
      BY <1>6
    <3>2. i <= Len(r) /\ 1 <= i
      BY <1>6
    <3>. QED  BY <1>7, <2>1, <3>1, <3>2
  <2>3. S \in SUBSET Nat /\ r[1] \in S /\ r[Len(r)] \in S
    BY <1>4, <1>6, <2>1
  <2>4. Newest(S) = r[Len(r)] /\ Oldest(S) = r[1]
    BY <2>2, <2>3, PicksEnds
  <2>5. BootHead(l) = BootOrder[Newest(S)] /\ BootTail(l) = BootOrder[Oldest(S)]
    BY <1>12, <1>13 DEF BootHead, BootTail, S
  <2>. QED  BY <1>8, <1>9, <2>1, <2>4, <2>5
<1>14. ASSUME NEW i \in 1 .. Len(q)
       PROVE  booted.next[q[i]] = IF i = 1 THEN NULL ELSE q[i - 1]
  <2> DEFINE x == r[i]
             before == {j \in S : j < x}
  <2>1. i \in 1 .. Len(r) /\ x \in 1 .. n /\ x \in Nat /\ x \in S /\ q[i] = BootOrder[x]
    BY <1>6, <1>8, <1>9
  <2>2. booted.next[q[i]] = BootNext(CHOOSE j \in DOMAIN BootOrder : BootOrder[j] = q[i])
    <3>1. q[i] \in Pids /\ \E j \in DOMAIN BootOrder : BootOrder[j] = q[i]
      BY <1>1, <2>1
    <3>. QED  BY <3>1, BootedFields
  <2>3. (CHOOSE j \in DOMAIN BootOrder : BootOrder[j] = q[i]) = x
    BY <1>1, <1>2, <2>1
  <2>4. BootNext(x) = IF before = {} THEN NULL ELSE BootOrder[Newest(before)]
    <3>1. BootPriority[BootOrder[x]] = l
      BY <1>3, <2>1
    <3>. QED  BY <3>1 DEF BootNext, S
  <2> HIDE DEF x
  <2>5. CASE i = 1
    <3>1. \A y \in S : ~(y < x)
      <4> SUFFICES ASSUME NEW y \in S PROVE ~(y < x)
        OBVIOUS
      <4>1. PICK j \in 1 .. Len(r) : y = r[j]
        BY <1>6
      <4>2. ~(j < i)
        BY <1>6, <2>5
      <4>. QED  BY <1>7, <2>1, <4>1, <4>2 DEF x
    <3>2. before = {}
      BY <3>1
    <3>. QED  BY <2>2, <2>3, <2>4, <2>5, <3>2
  <2>6. CASE i # 1
    <3>1. i - 1 \in 1 .. Len(r) /\ i - 1 < i
      BY <1>6, <2>1, <2>6
    <3>2. r[i - 1] \in before
      BY <1>6, <2>1, <3>1 DEF x
    <3>3. \A y \in before : y <= r[i - 1]
      <4> SUFFICES ASSUME NEW y \in S, y < x PROVE y <= r[i - 1]
        OBVIOUS
      <4>1. PICK j \in 1 .. Len(r) : y = r[j]
        BY <1>6
      <4>2. j < i
        BY <1>7, <2>1, <4>1 DEF x
      <4>3. j <= i - 1
        BY <1>6, <2>1, <4>2
      <4>. QED  BY <1>7, <3>1, <4>1, <4>3
    <3>4. before \in SUBSET Nat
      BY <1>4
    <3> HIDE DEF before
    <3>5. Newest(before) = r[i - 1]
      BY <3>2, <3>3, <3>4, PicksEnds
    <3>. QED  BY <1>9, <2>2, <2>3, <2>4, <2>6, <3>1, <3>2, <3>5
  <2>. QED  BY <2>5, <2>6
<1>15. ListIs(booted, Q, l, q)
  <2>1. booted.head[Q][l] = BootHead(l) /\ booted.tail[Q][l] = BootTail(l)
    BY BootedFields
  <2>2. q = << >> <=> Len(q) = 0
    BY <1>8
  <2>3. booted.head[Q][l] = IF q = << >> THEN NULL ELSE q[Len(q)]
    <3>1. CASE Len(q) = 0
      <4>1. BootHead(l) = NULL
        BY <1>12, <3>1 DEF BootHead, S
      <4>. QED  BY <2>1, <2>2, <3>1, <4>1
    <3>2. CASE Len(q) # 0
      BY <1>13, <2>1, <2>2, <3>2
    <3>. QED  BY <3>1, <3>2
  <2>4. q # << >> => booted.tail[Q][l] = q[1]
    BY <1>13, <2>1, <2>2
  <2>. QED  BY <1>8, <1>10, <1>14, <2>3, <2>4 DEF ListIs
<1>. QED  BY <1>8, <1>11, <1>15 DEF HasExactly

\* All ordinary processes are on the ready queue, and the other lists are empty.
AllReady == [Q \in Queues |-> IF Q = "READY_queue" THEN Users ELSE {}]

LEMMA BootArranged ==
    ASSUME AsBooted
    PROVE  Arranged(booted, AllReady)
<1>1. /\ booted \in KernelStates /\ Exact(booted) /\ ~booted.hung
      /\ booted.priority = BootPriority
  BY Booted, BootedFields
<1>2. /\ "READY_queue" \in Queues /\ "MEMORY_WAIT_queue" \in Queues
      /\ \A Q \in Queues : Q = "READY_queue" \/ Q = "MEMORY_WAIT_queue"
  BY DEF Queues
<1>3. /\ AllReady \in [Queues -> SUBSET Users]
      /\ AllReady["READY_queue"] = Users /\ AllReady["MEMORY_WAIT_queue"] = {}
  BY <1>2 DEF AllReady
<1>4. \A Q, R \in Queues : Q # R => AllReady[Q] \cap AllReady[R] = {}
  BY <1>2, <1>3
<1>5. ASSUME NEW l \in Levels PROVE ListOK(booted, AllReady, "READY_queue", l)
  <2>1. booted.head["READY_queue"][l] = NULL => booted.tail["READY_queue"][l] = NULL
    <3>1. BootHead(l) = NULL => BootIndices(l) = {}
      <4>1. ASSUME BootIndices(l) # {} PROVE BootHead(l) # NULL
        <5>1. BootIndices(l) \in SUBSET DOMAIN BootOrder
          BY DEF BootIndices
        <5>2. Newest(BootIndices(l)) \in DOMAIN BootOrder
          BY <4>1, <5>1, BootPicks
        <5>. QED  BY <4>1, <5>2, SchedulerAssumption, PidsAssumption DEF BootHead
      <4>. QED  BY <4>1
    <3>. QED  BY <3>1, BootedFields DEF BootTail
  <2>2. CASE l \in ILevels
    <3>1. BootIndices(l) = {}
      <4>1. \A i \in DOMAIN BootOrder : BootOrder[i] \in Users
        BY SchedulerAssumption DEF Users, I_PROCESSES
      <4>. QED  BY <2>2, <4>1, BootFacts DEF BootIndices, ILevels, Apart
    <3>2. booted.head["READY_queue"][l] = NULL
      BY <3>1, BootedFields DEF BootHead
    <3>. QED  BY <2>1, <2>2, <3>2 DEF ListOK, Knotted
  <2>3. CASE l \notin ILevels
    BY <1>3, <2>1, <2>3, BootList DEF ListOK
  <2>. QED  BY <2>2, <2>3
<1>6. ASSUME NEW l \in Levels PROVE ListOK(booted, AllReady, "MEMORY_WAIT_queue", l)
  <2>1. /\ booted.head["MEMORY_WAIT_queue"][l] = NULL
        /\ booted.tail["MEMORY_WAIT_queue"][l] = NULL
    BY BootedFields
  <2>2. PICK q \in Seq(Pids) : q = << >>
    <3>1. << >> \in Seq(Pids)
      OBVIOUS
    <3>. QED  BY <3>1
  <2>3. ListIs(booted, "MEMORY_WAIT_queue", l, q)
    BY <2>1, <2>2 DEF ListIs
  <2>4. At({}, l) = {q[i] : i \in 1 .. Len(q)}
    BY <2>2 DEF At
  <2>5. HasExactly(booted, "MEMORY_WAIT_queue", l, At({}, l))
    BY <2>3, <2>4 DEF HasExactly
  <2>. QED  BY <1>3, <2>1, <2>5 DEF ListOK
<1>7. \A Q \in Queues, l \in Levels : ListOK(booted, AllReady, Q, l)
  BY <1>2, <1>5, <1>6
<1>. QED  BY <1>1, <1>3, <1>4, <1>7 DEF Arranged

\* The first process is dispatched.
LEMMA InitPlaced ==
    ASSUME AsBooted, Init
    PROVE  Placed(kernel) /\ ~kernel.in_i_process
<1> DEFINE Q == "READY_queue"
           d == dequeue_PCB_FIFO_by_priority(booted, Q)
           on == [AllReady EXCEPT ![Q] = @ \ {d.pcb}]
<1>1. Arranged(booted, AllReady)
  BY BootArranged
<1>2. /\ Q \in Queues /\ "MEMORY_WAIT_queue" \in Queues
      /\ AllReady[Q] = Users /\ AllReady["MEMORY_WAIT_queue"] = {}
      /\ AllReady \in [Queues -> SUBSET Users]
      /\ Users \subseteq Pids /\ I_PROCESSES \subseteq Pids
  BY SchedulerAssumption DEF Queues, AllReady, Users, I_PROCESSES
<1>3. SpinnerReady(AllReady)
  BY <1>2, BootFacts DEF SpinnerReady, Spins
<1>4. Dequeued(booted, AllReady, Q, d)
  BY <1>1, <1>3, BootFacts, Dispatchable
<1>5. d.pcb \in Users /\ QueuesOnly(booted, d.s) /\ Arranged(d.s, on)
  BY <1>2, <1>4 DEF Dequeued
<1>6. d.pcb \in Pids /\ d.pcb # NULL /\ d.pcb \notin I_PROCESSES
  BY <1>2, <1>5, PidsAssumption DEF Users
<1>7. kernel = context_switch(d.s, d.pcb)
  BY <1>6 DEF Init
<1>8. on[Q] = Users \ {d.pcb} /\ on["MEMORY_WAIT_queue"] = {}
  BY <1>2
<1> HIDE DEF d, on
<1>9. d.s \in KernelStates /\ d.s.state = [p \in Pids |-> READY] /\ ~d.s.in_i_process
  BY <1>5, Booted, BootedFields DEF QueuesOnly
<1>10. /\ SameQueues(d.s, kernel) /\ kernel.current = d.pcb
       /\ kernel.in_i_process = d.s.in_i_process /\ kernel.state = d.s.state
  <2>1. kernel = [d.s EXCEPT !.current = d.pcb]
    BY <1>7 DEF context_switch
  <2>. QED  BY <1>6, <1>9, <2>1 DEF SameQueues, KernelStates
<1>11. Arranged(kernel, on)
  BY <1>5, <1>10, AssignedArranged
<1>12. \A x \in Pids : kernel.state[x] = READY
  BY <1>9, <1>10
<1>13. Fits(kernel, on)
  <2>1. \A x \in Users : x \in on[Q] <=> kernel.state[x] \in Runnable /\ x # kernel.current
    BY <1>2, <1>8, <1>10, <1>12 DEF Runnable
  <2>2. \A x \in Users : x \in on["MEMORY_WAIT_queue"] <=> kernel.state[x] = MEMORY_WAIT
    BY <1>2, <1>8, <1>12 DEF READY, MEMORY_WAIT
  <2>. QED  BY <1>6, <1>9, <1>10, <1>12, <2>1, <2>2 DEF Fits, Runnable
<1>. QED  BY <1>9, <1>10, <1>11, <1>13 DEF Placed
-----------------------------------------------------------------------------
(* The steps of the system.                                                    *)

\* A program that spins calls nothing that may wait, and an i-process never waits.
LEMMA WaiterDoesNotSpin ==
    ASSUME NEW c, "receive_message" \in Calls[c] \/ "request_memory_block" \in Calls[c]
    PROVE  ~Spins(c)
  BY DEF Spins

\* A step of an ordinary process.
LEMMA ProcessPlaced ==
    ASSUME AsBooted, Safe, Placed(kernel), NEW c \in Pids, Process(c)
    PROVE  Placed(kernel') /\ kernel.current \notin I_PROCESSES
<1>1. c \notin I_PROCESSES /\ kernel.current = c /\ ~kernel.in_i_process
  <2>1. kernel.current = c /\ c \notin I_PROCESSES
    BY DEF Process, Send, ReceiveMessage, ReceiveBlocks, RequestBlock, RequestBlocks,
           Release, ReleaseProcessor, DelayedSend, SetPriority, Runs
  <2>. QED  BY <2>1 DEF Placed, Fits
<1>2. ASSUME NEW b, NEW d \in Pids, <<c, d>> \in Sends, Send(c, d, b)
      PROVE  Placed(kernel')
  BY <1>1, <1>2, WakeReceiverPlaced DEF Send
<1>3. ASSUME "receive_message" \in Calls[c], ReceiveBlocks(c) PROVE Placed(kernel')
  BY <1>1, <1>3, WaiterDoesNotSpin, WaitForMessagePlaced DEF ReceiveBlocks
<1>4. ASSUME "request_memory_block" \in Calls[c], RequestBlocks(c) PROVE Placed(kernel')
  BY <1>1, <1>4, WaiterDoesNotSpin, WaitForMemoryPlaced DEF RequestBlocks
<1>5. ASSUME NEW b, Release(c, b) PROVE Placed(kernel')
  BY <1>5, WakeMemoryWaiterPlaced DEF Release
<1>6. ASSUME ReleaseProcessor(c) PROVE Placed(kernel')
  BY <1>6, SwitchPlaced DEF ReleaseProcessor
<1>7. ASSUME ReceiveMessage(c) \/ RequestBlock(c) PROVE Placed(kernel')
  BY <1>7 DEF ReceiveMessage, RequestBlock
<1>8. ASSUME NEW b, DelayedSend(c, c, b) PROVE Placed(kernel')
  BY <1>8 DEF DelayedSend
<1>9. "set_process_priority" \notin Calls[c]
  BY DEF AsBooted
<1>. QED  BY <1>1, <1>2, <1>3, <1>4, <1>5, <1>6, <1>7, <1>8, <1>9 DEF Process

\* An interrupt.
LEMMA InterruptPlaced ==
    ASSUME AsBooted, Placed(kernel), timer_handler \/ uart_handler
    PROVE  Placed(kernel') /\ kernel.current \notin I_PROCESSES
<1>1. TIMER_PID \in I_PROCESSES /\ UART_PID \in I_PROCESSES /\ TIMER_PID \in Pids
  BY SchedulerAssumption DEF I_PROCESSES
<1>2. kernel.current \notin I_PROCESSES
  BY DEF timer_handler, uart_handler, InterruptsEnabled
<1>3. kernel.state[TIMER_PID] # MESSAGE_WAIT
  BY <1>1 DEF Placed, Fits, Runnable, READY, RUNNING, MESSAGE_WAIT
<1>4. CASE timer_handler
  BY <1>1, <1>2, <1>3, <1>4, EnterIProcessPlaced DEF timer_handler
<1>5. CASE uart_handler
  BY <1>1, <1>2, <1>5, EnterIProcessPlaced DEF uart_handler
<1>. QED  BY <1>2, <1>4, <1>5

\* A step of an i-process, which keeps the processor unless it is done.
LEMMA IProcessPlaced ==
    ASSUME AsBooted, Safe, AtOK, Placed(kernel), IProcess
    PROVE  /\ Placed(kernel')
           /\ \/ kernel'.current = kernel.current
              \/ kernel.current \in I_PROCESSES /\ at'[kernel.current] = "start"
              \/ /\ kernel.current \in I_PROCESSES /\ at[kernel.current] = "write"
                 /\ GivesWay(kernel, kernel')
<1> DEFINE c == kernel.current
<1>1. /\ TIMER_PID \in I_PROCESSES /\ UART_PID \in I_PROCESSES
      /\ KCD_PID \in Pids /\ I_PROCESSES \subseteq Pids
  BY SchedulerAssumption, KernelAssumption DEF I_PROCESSES
<1>2. c \in I_PROCESSES => kernel.in_i_process
  BY DEF Placed, Fits
<1>3. \A i \in I_PROCESSES : ~ReceiveBlocks(i) /\ ~RequestBlocks(i)
  BY <1>2 DEF ReceiveBlocks, RequestBlocks, Runs
<1>4. \A l : \A i \in I_PROCESSES : Goto(i, l) => at'[i] = l
  BY DEF AtOK, Goto
<1>5. ASSUME NEW b, Send(UART_PID, KCD_PID, b)
      PROVE  Placed(kernel') /\ kernel'.current = c
  BY <1>1, <1>5, WakeReceiverPlaced DEF Send, Runs
<1>6. ASSUME NEW i \in I_PROCESSES, ReleaseProcessor(i), Goto(i, "start")
      PROVE  Placed(kernel') /\ c \in I_PROCESSES /\ at'[c] = "start"
  BY <1>4, <1>6, SwitchPlaced DEF ReleaseProcessor, Runs
<1>7. CASE timer_poll
  BY <1>1, <1>3, <1>7 DEF timer_poll
<1>8. CASE timer_expire
  <2>1. PICK m \in delayed : kernel' = wake_receiver(kernel, m[2])
    BY <1>8 DEF timer_expire
  <2>2. m[2] \in Pids /\ c \in I_PROCESSES
    BY <1>1, <1>8 DEF Safe, timer_expire, Runs
  <2>. QED  BY <2>1, <2>2, WakeReceiverPlaced
<1>9. CASE timer_done
  BY <1>1, <1>6, <1>9 DEF timer_done
<1>10. CASE uart_status
  BY <1>10 DEF uart_status
<1>11. CASE uart_request
  BY <1>1, <1>3, <1>11 DEF uart_request, RequestBlock
<1>12. CASE uart_send
  BY <1>5, <1>12 DEF uart_send
<1>13. CASE uart_drain
  BY <1>1, <1>3, <1>13 DEF uart_drain, ReceiveMessage
<1>14. CASE uart_write
  <2>1. c = UART_PID /\ at[c] = "write" /\ kernel' = wake_memory_waiter(kernel)
    BY <1>14 DEF uart_write, Release, Runs
  <2>. QED  BY <1>1, <2>1, WakeMemoryWaiterPlaced
<1>15. CASE uart_done
  BY <1>1, <1>6, <1>15 DEF uart_done
<1>. QED  BY <1>7, <1>8, <1>9, <1>10, <1>11, <1>12, <1>13, <1>14, <1>15 DEF IProcess

\* Every step leaves every process in its place.
LEMMA NextPlaced ==
    ASSUME AsBooted, Safe, AtOK, Placed(kernel), [Next]_vars
    PROVE  Placed(kernel')
<1>1. CASE UNCHANGED vars
  BY <1>1 DEF vars
<1>2. CASE Next
  BY <1>2, ProcessPlaced, InterruptPlaced, IProcessPlaced DEF Next
<1>. QED  BY <1>1, <1>2

\* The inductive invariant of the theorems below.
InPlace == AsBooted /\ Safe /\ AtOK /\ Placed(kernel)

LEMMA PlacedInvariant == AsBooted => (Spec => []InPlace)
<1> DEFINE Booting == AsBooted
<1>1. Booting /\ Init => InPlace
  BY InitSafe, InitPlaced DEF InPlace
<1>2. InPlace /\ [Next]_vars => InPlace'
  BY NextSafe, NextPlaced DEF InPlace
<1> HIDE DEF Booting
<1>3. Booting => (Spec => []InPlace)
  BY <1>1, <1>2, PTL DEF Spec
<1>. QED  BY <1>3 DEF Booting
-----------------------------------------------------------------------------
(* What the lists mean to those that walk them.                                *)

\* A walk begins where it begins, and follows the pointers.
LEMMA WalkFollows ==
    ASSUME NEW k, NEW p
    PROVE  \A i \in Turns :
             walk(k, p)[i] = IF i = 0 THEN p
                             ELSE IF walk(k, p)[i - 1] = NULL THEN NULL
                             ELSE k.next[walk(k, p)[i - 1]]
<1> DEFINE N == Cardinality(Pids)
           After(x) == IF x = NULL THEN NULL ELSE k.next[x]
           Upto(f, n) == f = [i \in 0 .. n |-> IF i = 0 THEN p ELSE After(f[i - 1])]
           Bad == {n \in Nat : ~\E f : Upto(f, n)}
           w == walk(k, p)
<1>1. N \in Nat /\ Turns = 0 .. N
  BY PidsAssumption, FS_CardinalityType DEF Turns
<1>2. Bad = {}
  <2> SUFFICES ASSUME Bad # {} PROVE FALSE
    OBVIOUS
  <2>1. PICK n \in Bad : \A j \in Bad : n <= j
    <3>1. Bad \in SUBSET Nat
      OBVIOUS
    <3> HIDE DEF Bad
    <3>. QED  BY <3>1, Least
  <2>2. n \in Nat /\ n # 0
    <3>1. Upto([i \in 0 .. 0 |-> p], 0)
      OBVIOUS
    <3>. QED  BY <2>1, <3>1
  <2>3. n - 1 \in Nat /\ ~(n <= n - 1)
    BY <2>2
  <2>4. PICK f : Upto(f, n - 1)
    BY <2>1, <2>3
  <2> HIDE DEF Bad
  <2> DEFINE g == [i \in 0 .. n |-> IF i = n THEN After(f[n - 1]) ELSE f[i]]
  <2>5. ASSUME NEW i \in 0 .. n
        PROVE  g[i] = IF i = 0 THEN p ELSE After(g[i - 1])
    <3>1. CASE i = n
      <4>1. g[i] = After(f[n - 1]) /\ g[n - 1] = f[n - 1]
        BY <2>2, <2>3, <3>1
      <4>. QED  BY <2>2, <3>1, <4>1
    <3>2. CASE i # n
      <4>1. i \in 0 .. n - 1
        BY <2>2, <3>2
      <4>2. f[i] = IF i = 0 THEN p ELSE After(f[i - 1])
        BY <2>4, <4>1
      <4>3. i # 0 => i - 1 \in 0 .. n /\ i - 1 # n
        BY <2>2
      <4>4. g[i] = f[i] /\ (i # 0 => g[i - 1] = f[i - 1])
        BY <3>2, <4>3
      <4>. QED  BY <4>2, <4>4
    <3>. QED  BY <3>1, <3>2
  <2>6. Upto(g, n)
    <3>1. g = [i \in 0 .. n |-> g[i]]
      OBVIOUS
    <3> HIDE DEF g
    <3>. QED  BY <2>5, <3>1
  <2>. QED  BY <2>1, <2>6 DEF Bad
<1>3. \E f : Upto(f, N)
  BY <1>1, <1>2
<1>4. w = CHOOSE f : f = [i \in Turns |-> IF i = 0 THEN p
                            ELSE IF f[i - 1] = NULL THEN NULL ELSE k.next[f[i - 1]]]
  BY DEF walk
<1> HIDE DEF w
<1>5. w = CHOOSE f : Upto(f, N)
  BY <1>1, <1>4
<1>6. Upto(w, N)
  BY <1>3, <1>5
<1>7. \A i \in Turns : w[i] = IF i = 0 THEN p ELSE After(w[i - 1])
  BY <1>1, <1>6
<1>. QED  BY <1>7 DEF w

\* The hotkeys' walk of a list ends, unless the list is knotted on its head.
LEMMA HotkeyEnds ==
    ASSUME NEW k, NEW on, NEW Q, NEW l, ListOK(k, on, Q, l)
    PROVE  \/ /\ Q = "READY_queue"
              /\ \E i \in I_PROCESSES : k.head[Q][l] = i /\ k.next[i] = i /\ k.tail[Q][l] # i
           \/ k.head[Q][l] = NULL /\ k.tail[Q][l] = NULL
           \/ \E i \in Turns : walk(k, k.head[Q][l])[i] = k.tail[Q][l]
<1> DEFINE h == k.head[Q][l]
           t == k.tail[Q][l]
           w == walk(k, h)
<1>1. CASE h = NULL
  BY <1>1 DEF ListOK
<1>2. CASE h # NULL /\ Q = "READY_queue" /\ l \in ILevels
  <2>1. /\ h \in I_PROCESSES /\ BootPriority[h] = l
        /\ h = t \/ k.next[h] = t \/ k.next[h] = h
    BY <1>2 DEF ListOK, Knotted
  <2>2. 0 \in Turns /\ 1 \in Turns
    <3>1. /\ Cardinality(Pids) \in Nat /\ Cardinality(Pids) # 0
      BY SchedulerAssumption, PidsAssumption, FS_CardinalityType, FS_EmptySet
    <3>. QED  BY <3>1 DEF Turns
  <2>3. /\ \A i \in Turns : w[i] = IF i = 0 THEN h
                                   ELSE IF w[i - 1] = NULL THEN NULL ELSE k.next[w[i - 1]]
    BY WalkFollows
  <2> HIDE DEF w
  <2>4. w[0] = h
    BY <2>2, <2>3
  <2>5. w[1] = k.next[h]
    <3>1. w[1] = IF w[1 - 1] = NULL THEN NULL ELSE k.next[w[1 - 1]]
      BY <2>2, <2>3
    <3>. QED  BY <1>2, <2>4, <3>1
  <2>. QED  BY <1>2, <2>1, <2>2, <2>4, <2>5 DEF w
<1>3. CASE h # NULL /\ ~(Q = "READY_queue" /\ l \in ILevels)
  <2>1. HasExactly(k, Q, l, At(on[Q], l))
    BY <1>3 DEF ListOK
  <2>2. PICK q \in Seq(Pids) : ListIs(k, Q, l, q)
    BY <2>1 DEF HasExactly
  <2>3. walk_ends(k, Q, l)
    BY <2>2, ListIsListOf
  <2>. QED  BY <1>3, <2>3 DEF walk_ends
<1>. QED  BY <1>1, <1>2, <1>3

\* A list of ordinary processes is what ListIsExactly says.
LEMMA ListIsAll ==
    ASSUME NEW Q, NEW l, NEW S, HasExactly(kernel, Q, l, S)
    PROVE  ListIsExactly(Q, l, S)
<1>1. PICK q \in Seq(Pids) : ListIs(kernel, Q, l, q) /\ S = {q[i] : i \in 1 .. Len(q)}
  BY DEF HasExactly
<1>2. walk_ends(kernel, Q, l) /\ list_of(kernel, Q, l) = q
  BY <1>1, ListIsListOf
<1>3. /\ Len(q) \in Nat /\ DOMAIN q = 1 .. Len(q)
      /\ \A i, j \in 1 .. Len(q) : q[i] = q[j] => i = j
  BY <1>1, ListFacts
<1>4. Cardinality(S) = Len(q)
  <2>1. ExistsBijection(1 .. Len(q), S)
    <3>1. q = [i \in 1 .. Len(q) |-> q[i]]
      BY <1>3
    <3>2. q \in Bijection(1 .. Len(q), S)
      BY <1>1, <1>3, <3>1 DEF Bijection, Injection, IsInjective, Surjection
    <3>. QED  BY <3>2 DEF ExistsBijection
  <2>2. IsFiniteSet(1 .. Len(q)) /\ Cardinality(1 .. Len(q)) = Len(q)
    <3>1. 1 \in Int /\ Len(q) \in Int /\ (IF 1 > Len(q) THEN 0 ELSE Len(q) - 1 + 1) = Len(q)
      BY <1>3
    <3>. QED  BY <3>1, FS_Interval
  <2>. QED  BY <2>1, <2>2, FS_Bijection
<1>. QED  BY <1>1, <1>2, <1>3, <1>4 DEF ListIsExactly
-----------------------------------------------------------------------------
(* The theorems: of every system that boots as AsBooted says.                  *)

\* As long as no priority is changed, the kernel never walks a broken list and
\* never dispatches a null PCB.
THEOREM KernelNeverHangs == AsBooted => (Spec => []NeverHangs)
<1>1. InPlace => NeverHangs
  BY DEF InPlace, Placed, Arranged, NeverHangs
<1>. QED  BY <1>1, PlacedInvariant, PTL

\* The primitives never put an i-process to sleep (SDD section 4.2).
THEOREM IProcessesNeverWait == AsBooted => (Spec => []IProcessNeverWaits)
<1>1. InPlace => IProcessNeverWaits
  <2>1. I_PROCESSES \subseteq Pids
    BY SchedulerAssumption DEF I_PROCESSES
  <2>. QED  BY <2>1 DEF InPlace, Placed, Fits, IProcessNeverWaits, Runnable,
                        READY, RUNNING, MESSAGE_WAIT, MEMORY_WAIT
<1>. QED  BY <1>1, PlacedInvariant, PTL

\* Every ordinary process is current, or linked once into the list of its priority
\* of the queue its state names, or waits for a message and is linked into none.
THEOREM EveryProcessInOnePlace == AsBooted => (Spec => []ProcessInOnePlace)
<1>1. InPlace => ProcessInOnePlace
  <2> SUFFICES ASSUME AsBooted, Placed(kernel) PROVE ProcessInOnePlace
    BY DEF InPlace
  <2>1. PICK on : Arranged(kernel, on) /\ Fits(kernel, on)
    BY DEF Placed
  <2>2. /\ kernel.priority = BootPriority /\ on \in [Queues -> SUBSET Users]
        /\ BootPriority \in [Pids -> Levels] /\ Users \subseteq Pids
        /\ \A Q \in Queues : Q = "READY_queue" \/ Q = "MEMORY_WAIT_queue"
    BY <2>1, SchedulerAssumption DEF Arranged, Users, Queues
  <2>3. ASSUME NEW Q \in Queues, NEW p \in Users
        PROVE  ListIsExactly(Q, BootPriority[p], BelongsOn(Q, BootPriority[p]))
    <3> DEFINE l == BootPriority[p]
    <3>1. l \in Levels /\ l \notin ILevels
      BY <2>2, BootFacts DEF Apart, ILevels
    <3>2. HasExactly(kernel, Q, l, At(on[Q], l))
      BY <2>1, <3>1 DEF Arranged, ListOK
    <3>3. \A x \in Users :
            x \in on[Q] <=> IF Q = "READY_queue"
                            THEN kernel.state[x] \in {READY, RUNNING} /\ x # kernel.current
                            ELSE kernel.state[x] = MEMORY_WAIT
      BY <2>1, <2>2 DEF Fits, Runnable
    <3>4. on[Q] \subseteq Users
      BY <2>2
    <3>5. At(on[Q], l) = BelongsOn(Q, l)
      BY <2>2, <3>3, <3>4 DEF At, BelongsOn
    <3>. QED  BY <3>2, <3>5, ListIsAll
  <2>4. kernel.state[kernel.current] \in {READY, RUNNING}
    BY <2>1 DEF Fits, Runnable
  <2>. QED  BY <2>2, <2>3, <2>4 DEF ProcessInOnePlace
<1>. QED  BY <1>1, PlacedInvariant, PTL

\* The walks of the hotkeys end, but of a ready list that begins with an i-process
\* linked to itself which is not its tail.
THEOREM AllHotkeyWalksEnd == AsBooted => (Spec => []HotkeyWalksEnd)
<1>1. InPlace => HotkeyWalksEnd
  <2> SUFFICES ASSUME Placed(kernel), NEW Q \in Queues, NEW l \in Levels
               PROVE  knotted_on_head(Q, l) \/ hotkey_ends(Q, l)
    BY DEF InPlace, HotkeyWalksEnd
  <2>1. PICK on : Arranged(kernel, on)
    BY DEF Placed
  <2>2. ListOK(kernel, on, Q, l)
    BY <2>1 DEF Arranged
  <2>. QED  BY <2>2, HotkeyEnds DEF hotkey_ends, knotted_on_head
<1>. QED  BY <1>1, PlacedInvariant, PTL

\* An i-process keeps the processor until it gives it up, or until its release of
\* a block wakes a process that is more urgent.
THEOREM IProcessesKeepProcessor == AsBooted => (Spec => IProcessKeepsProcessor)
<1> DEFINE Step ==
      \A i \in I_PROCESSES : kernel.current = i /\ kernel'.current # i =>
          \/ at'[i] = "start"
          \/ /\ at[i] = "write"
             /\ \E p \in Users : /\ kernel.state[p] = MEMORY_WAIT
                                 /\ kernel'.state[p] # MEMORY_WAIT
                                 /\ kernel.priority[p] < kernel.priority[i]
<1>1. InPlace /\ [Next]_vars => [Step]_vars
  <2> SUFFICES ASSUME AsBooted, Safe, AtOK, Placed(kernel), [Next]_vars,
                      NEW i \in I_PROCESSES, kernel.current = i, kernel'.current # i
               PROVE  \/ at'[i] = "start"
                      \/ at[i] = "write" /\ GivesWay(kernel, kernel')
    BY DEF InPlace, GivesWay
  <2>1. CASE \E c \in Pids : Process(c)
    BY <2>1, ProcessPlaced
  <2>2. CASE timer_handler \/ uart_handler
    BY <2>2, InterruptPlaced
  <2>3. CASE IProcess
    BY <2>3, IProcessPlaced
  <2>4. CASE UNCHANGED vars
    BY <2>4 DEF vars
  <2>. QED  BY <2>1, <2>2, <2>3, <2>4 DEF Next
<1>. QED  BY <1>1, PlacedInvariant, PTL DEF Spec, IProcessKeepsProcessor
=============================================================================
