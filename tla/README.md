# A verification development for the Door RTOS

TLA+ models, TLC runs and TLAPS proofs about the Door operating system: a small
message-passing real-time kernel for the ColdFire MCF5307, with its two
interrupt-driven processes and its system processes.  The models are translated
from the C sources (`src/kernel`, `src/process`); the design document
`src/ece354_sdd.pdf` ("SDD" below) is used only as a source of claims to compare
the code with.  `PROJECT.json` lists, for every definition that models code, the
file and the lines it stands for.

## 1. The system

### Components, their state and their operations

| Component | State | Operations | Hard part |
|---|---|---|---|
| Linked queues (`queue.c`, `msg_queue.c`, `memory_queue.c`) | `head`, `tail`, `next` of the elements | `enqueue*`, `dequeue*FIFO`, `dequeue*LIFO` | written three times; links in at the head and walks to the tail; one next field per element, no check of membership |
| METAPCB queues (`queue.c`) | six lists by priority, cached index `highest_prio` | `enqueue_PCB_by_priority`, `dequeue_PCB_FIFO_by_priority`, `remove_element_by_priority` | the index and the lists change on separate paths; removal from the middle |
| Primitives and scheduler (`primitives.c`) | PCBs, `current_pcb`, `in_i_process`, mailboxes, free list | send, receive, request, release, `process_switch`, `delayed_send`, `set_process_priority` | blocking, waking and switching inside a primitive; called by processes and by i-processes |
| Trap stubs and trap handler (`swi.c`) | the globals `kernel_code`, `param_1..3`, `ret_code`, `ret_code_recv`, `msg_return` | a stub per primitive; `swi_trap_handler` | one set of globals for all callers, written and read with interrupts enabled |
| Interrupt handlers (`timer_handler.c`, `uart_handler.c`) | as above | put the current process on the ready queue, resume an i-process | at any instruction of a program |
| I-processes (`timer_i_process.c`, `uart_i_process.c`) | `delayed_send_queue`, `timer_count`, the characters in flight | expire delays; keyboard to KCD, mailbox to transmitter; hotkeys | use the primitives of the processes, in another mode |
| System processes (`kcd_process.c`, `crt_process.c`, `wall_clock_process.c`, `set_priority_process.c`) | command table and command buffer, time of day, message pointers | decode commands, display, keep the time, change priorities | state that lives over many messages; commands, registrations and ticks in any order |
| Stress processes (`process_a1.c` to `process_c2.c`) | report numbers, a private queue each in C1 and C2, message pointers | make, pass on and count reports; hibernate | lose blocks; wait for memory while they sit on it |
| Task and null processes (`task.c`, `null_process.c`) | none | give up the processor, or never do | load for the scheduler |
| Booting (`init.c`, `rtos.c`) | everything | links in all PCBs, starts the first | |
| Helpers, assembly, unused boot files | none | printing, context save, vectors | not modelled, see section 7 |

### Interaction

A program calls a stub of `swi.c`, which stores its arguments in globals and
traps.  `swi_trap_handler` masks interrupts and calls the primitive.  A primitive
either returns to its caller or saves its context and restores that of another
process.  The interrupt handlers put the interrupted process on the ready queue
and switch to the timer or UART i-process, which runs with interrupts masked
(status register `0x2700`), works through its mailbox or its delayed messages
with the kernel's own functions, and gives the processor up with
`release_processor`.  All data moves in messages, which are memory blocks: a block
is free, or in a mailbox, or in the delayed send queue, or in the hands of the one
program that requested or received it.  Nobody checks that.  A key goes from the
UART i-process to the KCD, a command from the KCD to the process that registered
its letter, and all output to the CRT and back to the UART i-process.  The wall
clock keeps itself going with a message to itself, delayed by a second.

### What makes each part correct

* Queues: every list is a simple list from head to tail in the order of arrival,
  `highest_prio` is the first list in use, and every loop ends.
* Kernel: every process is current, or linked once where its state says it is;
  nobody sleeps on a message that is there; no block is lost or shared; equal
  processes take turns; an interrupt ends; an i-process is not blocked.
* Timing: delays stay ordered, do not underflow and are honoured.
* Stubs: the trap executes the call that was meant, and the stub returns its answer.
* Console: for every finished line one command is sent, to its own process, with the keys of that
  line and no other written into its block; the clock keeps going, nobody uses a block that he has
  given away.
* Stress processes: reports arrive once and in order, and only the blocks that are
  known to be lost are lost.

`PROJECT.json` lists the hazards behind these one by one, at their lines, with the
properties that would catch them.

## 2. The modules

| Module | Models | Used by |
|---|---|---|
| `FifoQueue` | abstract: a queue as a sequence | refined by `LinkedQueue` |
| `LinkedQueue` | the linked queue, pointer by pointer; each turn of the loop of the FIFO removal is a step | `LinkedQueueProofs` |
| `PCBQueues` | all operations of a METAPCB queue as operators on a record of `next`, `head`, `tail`, `highest_prio`, `priority` | `PriorityQueue`, `Scheduler` |
| `PriorityFifo` | abstract: one FIFO per priority | refined by `PriorityQueue` |
| `PriorityQueue` | one METAPCB queue under all orders of calls, with a history of what is linked | `PriorityQueueProofs` |
| `Scheduler` | dispatching, blocking, waking, switching, entering an i-process, the state after booting: operators on the kernel's record | `Kernel`, `Syscalls`, `SchedulerProofs` |
| `Kernel` | primitives, interrupt handlers, i-processes; a primitive is a step | `KernelClaims`, `KernelProofs`, `MCKernel*` |
| `KernelClaims` | a claim of the SDD about `send_message` that the code does not meet | a run that expects a violation |
| `Syscalls` | the trap stubs, step by step, on top of `Scheduler` | `SyscallsProofs`, `MCSyscalls` |
| `DelayedSend` | `delayed_send_queue` with its relative delays and the tick | `DelayedSendProofs` |
| `Console` | KCD, CRT, wall clock and set-priority process between the UART and the timer | `ConsoleProofs` |
| `Stress` | the A, B and C processes, with decoder and display as far as they take and lose blocks | `StressProofs` |
| `LinkedQueueProofs`, `PriorityQueueProofs`, `SchedulerProofs` (lemmas about lists and about the scheduler), `KernelProofs`, `SyscallsProofs`, `DelayedSendProofs`, `ConsoleProofs`, `StressProofs` | theorems and their lemmas | |
| `MC*` | constants for TLC | |

How they correspond to the code:

* **PCBQueues, Scheduler, Kernel.**  A step of `Kernel` is what happens from a trap to the
  return from exception, because the kernel runs masked; the scheduling functions
  (`process_switch`, `wake_receiver`, `wake_memory_waiter`, ...) are operators that
  map one record `kernel` to the next, in the order of the code, on the real
  pointers.  So the model follows the code into states with broken lists: a walk
  that never meets what it looks for, or a dispatch of a null PCB, sets `hung`,
  after which nothing happens.  `context_switch` never returns to its caller, as in the code.
  The programs of ordinary processes call the primitives they use in any order
  (constant `Calls`), with the receivers they send to (`Sends`); the
  i-processes are modelled with their loops, one step per call.  The saved context of the timer
  i-process is lost once it blocks in a kernel function that it called without a
  trap; the model sets `hung` when it would be resumed.
* **Memory blocks** are interchangeable in `Kernel`: any free block may be handed
  out, which covers the FIFO order of the code.  A process that blocked in
  `request_memory_block` gets no block, because the kernel hands none over.
* **Syscalls** opens the stubs: every assignment to a global, every trap and every read of
  a result is a step, kept in `todo` as what is left of the stub, and an interrupt may come
  between any two of them while an ordinary process runs.  A trap executes what the
  globals say, not what the caller meant; the call that was meant is kept with the trap, so
  that properties can compare the two, and `fate` remembers what the kernel answered.  The
  programs are the real ones on the way of a key (UART, KCD, CRT and back) and of a
  process that registers a command.  A behaviour ends (`kernel.hung`) where the model of the
  data ends: when NULL is used as a message, or a block is linked that is linked already.
  The timer i-process calls `kernel_receive_message` directly and clears `msg_return`, a
  global of the receive loop, at every tick (`timer_i_process.c:37`).
* **DelayedSend** keeps the arithmetic that `Kernel` leaves out.  Both routines run
  masked, so each is a step.
* **Console** takes the opposite cut: the kernel is reduced to what its callers
  expect of it, any process may run next, and the state of the four
  processes is exact.  A step is one primitive with the local computation in front
  of it; `todo` holds the calls that follow for the message at hand, and `hold` the
  blocks behind each pointer variable, so that a use of a block that was given away
  is visible although C does not notice.  The arguments of a command are one key
  each; the CRT displays a whole message in one step and loses the blocks that the
  code loses (`crt_process.c:84` and `:113`).  Times and priorities that the code refuses, or
  accepts although they are out of range, are lines like all others; a block that is requested
  may hold what an earlier user left in it (`Stale`), which an empty command executes again.
* **Stress** has the same cut.  C1 and C2 differ as their files do: C1 requests a
  block `q` that it never uses, C2 does not release its twentieth report.  Decoder and display are there
  only for the blocks: the display drops one at every line end that it is sent, by C1 or behind a
  command.  A command whose letter nobody registered may reach any A process, but no B or C process; with
  that, every message in the outer loop of a C process is a report, and the branch for others
  (`process_c1.c:32`, `process_c2.c:31`) is left out.

## 3. The runs

Runs that pass:

| Run | Instance | What it shows |
|---|---|---|
| `linked_queue` | 4 elements, any uninitialised `next`, with fairness of the loop; 61,497 states | `ListShape`, `WalkStaysLinked`, the FIFO refinement, and that every removal returns |
| `queue_priority` | 4 processes (symmetric), priorities 0, 1, 3 | lists hold exactly what was linked, the index is exact, no loop hangs, one FIFO per priority is implemented, as long as no tail of a longer list is moved |
| `kernel_boot` | the 7 kinds of process of the running system, 2 blocks (symmetric); 1,262,288 states | no lost wakeup, exact index, processes in one place, the kernel never hangs, i-processes never wait and lose the processor only at the release that wakes a more urgent process, the hotkeys' walks end but on a list that begins with a self-linked i-process; nothing changes a priority here |
| `kernel_prio` | 6 processes, 1 block, `%C` commands that raise and lower a process and an i-process; 2,280,966 states | what survives priority changes: types, no lost wakeup, blocks in one place |
| `kernel_fair` | 7 processes, 1 block; 120,014 states | round robin at the most urgent priority, and that interrupts end |
| `delayed_send` | 3 messages, delays 1 to 5; 1,375,483 states | delays stay in range, shorter ones first, lateness bounded by a function of the delay alone, earliness by the ticks counted when the message was handed over |
| `console` | any of 32 pairs of lines, one that sets something up and one that uses it, with commands right, refused, too long and empty; 7 blocks, 3 characters in a command, one tick; 3,735,965 states | one command for each finished line, its keys over what its block held before and sent to the process that registered it; a tick always on its way and never more chains of ticks than accepted commands that reached the clock; only own blocks used but for one known exception; a tick is one second |
| `syscalls` | 6 processes, 2 blocks (symmetric), 3 interrupts anywhere; 1,796,657 states | calls of i-processes and of processes not interrupted are executed as made and answered as due; no wakeup is lost whatever is spoilt |
| `stress` | A1, A2, B1, B2, C1, C2, 9 blocks, 3 reports each, hibernation at every second, 2 commands; 235,866 states | reports in order, none lost or doubled; only own blocks used; every block accounted for; every report is taken up unless the pool is dry for good |

Runs that are expected to be violated, each a disagreement between the code and a
sentence of its documentation (`findings` in `PROJECT.json` quotes both):

| Run | Sentence | What the code does |
|---|---|---|
| `queue_remove_tail` | `primitives.c:312`, the process is removed from its queue | taking out the tail of a longer list leaves the PCB in front pointing at it (`queue.c:322`) |
| `kernel_send` | SDD 3.1, the sender is preempted for a more urgent receiver | the comparison at `primitives.c:100` is the other way round |
| `syscalls_receive` | SDD 3.2, receive returns a message or blocks | an interrupt in front of the trap leaves `RELEASE_PROCESSOR` in `kernel_code` and 1 in `msg_return`: the stub returns NULL without having received or waited |

The properties that hold describe exactly how far the code is from the SDD in these further
points:

* SDD 3.4, a released block is given to the waiting process: the process is made ready,
  the block stays free (`trap_request_memory_block` and `RequestBlocks` hand nothing
  over), and the stub of the woken process returns whatever `ret_code` holds then.  `fate.waited`
  marks these results, which `UninterruptedCallIsOwn` has to exempt.
* SDD 4.2, i-processes have priority 0 and are not preempted: they have priority LOW,
  and `IProcessKeepsProcessor` names the one case in which they lose the processor.
* SDD 3.6, a message is sent after its delay: `EarlyByTicksCounted` says by how much it may be
  early.
* The hotkey that prints the ready queue does not return while the list of a priority begins with an
  i-process that is linked to itself and is not the tail (`knotted_on_head`).  That ends
  when the i-process at the tail, run by an interrupt, links itself in at the head; all other walks end
  (`HotkeyWalksEnd`).
* A command is sent as the whole block, without its length: a line that is shorter than the earlier contents is
  completed by them, and an empty one (`%` and return) repeats an earlier command, which is executed
  although nobody typed it (`CommandsTypedOverStale` says exactly what is sent); every accepted `%WS` starts a further chain of ticks, so the clock may run at twice
  its speed (`TickOnItsWay` counts the typed and the repeated ones); 10:20:75 is accepted (`TickIsOneSecond`); a second
  refused `%C` command writes into a block that was sent away (`UsesOnlyItsOwn`).
* C1 requests a block it never uses before it hibernates, C2 does not release a twentieth report, and
  every A process drops its first block: `BlocksAccountedFor` counts these losses and shows
  that there is no other; when they have dried up the pool all stop (`ReportsHandled`).

### Bounds, and why they are enough

* Queues: four elements have every position that the code tells apart (head,
  tail, in front of the tail, in the middle).  The proofs lift the bound for `LinkedQueue`
  and for `PriorityQueue`.
* Kernel: one process of each kind is what the code distinguishes: null,
  spinning task, KCD, an ordinary process at the same priority, one of
  priority HIGH, the two i-processes.  Two blocks are enough for a full pool, for
  a mailbox of two, and for a block being sent while another is released.  `kernel_prio`
  needs only one block, as its subject is the lists.  The theorems lift these bounds for
  types, wakeups, blocks and the index, and for every other safety property of `kernel_boot` in all systems that are `AsBooted`.
* At the priorities of `init.c` no program sends to a waiting process that is less
  urgent than itself (only the registrations go from HIGH to MEDIUM, and the KCD
  has not run yet then), and the spinning tasks never let an i-process that was
  preempted be dispatched as an ordinary one.  `MCKernel` has the same `Sends` and the
  same spinning process.  Where that is not so, `ProcessInOnePlace` does
  not hold: `kernel_prio` goes there.
* Three interrupts in `syscalls` are one that spoils a call, one that spoils the
  repair, and one of the other kind; the theorems about the stubs lift this bound.  Two
  blocks are enough for the pool to be empty while a process waits for memory.
* `MaxDelay` (5) bounds the delays; `timer_count` is capped just above it, where
  all counts behave alike.  The proofs lift this bound and the number of messages.
* `MaxLines` (1), `MaxTicks` (1) and `MaxAhead` (2) bound the user, the clock
  and how far the user types ahead of the display; what is typed is a pair of lines, which is the
  least at which a command can be spoilt by what an earlier one left behind: old index, old
  flag, old contents of the block, old pointer.  `MAX_COMMAND_SIZE` is 3 instead of 32, with a
  line that is longer.  The seven blocks (256 in the code) may all be used up, in which
  case the run includes lost keys and processes that stop for good.
* `TWENTY` is 2 in `stress`, so that every C process hibernates, wakes and hibernates
  again within three reports; nine blocks let the losses dry up the pool at every point, and also let all
  reports of either pipeline through on other paths.

Deadlock is not checked in four runs, where the system may really stop: in `kernel_prio` the
kernel may hang on a broken list, in `syscalls` a spoilt call may end the behaviour, and in `console` and
`stress` the bounds may be reached or the pool be dry.

### Fairness

`FairSpec` of `Kernel` assumes that the timer interrupts again and again while interrupts are
enabled (`init.c:56-85` sets the timer to restart), and that an i-process that is current takes
its next step, since it runs with interrupts masked and nothing else can run.  Both are weak
fairness, written out as `[]<>~enabled \/ []<><<A>>_vars` because TLC evaluates
`ENABLED` of these actions slowly.  Nothing at all is assumed of the ordinary
programs: `TopProcessRuns` holds against programs that loop for ever without a call.
No fairness is assumed of the UART.  `LinkedQueue` assumes weak fairness of
the loop of the removal, which runs masked.  `Stress` assumes weak fairness of the system as a
whole (some process that can take a step does; the kernel always runs somebody) and of no process in
particular; as all behaviours of the bounded instance end, this makes them run to their end.
`ReportsHandled` holds unless the pool stays empty from some moment on.

### Mutants

Every property of every passing run has a mutant in `PROJECT.json`: a variant of a
definition (its name is that of the definition with a suffix), with a plausible bug
in that code, under which TLC finds the property violated.

## 4. What is proved

TLAPS proves, for every value of the constants:

| Theorem | Statement |
|---|---|
| `LinkedQueueProofs!PointersTyped` | `Spec => []TypeOK` |
| `LinkedQueueProofs!ShapeHolds` | `Spec => [](TypeOK /\ ListShape /\ WalkStaysLinked)` |
| `LinkedQueueProofs!WalkStaysOnTheList` | `Spec => []WalkStaysLinked`: the loop of the removal dereferences no null pointer |
| `LinkedQueueProofs!QueueImplementsFifo` | `Spec => ImplementsFifo`, the abstract FIFO queue |
| `PriorityQueueProofs!ListsHold` | `Spec => []ListsHoldTheLinked` if no tail of a longer list is moved: six simple lists that hold each linked process once |
| `PriorityQueueProofs!HighestPrioHolds` | `Spec => []HighestPrioExact`, same hypothesis |
| `PriorityQueueProofs!CallsReturn` | `Spec => []NeverHangs`, same hypothesis: every loop of `queue.c` on these queues ends |
| `PriorityQueueProofs!QueueImplementsPriorityFifo` | `Spec => ImplementsPriorityFifo`, same hypothesis: one abstract FIFO per priority |
| `KernelProofs!KernelTyped` | `Spec => []TypeOK`; no null pointer is ever made current, `highest_prio` stays in 0..6 |
| `KernelProofs!NoWakeupIsLost` | `Spec => []NoLostWakeup`, priority changes included |
| `KernelProofs!HighestPrioStaysExact` | `Spec => []HighestPrioExact` if no program changes priorities |
| `KernelProofs!BlocksStayInOnePlace` | `Spec => []BlocksInOnePlace`, priority changes included |
| `KernelProofs!EveryProcessInOnePlace` | `Spec => []ProcessInOnePlace` for a system `AsBooted`: every ordinary process is current, or linked once, where its state says |
| `KernelProofs!KernelNeverHangs` | `Spec => []NeverHangs`, same hypothesis: no loop over a list runs for ever, no null PCB is dispatched |
| `KernelProofs!IProcessesNeverWait` | `Spec => []IProcessNeverWaits`, same hypothesis |
| `KernelProofs!AllHotkeyWalksEnd` | `Spec => []HotkeyWalksEnd`, same hypothesis: the walks that print the queues end, but on a list that begins with an i-process linked to itself that is not the tail |
| `KernelProofs!IProcessesKeepProcessor` | `Spec => IProcessKeepsProcessor`, an action property, same hypothesis |
| `SyscallsProofs!NoWakeupIsLostByTraps` | `Spec => []NoLostWakeup` of `Syscalls`: no wakeup is lost whatever calls are executed by mistake |
| `SyscallsProofs!UninterruptedCallsAreOwn` | `Spec => []UninterruptedCallIsOwn`: only an interrupt or a wait can spoil a call |
| `SyscallsProofs!IProcessesCallTheirOwn` | `Spec => []IProcessCallsItsOwn`: the i-processes' calls are never spoilt |
| `DelayedSendProofs!DelaysTyped` | `Spec => []TypeOK`: no stored delay underflows, no message is queued twice |
| `DelayedSendProofs!ShorterDelaysAreFirst` | `Spec => []ShorterDelayFirst` |
| `DelayedSendProofs!LatenessIsBounded` | `Spec => []NeverVeryLate`: less than `d(d+1)/2` ticks late for a delay of `d` |
| `DelayedSendProofs!EarlinessIsBounded` | `Spec => EarlyByTicksCounted`, an action property |
| `ConsoleProofs!ConsoleTyped` | `Spec => []TypeOK`: the index stays inside a command, the blocks add up |
| `ConsoleProofs!CommandsAreTypedOverStale` | `Spec => []CommandsTypedOverStale`: one command per finished line, with the line's keys over the old contents of the block, to its own process once that has registered |
| `ConsoleProofs!TicksAreOnTheirWay` | `Spec => []TickOnItsWay` |
| `ConsoleProofs!BlocksAreTheirOwn` | `Spec => []UsesOnlyItsOwn` |
| `ConsoleProofs!TicksAreSeconds` | `Spec => TickIsOneSecond`, an action property |
| `StressProofs!ProcessesAtWork` | `Spec => []Inv`: where every process is, who is woken, how far the reports are |
| `StressProofs!PipelineStaysInOrder` | `Spec => []PipelineInOrder` |
| `StressProofs!BlocksAreOwn` | `Spec => []UsesOnlyItsOwn` of `Stress` |
| `StressProofs!AllBlocksAccountedFor` | `Spec => []BlocksAccountedFor`: no block is lost but those the code is known to lose |

The assumptions are those the modules name: `NULLAssumption` (the null pointer is
no element), `PidsAssumption` (finitely many processes, the null pointer is
none), `SchedulerAssumption`, `KernelAssumption` and `SyscallsAssumption` (the types of the
constants: boot order, priorities, programs), `PriorityAssumption` (one of the two queues, and
priorities inside the table), `DelayAssumption` (delays are positive numbers),
`ConsoleAssumption` (lines are sequences of keys, times are triples of integers, what a block may hold has
all cells, a command has more than two) and `StressAssumption` (the A, B and C processes, the decoder and
the display are different processes, finitely many; each A process has a B process and each B process a
C process to send to).  TLC evaluates them in every run.

The last five theorems of `KernelProofs` have one hypothesis, `AsBooted`, which says in what respects the
programs and priorities are those of `init.c`: no priority is changed; every ordinary process is linked
in once, at another priority than the i-processes; one of them never waits (the programs of
`task.c`, which only give up the processor) and is more urgent than the i-processes; no process
sends to a less urgent ordinary one.  The only such sends of the code are the
registrations of commands, from HIGH to MEDIUM; they are made before the KCD first runs, wake nobody, and are not in `Sends`.
`MCKernelAssumption` makes TLC check that the instance of `kernel_boot` satisfies `AsBooted`.
Each part is needed: `kernel_prio` changes priorities, and there these properties fail.

**LinkedQueue.**  The invariant is `TypeOK /\ ListShape /\ WalkStaysLinked`, which is
inductive: the walk needs the shape to know that the element before the tail is
ahead of it, and the shape after the removal needs the walk to stand there.
The refinement maps `contents` to the history `order`, and follows step by
step: turns of the loop stutter, `dequeueFIFO_unlink` is the abstract removal.

**PriorityQueue.**  The invariant is `Holds(s, level)`: for each of the six lists there is a
sequence without repetition, and the head, the tail and the next pointers are those of that
sequence (`ListIs`), its processes have the priority of the list, and the index is exact.  The
sequences are the history variable `level`, which is also the refinement mapping, so the
invariant is what makes every operation on pointers an operation on sequences.
`SchedulerProofs` has what one list needs: linking in, taking the tail, the middle and the head out
(`ListEnqueued`, `ListTailTaken`, ...), and that a walk from the head is at the i-th oldest
process after that many turns (`WalkMeets`), so the loops stop where they should
(`DequeueOnList`).  Walks are recursive functions; what they compute is
shown without induction, by a least turn at which they would be somewhere else.  The
theorems have the hypothesis `~MoveTails`: with it, a priority change takes out a head or a
process in the middle; without it they are false, as the run `queue_remove_tail` shows.

**DelayedSend.**  All properties are about sums of relative delays.  The invariant `Inv` claims
that a function `left` of prefix sums exists, which avoids a recursive definition that no prover
could unfold: `left[i]` are the ticks stored up to entry `i`.  `InStep` says that what a
message was to wait less what is left is the same for all messages handed over in the same tick, which
gives the order and the types (no subtraction goes below 0); `Early` compares it with the
count when the message was handed over.  Lateness needs a potential: `Most(d) = d*d + 3*d - 2` is
twice what a stored delay of `d` can still cost.  A new entry in front splits an
entry `a + b` in two and makes the timer give up the ticks it has counted, at most `a + b`, and
`Most(a + b) >= Most(a) + Most(b) + 2*(a + b)` (`MostSplit`), so the sum over all entries, `most`,
pays for every reset (`Late`).  `LinkSums` and `DropSums` say what linking in and sending do to the
two sums.  The place where a message goes is found by `passed`, whose sums are a recursive function
(`ticks_before`), tied to `left` by a least place at which they differ.

**Kernel.**  The lists of the i-processes do get broken, even without priority
changes (an i-process is linked in by its `release_processor` and never
unlinked), so an invariant that is to hold for all programs and priorities may not speak of
the shape of lists.  The proof of the first three theorems uses
`Safe`, which holds of broken lists too: the types of all state, and that a process in MESSAGE_WAIT
has an empty mailbox.  The primitives are compositions of
functions on the record `kernel`; a lemma per function summarises it by
`Reaches(k, e, W)`: `e` is typed, its index is exact if that of `k` is, and at most
the processes in `W` have begun to wait for a message.  Lemmas about `enqueue`,
`dequeue` and `remove` on one list carry the rest: a dequeue either hangs, or
returns a PCB and moves the index to the first list in use (`FirstNotEmpty`).
`Reaches` is transitive, so a primitive needs one line per call.  A step
then keeps `NoLostWakeup` because those it makes wait have no message
(`ReceiveBlocks` tests that, in the same masked section), and those it sends to are
woken (`wake_receiver`, on each of its paths).  `AtOK` adds where the i-processes are.
`Exact` needs the hypothesis: the `remove` of `set_process_priority` is
where the argument ends.
These lemmas are in `SchedulerProofs` and carry `Syscalls` as well.

**Blocks.**  `BlocksInOnePlace` counts a set of places; the invariant `Conserved`
says the same with one predicate per kind of place: every block is somewhere, no
two kinds hold together, and no kind holds twice.  It needs the types of `Safe`
(for the mailboxes to be sequences) and nothing of the scheduler, so broken lists
do not matter.  There is a lemma for each way a block moves (`SendMoves`,
`ReceiveMoves`, `RequestMoves`, `ReleaseMoves`, `DelayedSendMoves`, `ExpireMoves`),
and all other steps move none.

**Places.**  For the system as it boots the shape of the lists is known.  The invariant `InPlace` adds
to `Safe` and `AtOK` that there is an assignment `on` of ordinary processes to the two
queues with `Arranged` and `Fits`.  `Arranged` is about pointers: each list of a priority of
ordinary processes is the simple list of exactly the processes `on` puts there
(`HasExactly`, by `ListIs`), and a list of i-processes is `Knotted`: empty, or its
head is its tail, points at its tail, or points at itself.  That is as
broken as it gets, and the hotkeys' walks show what comes of it.  `Fits` is about states: the state of
an ordinary process names its queue, `in_i_process` is set exactly while an i-process is current, and
neither an i-process nor a process that never waits does wait.  Why are the knots harmless?  Because
the process that never waits is always current or linked in ahead of them, so a list of
i-processes is never the first in use when `process_switch` takes from it (`Dispatchable`).
There is a lemma per primitive (`WakeReceiverPlaced`, `WaitForMessagePlaced`,
`WaitForMemoryPlaced`, `WakeMemoryWaiterPlaced`, `SwitchPlaced`, `EnterIProcessPlaced`).  The lists that
`init.c` builds are the boot order restricted to a priority; such a sequence exists without induction as the
increasing enumeration of a finite set of places in it (`Enumeration`, `BootList`).  That the walk of a
hotkey meets the whole list and stops is shown by a least turn at which it would not (`WalkFollows`).

**Stubs.**  `NoWakeupIsLostByTraps` uses `Safe` again, with the same lemmas: that the send which
wakes, the receive which blocks and the switch are whole steps is enough, whatever arguments
they got.  For the two theorems about calls the invariant is `Calling`.
It says of every process which form its unfinished stub has and what the globals hold
for it: what the stub has assigned already; `NULL` in `ret_code_recv` from its second
assignment on, for a receive that finds nothing; after the trap the kernel's answer.  It claims this of the current
process only: every other one is `Careless`, that is interrupted, outside its stubs, or made to wait, and
then its form says nothing about globals (`CarelessKeeps`), so no step of another process can
falsify it (`CallerStep`).  A process becomes careless exactly when it loses the processor,
which is why the proof needs nothing of the lists.  Each step of a stub has a lemma.

**Console.**  The invariant `ConsoleInv` has five parts.  `Typed` gives each process the few forms
its remaining calls can have (`KCDForm`, `WCForm`, `PRIOForm`), with the pointers it has at each of
them; that a tail of a form is a form again is what makes `UsesOnlyItsOwn` inductive.  `Accounted`
adds up the blocks: those free, delayed, in a mailbox or behind a pointer are never more than there
are (fewer, since some are lost).  `Begun` says that behind what was typed the block of
the command is still what it was when requested.  `Served` counts, for the clock and for
the set priority process, those of the commands sent to it that ask for a tick or are refused: what is
still in its mailbox or about to be sent to it, and what it has handled, is never more.  A tick is worth as much
delayed, in the mailbox and in `todo`, so chains of ticks cannot multiply, and the second
refused `%C` cannot come before there were two.  `Awake` says that a clock that is on has a tick somewhere.
For `CommandsTypedOverStale` there is `Decoding` on top of it: a line is open exactly
while the flag is set, and the first `i` cells of the block are that line from its first `%` on, as far
as it fits, and the others are still those of the requested block (`Copying`, `Begun`).  A key more leaves
the finished lines (`EndsGrow`, `CommandsStay`) or finishes one (`CommandsGrow`), and then what was copied is
what the line asks for (`CopyIsCommand`, `CommandWritten`).  `Registry` follows who may have registered a
character: the registrations on their way and the table only ever name the clock for `W`, the set
priority process for `C`, or the decoder, which a block that it sent to itself may tell to register itself.
The finished lines are numbered by counting those before them (`Rank`), which needs no
recursion and so no induction.

**Stress.**  The invariant `Inv` has four parts.  `Typed` says who may find which messages in
its mailbox.  `AtWork` gives every process the few places of its program (`at_a`, `at_b`, `at_c1`,
`at_c2`): the calls it still makes, the pointers it has to blocks, and what it knows there, for
instance that C2 in front of its `delayed_send` has a twentieth report in `p`.  It is what
`UsesOnlyItsOwn` needs, because every call gives away what the next places no longer have.
`WakesOnce` says that a C process that hibernates has one WAKEUP10, delayed or in its
mailbox, and any other has none: so the outer loop of a C process never takes a wakeup for a
report.  `Stages` cuts the reports of an A process at four numbers, between what was taken up, the
local queue, the mailbox of C, the hands of B and its mailbox, each piece in order; a step
moves one of the cuts by one.  This needs that the local queue is empty when C goes to its
mailbox, and that a report reaches the local queue only while C hibernates.  `PipelineInOrder`, which speaks of one
long queue, follows by concatenation (`OrderedConcat`).
`BlocksAccountedFor` is inductive given `Inv`.  `Moved` and `Lost` say by how much a step changes each
term of the sum, and `Balance` that the changes cancel.  `live` is what a process has in hand at a
place of its program without the blocks that are lost already; so a block counts as lost from the moment
nobody can give it back, which for the line end of C1's text is while the text is still on its way
to the display (`Asked`, `ShownCount`).

## 5. What is only model-checked

* Liveness (`TopProcessRuns`, `InterruptEnds`, `WalkTerminates`, `ReportsHandled`): TLAPS has no rule for
  fairness and ENABLED here.
* The abstractions themselves: that no process sends to a waiting process less urgent than itself, which
  `AsBooted` demands, was read from the programs and is not derived from a model of them.
* What a recursive definition computes on every input: induction over data is out of
  reach of the installed provers.  No module declares a RECURSIVE operator; walks over lists are
  expressed by the set of turns at which they may stop, and where a proof needs the value of a
  recursive function it takes the least argument at which that is another one.

## 6. The plan

Done in this order: `LinkedQueue`, `PCBQueues`/`PriorityQueue`, `Kernel`, `DelayedSend`,
`Console`; then `Scheduler` split out of `Kernel`, `Syscalls` on top of it, the
refused and out-of-range commands in `Console`, `Stress`, the walks of the hotkeys, and the
proofs about the stubs; then the proofs about `PriorityQueue`, its refinement, `DelayedSend`, and the
remaining safety properties of `Kernel` for the programs and priorities of boot; then all of
`Console`, and the safety properties of `Stress`.  Next:

1. The stubs of `delayed_send` and of the two priority calls in `Syscalls`.  (Of the latter,
   `set_process_priority` returns `ret_code_get_prio`, which the kernel does not set for
   it (`swi.c:137`); its only caller drops the result.)
2. What the hotkeys print, with the blocks they request (`uart_i_process.c:18`).
3. An abstract round-robin scheduler, refined by `Kernel` with the programs and priorities of boot.

## 7. What is not modelled

* `string.c`, `stdio.c`, `libc.c`: pure functions, and polled output to the debug port.
* `arch.h` but for `TRAP0`, `start.s`, the linker script: saving registers, masking interrupts,
  the stack.  The models rely on what they provide.
* `init_irene.c`, `init_standard.c`, `oldinit.c` and other boot files the
  Makefile does not build; evaluation processes that exist as object files only.
* The branch of the timer i-process that moves requests from its mailbox: nobody sends to it.
* `searchDequeue`, `search` and `searchDequeueMessage`: never called.
* `get_process_priority`: changes nothing.
* What lies beyond the model's data: writes through NULL and through an index outside the
  table of lists (`uart_i_process.c:18`, `set_priority_process.c:75`), and what a program
  does with a block it got by mistake.  The behaviours end there, or never get there
  because the inputs leave such commands out; `hazards` in `PROJECT.json` says so at each.

## 8. Running it

    tlc -config MCKernelBoot.cfg MCKernel      # one run; PROJECT.json lists them
    tlapm KernelProofs.tla                     # one module's proofs; also the other *Proofs
