------------------------------- MODULE Stress -------------------------------
(* The stress processes (process/process_a1.c to process_c2.c): A processes    *)
(* that number reports, B processes that pass them on, and C processes that    *)
(* count them and hibernate at every twentieth, putting the reports that come  *)
(* in meanwhile on a local queue.                                              *)
(*                                                                             *)
(* As in module Console a step is one primitive with the local computation in  *)
(* front of it, todo holds the calls a process still makes, the primitives do  *)
(* what their callers expect of them, and the processes interleave in any      *)
(* order (so release_processor is no step).  The keyboard decoder and the      *)
(* display are here only as far as they take and lose blocks.                  *)
EXTENDS Integers, Sequences, FiniteSets

CONSTANTS
    NUM_MEM_BLOCKS,
    C1, C2,             \* the two C processes, which differ
    B,                  \* the processes that pass reports on ...
    to_c,               \* ... and the C process each one passes them to
    A,                  \* the processes that make reports ...
    to_b,               \* ... and the B process each one sends them to
    TWENTY,             \* a C process hibernates at the multiples of it
    MaxReports,         \* bound: the reports of every A process
    MaxCommands         \* bound: the commands typed

C == {C1, C2}
Processes == A \cup B \cup C
Pids == Processes \cup {"KCD", "CRT"}

ASSUME StressAssumption ==
    /\ NUM_MEM_BLOCKS \in Nat /\ TWENTY \in Nat \ {0} /\ MaxCommands \in Nat
    /\ to_c \in [B -> C] /\ to_b \in [A -> B] /\ MaxReports \in [A -> Nat]
    /\ IsFiniteSet(A) /\ IsFiniteSet(B)
    /\ C1 # C2 /\ A \cap B = {} /\ (A \cup B) \cap C = {}
    /\ "KCD" \notin Processes /\ "CRT" \notin Processes

VARIABLES
    free,           \* how many blocks are free
    mailbox,        \* the messages in the mailbox of every process, oldest first
    local,          \* the local queue of every C process
    delayed,        \* the processes to which a WAKEUP10 is in the delayed send queue
    hold,           \* the messages every process has, by the pointer to them, as
                    \* in Console
    todo,           \* the primitives a process still calls
    started,        \* the A processes that received their command
    num,            \* the number of the next report of every A process
    hibernates,     \* the C processes that wait for their WAKEUP10
    handled,        \* history: the reports every C process took up
    commands        \* counted for the bound

vars == <<free, mailbox, local, delayed, hold, todo, started, num, hibernates,
          handled, commands>>
-----------------------------------------------------------------------------
report(a, n) == [type |-> "COUNT_REPORT", source |-> a, num |-> n]
wakeup10 == [type |-> "WAKEUP10"]
registration == [type |-> "COMMAND_REGISTRATION"]
Blank == [type |-> "NONE"]

\* A text for the display, by its number of carriage returns.
text(n) == [type |-> "CRT_DISPLAY", returns |-> n]

request(w) == [op |-> "request", what |-> w]
release(w) == [op |-> "release", what |-> w]
delayed_send(w) == [op |-> "delayed_send", what |-> w]
send(w, d, m) == [op |-> "send", what |-> w, to |-> d, as |-> m]

uart_print_string(n) == <<request("string"), send("string", "CRT", text(n))>>
register_command == <<request("command"), send("command", "KCD", registration)>>

Init ==
    /\ free = NUM_MEM_BLOCKS
    /\ mailbox = [p \in Pids |-> << >>]
    /\ local = [c \in C |-> << >>]
    /\ delayed = {} /\ started = {} /\ hibernates = {}
    /\ hold = [p \in Processes |-> << >>]
    /\ todo = [p \in Processes |-> IF p \in A THEN <<request("p")>> \o register_command
                                   ELSE IF p = C2 THEN <<request("q")>>
                                   ELSE << >>]
    /\ num = [a \in A |-> 0]
    /\ handled = [c \in C |-> << >>]
    /\ commands = 0
-----------------------------------------------------------------------------
(* The primitives, as process p makes its next call.  A block whose pointer is *)
(* overwritten is lost.                                                        *)

Calls(p, op) == todo[p] # << >> /\ Head(todo[p]).op = op
Called(p) ==
    /\ todo' = [todo EXCEPT ![p] = Tail(@)]
    /\ UNCHANGED <<local, started, num, hibernates, handled, commands>>
pointer(p) == Head(todo[p]).what
Owns(p) == pointer(p) \in DOMAIN hold[p]
without(f, w) == [x \in DOMAIN f \ {w} |-> f[x]]
with(f, w, m) == [x \in DOMAIN f \cup {w} |-> IF x = w THEN m ELSE f[x]]
GivenAway(p) == hold' = [hold EXCEPT ![p] = without(@, pointer(p))]

Request(p) ==
    /\ Calls(p, "request") /\ free > 0
    /\ free' = free - 1
    /\ hold' = [hold EXCEPT ![p] = with(@, pointer(p), Blank)]
    /\ Called(p)
    /\ UNCHANGED <<mailbox, delayed>>

Send(p) ==
    /\ Calls(p, "send") /\ Owns(p)
    /\ mailbox' = [mailbox EXCEPT ![Head(todo[p]).to] = Append(@, Head(todo[p]).as)]
    /\ GivenAway(p) /\ Called(p)
    /\ UNCHANGED <<free, delayed>>

\* A C process sends a WAKEUP10 to itself.
DelayedSend(p) ==
    /\ Calls(p, "delayed_send") /\ Owns(p)
    /\ delayed' = delayed \cup {p}
    /\ GivenAway(p) /\ Called(p)
    /\ UNCHANGED <<free, mailbox>>

Release(p) ==
    /\ Calls(p, "release") /\ Owns(p)
    /\ free' = free + 1
    /\ GivenAway(p) /\ Called(p)
    /\ UNCHANGED <<mailbox, delayed>>

\* receive_message into the pointer w, by a process that has made its calls.
idle(p) == todo[p] = << >>
has_message(p) == idle(p) /\ mailbox[p] # << >>
received(p) == Head(mailbox[p])
take(p) == mailbox' = [mailbox EXCEPT ![p] = Tail(@)]
holds(p, w, m) == hold' = [hold EXCEPT ![p] = with(@, w, m)]
does(p, calls) == todo' = [todo EXCEPT ![p] = calls]
-----------------------------------------------------------------------------
(* process_a1, process_a2, process_a3.                                         *)

\* Every message is released; the loop ends at the command of the process.
a_command(a) ==
    /\ a \notin started /\ has_message(a)
    /\ started' = IF received(a).own THEN started \cup {a} ELSE started
    /\ take(a) /\ holds(a, "p", received(a)) /\ does(a, <<release("p")>>)
    /\ UNCHANGED <<free, local, delayed, num, hibernates, handled, commands>>

a_report(a) ==
    /\ a \in started /\ idle(a) /\ num[a] < MaxReports[a]
    /\ num' = [num EXCEPT ![a] = @ + 1]
    /\ does(a, <<request("p"), send("p", to_b[a], report(a, num[a]))>>)
    /\ UNCHANGED <<free, mailbox, local, delayed, hold, started, hibernates, handled, commands>>

(* process_b1, process_b2.                                                     *)

process_b(b) ==
    /\ has_message(b)
    /\ take(b) /\ holds(b, "mymess", received(b))
    /\ does(b, <<send("mymess", to_c[b], received(b))>>)
    /\ UNCHANGED <<free, local, delayed, started, num, hibernates, handled, commands>>

(* process_c1, process_c2.                                                     *)

\* Variant for mutation: the mailbox before the local queue.
next_report_MailboxFirst(c) ==
    \/ /\ mailbox[c] # << >> /\ take(c) /\ UNCHANGED local
    \/ /\ mailbox[c] = << >> /\ local[c] # << >>
       /\ local' = [local EXCEPT ![c] = Tail(@)] /\ UNCHANGED mailbox

\* Where the next message comes from.
next_report(c) ==
    \/ /\ local[c] # << >>
       /\ local' = [local EXCEPT ![c] = Tail(@)] /\ UNCHANGED mailbox
    \/ local[c] = << >> /\ mailbox[c] # << >> /\ take(c) /\ UNCHANGED local

\* The message that next_report took.
taken(c) == IF local'[c] # local[c] THEN Head(local[c]) ELSE Head(mailbox[c])

\* Variants for mutation: nothing is sent to wake a C process up; an ordinary report
\* is not released.
twentieth_NotDelayed(c) ==
    IF c = C1 THEN <<request("q")>> \o uart_print_string(1) ELSE uart_print_string(0)
ordinary_Kept == << >>

\* What a C process does at a multiple of twenty.  C1 requests a block it never
\* uses and waits with the report itself, C2 with the block it has in q.
twentieth(c) ==
    IF c = C1 THEN <<request("q")>> \o uart_print_string(1) \o <<delayed_send("p")>>
    ELSE uart_print_string(0) \o <<delayed_send("q")>>
ordinary == <<release("p")>>

\* The outer loop takes a message; it can only be a report, because an A process sends
\* nothing else and a wakeup comes only to a process that hibernates.
c_report(c) ==
    /\ idle(c) /\ c \notin hibernates
    /\ next_report(c)
    /\ LET m == taken(c)
           twenty == m.num % TWENTY = 0
       IN  /\ holds(c, "p", m)
           /\ handled' = [handled EXCEPT ![c] = Append(@, m)]
           /\ hibernates' = IF twenty THEN hibernates \cup {c} ELSE hibernates
           /\ does(c, IF twenty THEN twentieth(c) ELSE ordinary)
    /\ UNCHANGED <<free, delayed, started, num, commands>>

\* Variant for mutation: C2 takes its WAKEUP10 into p, as C1 does.
wakeup_pointer_P(c) == "p"

\* The pointer of the receive in the inner loop.
wakeup_pointer(c) == IF c = C1 THEN "p" ELSE "q"

\* The inner loop.  C1 releases the message that woke it, C2 keeps it for the
\* next time, and its report, which is not released any more, is lost.
c_meanwhile(c) ==
    /\ has_message(c) /\ c \in hibernates /\ take(c)
    /\ IF received(c).type = "WAKEUP10"
       THEN /\ hibernates' = hibernates \ {c}
            /\ holds(c, wakeup_pointer(c), received(c))
            /\ does(c, IF c = C1 THEN <<release("p")>> ELSE << >>)
            /\ UNCHANGED local
       ELSE /\ local' = [local EXCEPT ![c] = Append(@, received(c))]
            /\ UNCHANGED <<hibernates, hold, todo>>
    /\ UNCHANGED <<free, delayed, started, num, handled, commands>>
-----------------------------------------------------------------------------
(* The timer, the keyboard decoder and the display.                            *)

others == <<local, hold, todo, started, num, hibernates, handled>>

timer_expire(c) ==
    /\ c \in delayed /\ delayed' = delayed \ {c}
    /\ mailbox' = [mailbox EXCEPT ![c] = Append(@, wakeup10)]
    /\ UNCHANGED <<free, others, commands>>

\* The decoder passes every message on to the display.
kcd_process ==
    /\ mailbox["KCD"] # << >>
    /\ mailbox' = [mailbox EXCEPT !["KCD"] = Tail(@), !["CRT"] = Append(@, text(0))]
    /\ UNCHANGED <<free, delayed, others, commands>>

\* A command is typed.  Its keys go on to the display, each in the block it came in:
\* all but the line end are written and released, which leaves the pool as it was
\* and is left out.  The command itself goes to its own process, before or after that
\* one has started, or, as the table of the decoder is not initialised, to one that
\* waits for another letter.  (That such a command may reach a B or C process, or
\* none, is left out.)
command(a, own) ==
    /\ commands < MaxCommands /\ commands' = commands + 1
    /\ free > 1 /\ free' = free - 2
    /\ mailbox' = [mailbox EXCEPT ![a] = Append(@, [type |-> "COMMAND", own |-> own]),
                                  !["CRT"] = Append(@, text(1))]
    /\ UNCHANGED <<delayed, others>>

\* As in Console: for every carriage return a block is requested and lost.
crt_process ==
    /\ mailbox["CRT"] # << >>
    /\ LET n == Head(mailbox["CRT"]).returns
       IN  free > n /\ free' = free - n + 1
    /\ mailbox' = [mailbox EXCEPT !["CRT"] = Tail(@)]
    /\ UNCHANGED <<delayed, others, commands>>

Steps(p) == Request(p) \/ Send(p) \/ DelayedSend(p) \/ Release(p)
System ==
    \/ \E a \in A : Steps(a) \/ a_command(a) \/ a_report(a)
    \/ \E b \in B : Steps(b) \/ process_b(b)
    \/ \E c \in C : Steps(c) \/ c_report(c) \/ c_meanwhile(c) \/ timer_expire(c)
    \/ kcd_process \/ crt_process

Next == System \/ \E a \in A, own \in BOOLEAN : command(a, own)

\* Some process goes on as long as one can.  (The bounds end every behaviour, so
\* no fairness among the processes is needed.)
Spec == Init /\ [][Next]_vars /\ WF_vars(System)
-----------------------------------------------------------------------------
\* The reports of a among messages are those numbered from lo on and before hi,
\* each of them once and in this order.
reports_of(a, messages) ==
    {i \in DOMAIN messages : messages[i].type = "COUNT_REPORT" /\ messages[i].source = a}
in_order(a, messages, lo, hi) ==
    LET mine == reports_of(a, messages)
    IN  /\ {messages[i].num : i \in mine} = lo .. hi - 1
        /\ \A i, j \in mine : i < j => messages[i].num < messages[j].num

\* What a process has in its calls, Blank where a call is no send.
to_send(p) ==
    [i \in DOMAIN todo[p] |-> IF todo[p][i].op = "send" THEN todo[p][i].as ELSE Blank]

\* From an A process to its C process the reports stay in the order of their
\* numbers, none missing and none twice: those C took up, those on its local
\* queue, in its mailbox, in the hands and the mailbox of B, and the one A is
\* about to send (process_c1.c:24-33, 46-58; process_c2.c:23-30, 40-51).
PipelineInOrder ==
    \A a \in A :
        LET b == to_b[a]
            c == to_c[b]
        IN  in_order(a, handled[c] \o local[c] \o mailbox[c]
                        \o to_send(b) \o mailbox[b] \o to_send(a), 0, num[a])

\* A process sends and releases only blocks it has (C2 gets the block in q, which
\* it gives away at every twentieth report, back with the wakeup).
UsesOnlyItsOwn ==
    \A p \in Processes : todo[p] # << >> /\ Head(todo[p]).op # "request" => Owns(p)

positions(queue, S) == UNION {{<<p, i>> : i \in DOMAIN queue[p]} : p \in S}

\* The pointers of a process to blocks it will neither use nor give away: the
\* first block of an A process, what C1 has in q, and a twentieth report at C2.
dead(p) ==
    {w \in DOMAIN hold[p] :
        \/ p \in A /\ num[p] = 0 /\ w = "p" /\ hold[p][w] = Blank
        \/ p = C1 /\ w = "q"
        \/ p = C2 /\ w = "p" /\ hold[p][w].num % TWENTY = 0}
held == UNION {{<<p, w>> : w \in DOMAIN hold[p] \ dead(p)} : p \in Processes}
in_use == Cardinality(positions(mailbox, Pids)) + Cardinality(positions(local, C))
          + Cardinality(delayed) + Cardinality(held)

twenties(c) == Cardinality({i \in DOMAIN handled[c] : handled[c][i].num % TWENTY = 0})
still_calls(p, w) == \E i \in DOMAIN todo[p] : todo[p][i].what = w
one_if(x) == IF x THEN 1 ELSE 0

\* The blocks that are lost: the first one of every A process, at every twentieth
\* report of C1 the one it requests and drops, every twentieth report of C2, and the
\* one the display drops at every line end, of C1's texts and of commands, once it
\* has shown it.
lost ==
    Cardinality({a \in A : Len(todo[a]) < Len(<<request("p")>> \o register_command)})
    + twenties(C1) - one_if(still_calls(C1, "q"))
    + twenties(C1) - one_if(still_calls(C1, "string"))
    - Cardinality({i \in DOMAIN mailbox["CRT"] : mailbox["CRT"][i].returns > 0})
    + twenties(C2)
    + commands

\* Every other block is free or on its way back to the pool: no other one is
\* lost, and none is given back twice (process_a1.c:14, 20, process_c1.c:40, 66,
\* process_c2.c:37, 56, crt_process.c:84, 113).
BlocksAccountedFor == free + in_use + lost = NUM_MEM_BLOCKS

\* Every report is taken up in the end, unless the losses have dried up the pool
\* for good.
ReportsHandled ==
    \A a \in A : \A n \in 0 .. MaxReports[a] - 1 :
        LET taken_up == handled[to_c[to_b[a]]]
        IN  (num[a] > n) ~>
                ((\E i \in DOMAIN taken_up : taken_up[i] = report(a, n)) \/ [](free = 0))
=============================================================================
