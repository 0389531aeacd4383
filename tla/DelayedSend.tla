---------------------------- MODULE DelayedSend ----------------------------
(* The timing service: kernel_delayed_send (kernel/primitives.c) links a       *)
(* message into delayed_send_queue, and the timer i-process                    *)
(* (process/timer_i_process.c) sends the messages that are due.  Every message *)
(* stores the ticks between the message in front of it and itself.  The timer  *)
(* i-process counts the ticks since it last sent a message or gave up counting *)
(* in timer_count; kernel_delayed_send does not know that count.               *)
(* The queue is a sequence here: its pointers are those of LinkedQueue.  Both  *)
(* actions run with interrupts masked.                                         *)
EXTENDS Integers, Sequences, FiniteSets

Seqs == INSTANCE SequencesExt

CONSTANTS Messages,
          MaxDelay      \* bound: the longest delay a program asks for

ASSUME DelayAssumption == MaxDelay \in Nat /\ MaxDelay > 0

VARIABLES
    delayed_send_queue,     \* entries [mess, delay], the next to be sent first
    timer_count,            \* the local counter of timer_i_process
    asked,                  \* history: the delay asked for every message,
    waited,                 \* the ticks since then, and
    counted_then            \* timer_count at that time

vars == <<delayed_send_queue, timer_count, asked, waited, counted_then>>

Positions == DOMAIN delayed_send_queue
Queued == {delayed_send_queue[i].mess : i \in Positions}

Init == /\ delayed_send_queue = << >>
        /\ timer_count = 0
        /\ asked = [m \in Messages |-> 0]
        /\ waited = [m \in Messages |-> 0]
        /\ counted_then = [m \in Messages |-> 0]
-----------------------------------------------------------------------------
\* The ticks stored in the first n entries.
ticks_before[n \in 0 .. Len(delayed_send_queue)] ==
    IF n = 0 THEN 0 ELSE ticks_before[n - 1] + delayed_send_queue[n].delay

\* Variant for mutation: the delay is not reduced by the delays passed.
passed_Whole(d) ==
    Cardinality({i \in Positions : \A j \in 1 .. i : d > delayed_send_queue[j].delay})

\* "while (ptr != NULL && delay > ptr->delay)": the entries that are passed.
passed(d) == Cardinality({i \in Positions : d > ticks_before[i]})

\* Variants for mutation: the entry behind the message is not shortened, or is
\* shortened by the whole delay.
linked_NotShortened(m, d) ==
    Seqs!InsertAt(delayed_send_queue, passed(d) + 1,
                  [mess |-> m, delay |-> d - ticks_before[passed(d)]])

linked_ShortenedByAll(m, d) ==
    LET n == passed(d)
        q == delayed_send_queue
        shortened == IF n < Len(q) THEN [q EXCEPT ![n + 1].delay = @ - d] ELSE q
    IN  Seqs!InsertAt(shortened, n + 1, [mess |-> m, delay |-> d - ticks_before[n]])

\* The message is linked in after the entries that are passed; the entry behind
\* it, if any, now counts from the message.
linked(m, d) ==
    LET n == passed(d)
        delay == d - ticks_before[n]
        q == delayed_send_queue
        shortened == IF n < Len(q) THEN [q EXCEPT ![n + 1].delay = @ - delay] ELSE q
    IN  Seqs!InsertAt(shortened, n + 1, [mess |-> m, delay |-> delay])

\* kernel_delayed_send with a positive delay.  A delay of 0 sends at once, a
\* negative one is refused.
kernel_delayed_send(m, d) ==
    /\ m \notin Queued
    /\ delayed_send_queue' = linked(m, d)
    /\ asked' = [asked EXCEPT ![m] = d]
    /\ waited' = [waited EXCEPT ![m] = 0]
    /\ counted_then' = [counted_then EXCEPT ![m] = timer_count]
    /\ UNCHANGED timer_count

\* timer_count after "timer_count++" and the reset of a count that has passed
\* the delay of the first message.  Beyond MaxDelay all counts behave alike.
counted ==
    LET next == IF timer_count > MaxDelay THEN timer_count ELSE timer_count + 1
    IN  IF delayed_send_queue # << >> /\ next > Head(delayed_send_queue).delay
        THEN 0 ELSE next

\* The messages sent in this tick: the first if its time has come, and the ones
\* behind it that are due at the same time.
due ==
    IF delayed_send_queue = << >> \/ Head(delayed_send_queue).delay # counted THEN 0
    ELSE CHOOSE n \in Positions :
            /\ \A i \in 2 .. n : delayed_send_queue[i].delay = 0
            /\ n < Len(delayed_send_queue) => delayed_send_queue[n + 1].delay # 0

timer_i_process ==
    /\ timer_count' = IF due > 0 THEN 0 ELSE counted
    /\ delayed_send_queue' = SubSeq(delayed_send_queue, due + 1, Len(delayed_send_queue))
    /\ waited' = [m \in Messages |-> IF m \in Queued' THEN waited[m] + 1 ELSE 0]
    /\ asked' = [m \in Messages |-> IF m \in Queued' THEN asked[m] ELSE 0]
    /\ counted_then' = [m \in Messages |-> IF m \in Queued' THEN counted_then[m] ELSE 0]

Next == \/ timer_i_process
        \/ \E m \in Messages, d \in 1 .. MaxDelay : kernel_delayed_send(m, d)

Spec == Init /\ [][Next]_vars
-----------------------------------------------------------------------------
\* The stored delays never fall below 0 (they are UINT32, so one that did would
\* keep its message and all behind it for 2^32 ticks), and no message is queued
\* twice.
TypeOK ==
    /\ delayed_send_queue \in Seq([mess : Messages, delay : 0 .. MaxDelay])
    /\ timer_count \in 0 .. MaxDelay + 1
    /\ asked \in [Messages -> 0 .. MaxDelay]
    /\ waited \in [Messages -> Nat]
    /\ counted_then \in [Messages -> 0 .. MaxDelay + 1]
    /\ Cardinality(Queued) = Len(delayed_send_queue)

\* Whatever was linked in before, between and after them, of two messages handed
\* over between the same two ticks the one with the shorter delay is sent first.
ShorterDelayFirst ==
    \A i, j \in Positions :
        LET m == delayed_send_queue[i].mess
            n == delayed_send_queue[j].mess
        IN  i < j /\ waited[m] = waited[n] => asked[m] <= asked[n]

\* How late a message can be: others with shorter delays may keep being linked
\* in front of it, and every one of them makes the timer give up the ticks it has
\* counted; but every one also has to be sent before the next, and takes its
\* delay off that of the message.
NeverVeryLate ==
    \A i \in Positions :
        LET m == delayed_send_queue[i].mess
            d == asked[m]
        IN  2 * waited[m] < 2 * d + d * (d + 1)

\* How early a message can be: kernel_delayed_send counts from the last message
\* sent and not from now, so a message is early by the ticks that were counted
\* already when it was handed over, and by no more, whatever is linked in around
\* it later.  (SDD 3.6: "after the expiration of the delay".)
EarlyByTicksCounted ==
    [][\A m \in Messages :
          m \in Queued /\ m \notin Queued' => waited[m] + 1 >= asked[m] - counted_then[m]]_vars
=============================================================================
