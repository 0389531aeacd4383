----------------------------- MODULE PCBQueues -----------------------------
(* kernel/queue.c: the two scheduling queues READY_queue and                   *)
(* MEMORY_WAIT_queue, each a table of linked lists of PCBs, one per priority,  *)
(* with the cached index of the most urgent list that is not empty.            *)
(* The operators work on a record s that has at least the fields               *)
(*   next[p], priority[p]    of the PCB of process p,                          *)
(*   head[Q][l], tail[Q][l]  of the list of priority l of queue Q,             *)
(*   highest_prio[Q]         the cached index, NUM_PRIO + 1 if Q is empty,     *)
(*   hung                    the kernel is lost: a loop never ends, or NULL    *)
(*                           was dereferenced, with interrupts masked.         *)
(* A PCB has one next field: it can be linked into one list at a time.         *)
EXTENDS Integers, FiniteSets

CONSTANTS Pids,     \* the processes, by their pid
          NULL      \* the C null pointer

ASSUME PidsAssumption == IsFiniteSet(Pids) /\ NULL \notin Pids

NUM_PRIO == 5
Levels == 0 .. NUM_PRIO         \* subqueues[NUM_PRIO + 1]
Queues == {"READY_queue", "MEMORY_WAIT_queue"}
Pointers == Pids \cup {NULL}

isEmpty(s, Q, l) == s.head[Q][l] = NULL

is_METAPCB_queue_empty(s, Q) ==
    s.highest_prio[Q] > NUM_PRIO \/ isEmpty(s, Q, s.highest_prio[Q])

\* The loop "while (isEmpty (subqueue[highest_prio])) highest_prio++".
first_not_empty(s, Q, from) ==
    CHOOSE m \in from .. NUM_PRIO + 1 :
        /\ m \in Levels => ~isEmpty(s, Q, m)
        /\ \A l \in from .. m - 1 : isEmpty(s, Q, l)

\* Variant for mutation: the tail of a list that was empty is not set.
enqueue_PCB_NoTail(s, Q, l, p) ==
    [s EXCEPT !.next[p] = s.head[Q][l],
              !.head[Q][l] = p]

enqueue_PCB(s, Q, l, p) ==
    [s EXCEPT !.next[p] = s.head[Q][l],
              !.head[Q][l] = p,
              !.tail[Q][l] = IF isEmpty(s, Q, l) THEN p ELSE @]

\* Variant for mutation: the comparison with highest_prio is the wrong way round.
enqueue_PCB_by_priority_Flipped(s, Q, p) ==
    LET l == s.priority[p]
    IN  [enqueue_PCB(s, Q, l, p) EXCEPT
            !.highest_prio[Q] = IF l > @ THEN l ELSE @]

enqueue_PCB_by_priority(s, Q, p) ==
    LET l == s.priority[p]
    IN  [enqueue_PCB(s, Q, l, p) EXCEPT
            !.highest_prio[Q] = IF l < @ THEN l ELSE @]

\* No loop over a list takes more turns than this before it meets a PCB twice.
Turns == 0 .. Cardinality(Pids)

\* The PCBs met by following next from p, one per turn of the loop.
walk(s, p) ==
    LET at[i \in Turns] ==
            IF i = 0 THEN p
            ELSE IF at[i - 1] = NULL THEN NULL ELSE s.next[at[i - 1]]
    IN  at

first_turn(T) == CHOOSE i \in T : \A j \in T : i <= j

\* The turns at which a walk of list l is at a PCB whose next is p, and the PCB
\* the walk is at the first time.
turns_before(s, Q, l, p) ==
    LET at == walk(s, s.head[Q][l])
    IN  {i \in Turns : at[i] \in Pids /\ s.next[at[i]] = p}

previous(s, Q, l, p) ==
    walk(s, s.head[Q][l])[first_turn(turns_before(s, Q, l, p))]

hang(s) == [s EXCEPT !.hung = TRUE]

unlink_all(s, Q, l) ==
    [s EXCEPT !.head[Q][l] = NULL,
              !.tail[Q][l] = NULL]

\* Variant for mutation: the newest PCB is taken, as dequeue_PCB_LIFO does.
dequeue_PCB_FIFO_Lifo(s, Q, l) ==
    LET h == s.head[Q][l]
    IN  IF h = NULL THEN [pcb |-> NULL, s |-> s]
        ELSE IF s.next[h] = NULL THEN [pcb |-> h, s |-> unlink_all(s, Q, l)]
        ELSE [pcb |-> h,
              s |-> [s EXCEPT !.head[Q][l] = s.next[h]]]

\* The PCB returned and the queues after the call.  The loop looks for the PCB
\* in front of the tail: a list on which it is not found is walked for ever, or
\* into NULL.
dequeue_PCB_FIFO(s, Q, l) ==
    LET h == s.head[Q][l]
        t == s.tail[Q][l]
        prev == previous(s, Q, l, t)
    IN  IF h = NULL THEN [pcb |-> NULL, s |-> s]
        ELSE IF s.next[h] = NULL THEN [pcb |-> t, s |-> unlink_all(s, Q, l)]
        ELSE IF turns_before(s, Q, l, t) = {} THEN [pcb |-> NULL, s |-> hang(s)]
        ELSE [pcb |-> t,
              s |-> [s EXCEPT !.next[prev] = NULL,
                              !.tail[Q][l] = prev]]

\* Variant for mutation: highest_prio is not moved on from an emptied list.
dequeue_PCB_FIFO_by_priority_Stale(s, Q) ==
    IF s.highest_prio[Q] > NUM_PRIO THEN [pcb |-> NULL, s |-> s]
    ELSE dequeue_PCB_FIFO(s, Q, s.highest_prio[Q])

dequeue_PCB_FIFO_by_priority(s, Q) ==
    IF s.highest_prio[Q] > NUM_PRIO THEN [pcb |-> NULL, s |-> s]
    ELSE LET d == dequeue_PCB_FIFO(s, Q, s.highest_prio[Q])
         IN  [pcb |-> d.pcb,
              s |-> [d.s EXCEPT !.highest_prio[Q] = first_not_empty(d.s, Q, @)]]

\* Whether p was found on the list of its priority, and the queues after the
\* call.  When p is the tail of a longer list, only the tail field changes: the
\* PCB in front of p still points at p.
remove_element_by_priority(s, Q, p) ==
    LET l == s.priority[p]
        h == s.head[Q][l]
        t == s.tail[Q][l]
        prev == previous(s, Q, l, p)
        emptied == unlink_all(s, Q, l)
    IN  IF p # h /\ turns_before(s, Q, l, p) = {}
        THEN [found |-> FALSE,
              s |-> IF \E i \in Turns : walk(s, h)[i] = NULL THEN s ELSE hang(s)]
        ELSE [found |-> TRUE,
              s |-> IF p = h /\ p = t
                    THEN [emptied EXCEPT !.highest_prio[Q] = first_not_empty(emptied, Q, @)]
                    ELSE IF p = h
                    THEN [s EXCEPT !.head[Q][l] = s.next[p]]
                    ELSE IF p = t
                    THEN [s EXCEPT !.tail[Q][l] = prev]
                    ELSE [s EXCEPT !.next[prev] = s.next[p]]]

\* init_METAPCB_queue on both queues.
empty_queues ==
    [head |-> [Q \in Queues |-> [l \in Levels |-> NULL]],
     tail |-> [Q \in Queues |-> [l \in Levels |-> NULL]],
     highest_prio |-> [Q \in Queues |-> NUM_PRIO + 1]]
-----------------------------------------------------------------------------
(* What the lists mean to their users.                                         *)

\* The processes on a list, oldest first: what a walk from the head to the
\* tail meets, backwards.  Only meaningful if the walk ends.
walk_ends(s, Q, l) ==
    s.head[Q][l] # NULL =>
        \E i \in Turns : walk(s, s.head[Q][l])[i] = s.tail[Q][l]

list_of(s, Q, l) ==
    IF s.head[Q][l] = NULL THEN << >>
    ELSE LET at == walk(s, s.head[Q][l])
             n == first_turn({i \in Turns : at[i] = s.tail[Q][l]})
         IN  [i \in 1 .. n + 1 |-> at[n + 1 - i]]

\* The cached index is that of the most urgent list that is not empty.
highest_prio_exact(s, Q) ==
    /\ s.highest_prio[Q] \in 0 .. NUM_PRIO + 1
    /\ s.highest_prio[Q] \in Levels => ~isEmpty(s, Q, s.highest_prio[Q])
    /\ \A l \in Levels : l < s.highest_prio[Q] => isEmpty(s, Q, l)
=============================================================================
