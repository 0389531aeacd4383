--------------------------- MODULE PriorityQueue ---------------------------
(* One METAPCB queue of kernel/queue.c used the way kernel/primitives.c uses   *)
(* it: a process is linked in once, with the priority it has at that time;     *)
(* the most urgent and oldest process is taken out; and a set_process_priority *)
(* of a linked process takes it off its list and links it in again.            *)
(* The specification relates the lists that the pointers form to the history   *)
(* of calls.                                                                   *)
EXTENDS PCBQueues, Sequences

Seqs == INSTANCE SequencesExt

CONSTANTS Q,            \* the queue used, one of Queues
          Priorities,   \* the priorities processes are given
          MoveTails     \* whether a process that is the tail of a list of
                        \* several is moved too: remove_element breaks the
                        \* list then (see the run queue_remove_tail)

ASSUME PriorityAssumption == Q \in Queues /\ Priorities \subseteq Levels

VARIABLES s,            \* the fields PCBQueues works on
          got,          \* what the last dequeue returned
          level         \* history: the linked processes by priority, oldest first

vars == <<s, got, level>>

On(l) == {level[l][i] : i \in DOMAIN level[l]}
Everyone == UNION {On(l) : l \in Levels}

Init ==
    /\ \E nx \in [Pids -> {NULL}], pr \in [Pids -> Priorities] :
         s = [next |-> nx, priority |-> pr, hung |-> FALSE,
              head |-> empty_queues.head, tail |-> empty_queues.tail,
              highest_prio |-> empty_queues.highest_prio]
    /\ got = NULL
    /\ level = [l \in Levels |-> << >>]

Enqueue(p) ==
    /\ ~s.hung /\ p \notin Everyone
    /\ s' = enqueue_PCB_by_priority(s, Q, p)
    /\ level' = [level EXCEPT ![s.priority[p]] = Append(@, p)]
    /\ UNCHANGED got

Dequeue ==
    LET d == dequeue_PCB_FIFO_by_priority(s, Q)
        l == s.highest_prio[Q]
    IN  /\ ~s.hung
        /\ s' = d.s /\ got' = d.pcb
        /\ level' = IF l \in Levels /\ level[l] # << >>
                    THEN [level EXCEPT ![l] = Tail(@)] ELSE level

\* The else branch of kernel_set_process_priority, for a process on the queue.
Move(p, prio) ==
    LET r == remove_element_by_priority(s, Q, p)
        moved == [r.s EXCEPT !.priority[p] = prio]
        l == s.priority[p]
    IN  /\ ~s.hung /\ p \in Everyone
        /\ MoveTails \/ p # s.tail[Q][l] \/ p = s.head[Q][l]
        /\ IF r.found /\ ~r.s.hung
           THEN s' = enqueue_PCB_by_priority(moved, Q, p)
           ELSE s' = r.s
        /\ \E i \in DOMAIN level[l] :
             LET out == [level EXCEPT ![l] = Seqs!RemoveAt(@, i)]
             IN  level[l][i] = p /\ level' = [out EXCEPT ![prio] = Append(@, p)]
        /\ UNCHANGED got

\* A process that is not on the queue may change its priority.
SetPriority(p, prio) ==
    /\ ~s.hung /\ p \notin Everyone
    /\ s' = [s EXCEPT !.priority[p] = prio]
    /\ UNCHANGED <<got, level>>

Next == \/ \E p \in Pids : \/ Enqueue(p)
                           \/ \E prio \in Priorities : Move(p, prio)
                                                      \/ SetPriority(p, prio)
        \/ Dequeue

Spec == Init /\ [][Next]_vars
-----------------------------------------------------------------------------
\* A walk from the head of every list to its tail ends and meets exactly the
\* processes that were linked in and not taken out, in the order of their
\* arrival: no PCB is lost, duplicated or moved to another list.
ListsHoldTheLinked ==
    \A l \in Levels : walk_ends(s, Q, l) /\ list_of(s, Q, l) = level[l]

\* highest_prio is right whatever calls were made: the scheduler never looks
\* into an empty list while a process is ready, and never skips a list.
HighestPrioExact == highest_prio_exact(s, Q)

\* No sequence of calls makes a loop of queue.c run for ever.
NeverHangs == ~s.hung

Abstract == INSTANCE PriorityFifo

\* The linked lists and the cached index implement the FIFO per priority.
ImplementsPriorityFifo == Abstract!Spec
=============================================================================
