---------------------------- MODULE PriorityFifo ----------------------------
(* What the scheduler expects of a METAPCB queue (SDD section 2.3.1: "one FIFO *)
(* queue per priority"): level[l] holds the processes of priority l, oldest    *)
(* first, and a dequeue hands out the oldest process of the most urgent        *)
(* priority.                                                                   *)
EXTENDS Integers, Sequences

Seqs == INSTANCE SequencesExt

CONSTANTS Pids, NULL, Levels

VARIABLES level,    \* the processes of every priority, oldest first
          got       \* the process the last dequeue returned

vars == <<level, got>>

On(l) == {level[l][i] : i \in DOMAIN level[l]}
Everyone == UNION {On(l) : l \in Levels}
MostUrgent == CHOOSE l \in Levels : /\ level[l] # << >>
                                    /\ \A k \in Levels : k < l => level[k] = << >>

Init == level = [l \in Levels |-> << >>] /\ got = NULL

Enqueue(p, l) ==
    /\ p \notin Everyone
    /\ level' = [level EXCEPT ![l] = Append(@, p)]
    /\ UNCHANGED got

Dequeue ==
    /\ Everyone # {}
    /\ got' = Head(level[MostUrgent])
    /\ level' = [level EXCEPT ![MostUrgent] = Tail(@)]

DequeueFromEmpty == Everyone = {} /\ got' = NULL /\ UNCHANGED level

\* kernel_set_process_priority takes the process off its list and links it in
\* again as the newest of another one.
Move(p, l) ==
    /\ \E k \in Levels : \E i \in DOMAIN level[k] :
         LET out == [level EXCEPT ![k] = Seqs!RemoveAt(@, i)]
         IN  level[k][i] = p /\ level' = [out EXCEPT ![l] = Append(@, p)]
    /\ UNCHANGED got

Next == \/ \E p \in Pids, l \in Levels : Enqueue(p, l) \/ Move(p, l)
        \/ Dequeue
        \/ DequeueFromEmpty

Spec == Init /\ [][Next]_vars
=============================================================================
