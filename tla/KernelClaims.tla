---------------------------- MODULE KernelClaims ----------------------------
(* What the design document (ece354_sdd.pdf) says of send_message where the    *)
(* code does something else: the run that checks it is expected to find it     *)
(* violated.                                                                   *)
EXTENDS Kernel

\* SDD 3.1, of send_message: "The sending process is preempted if the receiving
\* process was blocked waiting for a message and has higher priority, otherwise
\* the sender continues executing."  A priority is higher when its number is
\* smaller (rtx.h:20); primitives.c:100 compares the other way round.
SendWakes(c, d) ==
    /\ kernel.current = c /\ kernel.state[d] = MESSAGE_WAIT
    /\ Len(mess_queue'[d]) > Len(mess_queue[d])

SenderPreemptedForUrgent ==
    [][\A c \in Users, d \in Users : SendWakes(c, d) =>
           (kernel'.current # c <=> kernel.priority[d] < kernel.priority[c])]_vars
=============================================================================
