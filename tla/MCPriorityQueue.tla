-------------------------- MODULE MCPriorityQueue --------------------------
(* TLC instance of PriorityQueue: four processes and three priorities.  The    *)
(* processes are interchangeable.                                              *)
EXTENDS PriorityQueue, TLC

CONSTANTS p1, p2, p3, p4

MCPids == {p1, p2, p3, p4}
MCQueue == "READY_queue"
MCPriorities == {0, 1, 3}
Symmetry == Permutations(MCPids)
=============================================================================
