--------------------------- MODULE MCLinkedQueue ---------------------------
(* TLC instance of LinkedQueue: four elements, any uninitialised next fields. *)
EXTENDS LinkedQueue, TLC

CONSTANTS n1, n2, n3, n4

MCNodes == {n1, n2, n3, n4}
=============================================================================
