---------------------------- MODULE LinkedQueue ----------------------------
(* The singly linked queue that the kernel writes three times, for PCBs        *)
(* (kernel/queue.c), messages (kernel/msg_queue.c) and free memory blocks      *)
(* (kernel/memory_queue.c): an element is linked in at the head, and the       *)
(* FIFO removal walks from the head to the element before the tail.  The body  *)
(* of enqueue and of the LIFO removal is one step; every turn of the while     *)
(* loop of the FIFO removal is a step of its own.                              *)
(* The queues are only touched with interrupts masked (or, for the private     *)
(* queues of process_c1 and process_c2, by a single process), so no operation  *)
(* starts before the previous one returned.                                    *)
EXTENDS Naturals, Sequences

CONSTANTS Nodes,    \* the elements that may be linked into the queue
          NULL      \* the C null pointer

ASSUME NULLAssumption == NULL \notin Nodes

VARIABLES head, tail,   \* the two fields of the queue structure
          next,         \* the next field of every element
          pc,           \* "idle", or "walk" inside the loop of the FIFO removal
          last, temp,   \* the two local variables of the FIFO removal
          out,          \* the element the last removal returned
          order         \* history: the linked elements, oldest first

vars == <<head, tail, next, pc, last, temp, out, order>>

Pointers == Nodes \cup {NULL}

isEmpty == head = NULL

\* Variant of Init for mutation: init_msg_queue was not called.
Init_NotCalled == /\ head = "garbage" /\ tail = "garbage"
                  /\ next \in [Nodes -> Pointers]
                  /\ pc = "idle"
                  /\ last = NULL /\ temp = NULL /\ out = NULL
                  /\ order = <<>>

\* init_PCB_queue, init_msg_queue, init_free_memory_queue.
Init == /\ head = NULL /\ tail = NULL
        /\ next \in [Nodes -> Pointers]      \* uninitialised memory
        /\ pc = "idle"
        /\ last = NULL /\ temp = NULL /\ out = NULL
        /\ order = <<>>

Linked == {order[i] : i \in DOMAIN order}

\* Variant of enqueue for mutation: the tail of a queue that was empty is not set.
enqueue_NoTail(e) ==
    /\ pc = "idle" /\ e \notin Linked
    /\ head' = e
    /\ next' = [next EXCEPT ![e] = IF isEmpty THEN NULL ELSE head]
    /\ order' = Append(order, e)
    /\ UNCHANGED <<tail, pc, last, temp, out>>

\* The callers link an element that is not already in the queue: for the C
\* code it is a precondition, nothing in enqueue checks it.
enqueue(e) ==
    /\ pc = "idle" /\ e \notin Linked
    /\ head' = e
    /\ tail' = IF isEmpty THEN e ELSE tail
    /\ next' = [next EXCEPT ![e] = IF isEmpty THEN NULL ELSE head]
    /\ order' = Append(order, e)
    /\ UNCHANGED <<pc, last, temp, out>>

dequeueFIFO_empty ==
    /\ pc = "idle" /\ isEmpty
    /\ out' = NULL
    /\ UNCHANGED <<head, tail, next, pc, last, temp, order>>

dequeueFIFO_single ==
    /\ pc = "idle" /\ ~isEmpty
    /\ next[head] = NULL
    /\ head' = NULL /\ tail' = NULL
    /\ last' = head /\ temp' = tail
    /\ out' = tail
    /\ order' = Tail(order)
    /\ UNCHANGED <<next, pc>>

\* Variant for mutation: the test for a single element is missing.
dequeueFIFO_start_Untested ==
    /\ pc = "idle" /\ ~isEmpty
    /\ last' = head /\ temp' = tail
    /\ pc' = "walk"
    /\ UNCHANGED <<head, tail, next, out, order>>

dequeueFIFO_start ==
    /\ pc = "idle" /\ ~isEmpty
    /\ next[head] # NULL
    /\ last' = head /\ temp' = tail
    /\ pc' = "walk"
    /\ UNCHANGED <<head, tail, next, out, order>>

\* Variant for mutation: every turn starts again from the head.
dequeueFIFO_step_FromHead ==
    /\ pc = "walk" /\ next[last] # temp
    /\ last' = next[head]
    /\ UNCHANGED <<head, tail, next, pc, temp, out, order>>

\* One turn of "while (last->next != temp)".
dequeueFIFO_step ==
    /\ pc = "walk" /\ next[last] # temp
    /\ last' = next[last]
    /\ UNCHANGED <<head, tail, next, pc, temp, out, order>>

\* Variant for mutation: the caller gets the element before the tail.
dequeueFIFO_unlink_WrongResult ==
    /\ pc = "walk" /\ next[last] = temp
    /\ next' = [next EXCEPT ![last] = NULL]
    /\ tail' = last
    /\ out' = last
    /\ pc' = "idle"
    /\ order' = Tail(order)
    /\ UNCHANGED <<head, last, temp>>

dequeueFIFO_unlink ==
    /\ pc = "walk" /\ next[last] = temp
    /\ next' = [next EXCEPT ![last] = NULL]
    /\ tail' = last
    /\ out' = temp
    /\ pc' = "idle"
    /\ order' = Tail(order)
    /\ UNCHANGED <<head, last, temp>>

\* The LIFO removal never writes tail: it is stale once the queue is empty.
dequeueLIFO ==
    /\ pc = "idle" /\ ~isEmpty
    /\ out' = head
    /\ head' = next[head]
    /\ order' = SubSeq(order, 1, Len(order) - 1)
    /\ UNCHANGED <<tail, next, pc, last, temp>>

Walk == dequeueFIFO_step \/ dequeueFIFO_unlink

Next == \/ \E e \in Nodes : enqueue(e)
        \/ dequeueFIFO_empty
        \/ dequeueFIFO_single
        \/ dequeueFIFO_start
        \/ Walk
        \/ dequeueLIFO

Spec == Init /\ [][Next]_vars

\* Interrupts are masked while the loop runs, so the processor executes
\* nothing but the loop: it is weakly fair.
FairSpec == Spec /\ WF_vars(Walk)
-----------------------------------------------------------------------------
TypeOK == /\ head \in Pointers /\ tail \in Pointers
          /\ next \in [Nodes -> Pointers]
          /\ pc \in {"idle", "walk"}
          /\ last \in Pointers /\ temp \in Pointers /\ out \in Pointers
          /\ order \in Seq(Nodes)

\* The structure is a simple list: from the head every element points at the
\* one linked in before it, down to the tail, which points nowhere.
ListShape ==
    /\ order = <<>> => head = NULL
    /\ order # <<>> => /\ head = order[Len(order)]
                       /\ tail = order[1]
                       /\ next[order[1]] = NULL
    /\ \A i \in 2 .. Len(order) : next[order[i]] = order[i - 1]
    /\ \A i, j \in 1 .. Len(order) : order[i] = order[j] => i = j

\* Inside the loop last stands on a linked element above the tail, so the loop
\* never dereferences NULL and never runs past the element it looks for.
WalkStaysLinked ==
    pc = "walk" => /\ temp = tail
                   /\ \E i \in 2 .. Len(order) : last = order[i]

Inv == TypeOK /\ ListShape /\ WalkStaysLinked

\* The pointer manipulation of the C code implements the FIFO (and, for
\* dequeueLIFO, LIFO) queue that its callers rely on.
Abstract == INSTANCE FifoQueue WITH contents <- order, removed <- out

ImplementsFifo == Abstract!Spec

\* Every FIFO removal finds the predecessor of the tail and returns.
WalkTerminates == (pc = "walk") ~> (pc = "idle")
=============================================================================
