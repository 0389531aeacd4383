----------------------------- MODULE FifoQueue -----------------------------
(* What the kernel expects of its queues: the SDD (section 2.3.1) calls them   *)
(* FIFO queues.  contents runs from the oldest element to the newest one, and  *)
(* removed is the element the last completed removal handed to its caller      *)
(* (NULL before the first removal, and after a removal from an empty queue).   *)
EXTENDS Naturals, Sequences

CONSTANTS Nodes,    \* the elements that may be linked into the queue
          NULL      \* the C null pointer

VARIABLES contents, removed

vars == <<contents, removed>>

Members == {contents[i] : i \in DOMAIN contents}

Init == contents = <<>> /\ removed = NULL

Enqueue(e) ==
    /\ e \notin Members
    /\ contents' = Append(contents, e)
    /\ UNCHANGED removed

\* dequeue_*_FIFO: the oldest element leaves.
RemoveOldest ==
    /\ contents # <<>>
    /\ removed' = Head(contents)
    /\ contents' = Tail(contents)

\* dequeue_*_LIFO: the newest element leaves.
RemoveNewest ==
    /\ contents # <<>>
    /\ removed' = contents[Len(contents)]
    /\ contents' = SubSeq(contents, 1, Len(contents) - 1)

RemoveFromEmpty ==
    /\ contents = <<>>
    /\ removed' = NULL
    /\ UNCHANGED contents

Next == \/ \E e \in Nodes : Enqueue(e)
        \/ RemoveOldest
        \/ RemoveNewest
        \/ RemoveFromEmpty

Spec == Init /\ [][Next]_vars
=============================================================================
