------------------------- MODULE LinkedQueueProofs -------------------------
(* The linked queue keeps its shape, and implements the abstract queue, for    *)
(* every set of elements and every length.                                     *)
EXTENDS LinkedQueue, SequenceTheorems, TLAPS

\* What a removal of the oldest element leaves, position by position.
LEMMA TailFacts ==
    ASSUME order \in Seq(Nodes), order # <<>>
    PROVE  /\ Tail(order) \in Seq(Nodes)
           /\ Len(Tail(order)) = Len(order) - 1
           /\ \A i \in 1 .. Len(Tail(order)) : Tail(order)[i] = order[i + 1]
  BY HeadTailProperties

\* What a removal of the newest element leaves, position by position.
LEMMA FrontFacts ==
    ASSUME order \in Seq(Nodes), order # <<>>
    PROVE  /\ SubSeq(order, 1, Len(order) - 1) \in Seq(Nodes)
           /\ Len(SubSeq(order, 1, Len(order) - 1)) = Len(order) - 1
           /\ \A i \in 1 .. Len(order) - 1 :
                 SubSeq(order, 1, Len(order) - 1)[i] = order[i]
  OBVIOUS

\* Where an inserted element lands.
LEMMA AppendFacts ==
    ASSUME NEW e \in Nodes, order \in Seq(Nodes)
    PROVE  /\ Append(order, e) \in Seq(Nodes)
           /\ Len(Append(order, e)) = Len(order) + 1
           /\ \A i \in 1 .. Len(order) : Append(order, e)[i] = order[i]
           /\ Append(order, e)[Len(order) + 1] = e
  BY AppendProperties

\* An initialised queue has the shape of the empty queue.
LEMMA InitInv == Init => Inv
  BY NULLAssumption DEF Init, Inv, TypeOK, ListShape, WalkStaysLinked, Pointers

\* What the invariant says of the history: its elements are nodes, never NULL,
\* and it is empty exactly when the head of the queue is NULL.
LEMMA SeqFacts ==
    ASSUME Inv
    PROVE  /\ Len(order) \in Nat
           /\ (order = <<>>) <=> (Len(order) = 0)
           /\ \A i \in 1 .. Len(order) : order[i] \in Nodes
           /\ head = NULL <=> order = <<>>
           /\ \A i \in 1 .. Len(order) : order[i] # NULL
  <1>1. order \in Seq(Nodes)
    BY DEF Inv, TypeOK
  <1>2. /\ Len(order) \in Nat
        /\ (order = <<>>) <=> (Len(order) = 0)
        /\ \A i \in 1 .. Len(order) : order[i] \in Nodes
    BY <1>1, EmptySeq, ElementOfSeq, LenProperties
  <1>3. order # <<>> => head = order[Len(order)] /\ Len(order) \in 1 .. Len(order)
    BY <1>2 DEF Inv, ListShape
  <1>4. QED
    BY <1>2, <1>3, NULLAssumption DEF Inv, ListShape

\* Every call, and every turn of the removal loop, keeps the shape of the queue.
LEMMA NextInv == Inv /\ [Next]_vars => Inv'
  <1> SUFFICES ASSUME Inv, [Next]_vars PROVE Inv'
    OBVIOUS
  <1> USE DEF Pointers
  <1>a. /\ Len(order) \in Nat
        /\ (order = <<>>) <=> (Len(order) = 0)
        /\ \A i \in 1 .. Len(order) : order[i] \in Nodes
        /\ head = NULL <=> order = <<>>
        /\ \A i \in 1 .. Len(order) : order[i] # NULL
    BY SeqFacts
  <1>b. order \in Seq(Nodes) /\ next \in [Nodes -> Pointers]
    BY DEF Inv, TypeOK
  <1>1. ASSUME NEW e \in Nodes, enqueue(e) PROVE Inv'
    <2>1. /\ order' = Append(order, e)
          /\ order' \in Seq(Nodes)
          /\ Len(order') = Len(order) + 1
          /\ \A i \in 1 .. Len(order) : order'[i] = order[i]
          /\ order'[Len(order) + 1] = e
      BY <1>1, <1>b, AppendFacts DEF enqueue
    <2>2. \A i \in 1 .. Len(order) : order[i] # e
      BY <1>1, <1>b DEF enqueue, Linked
    <2>3. TypeOK'
      BY <1>1, <2>1 DEF Inv, TypeOK, enqueue
    <2>4. ListShape'
      <3>1. CASE order = <<>>
        BY <1>1, <1>a, <1>b, <2>1, <3>1 DEF ListShape, enqueue, isEmpty
      <3>2. CASE order # <<>>
        <4>1. /\ head' = e /\ tail' = tail
              /\ next' = [next EXCEPT ![e] = head]
          BY <1>1, <1>a, <3>2 DEF enqueue, isEmpty
        <4>2. order' # <<>> /\ head' = order'[Len(order')]
          BY <2>1, <4>1, <1>a
        <4>3. tail' = order'[1] /\ next'[order'[1]] = NULL
          BY <1>a, <1>b, <2>1, <2>2, <3>2, <4>1 DEF Inv, ListShape
        <4>4. \A i \in 2 .. Len(order') : next'[order'[i]] = order'[i - 1]
          <5>1. ASSUME NEW i \in 2 .. Len(order), i - 1 \in 1 .. Len(order)
                PROVE  next'[order'[i]] = order'[i - 1]
            BY <1>a, <1>b, <2>1, <2>2, <4>1, <5>1 DEF Inv, ListShape
          <5>2. next'[order'[Len(order')]] = order'[Len(order') - 1]
            BY <1>a, <1>b, <2>1, <3>2, <4>1 DEF Inv, ListShape
          <5>3. QED
            BY <1>a, <2>1, <5>1, <5>2
        <4>5. \A i, j \in 1 .. Len(order') : order'[i] = order'[j] => i = j
          BY <1>a, <2>1, <2>2 DEF Inv, ListShape
        <4>6. QED
          BY <4>2, <4>3, <4>4, <4>5 DEF ListShape
      <3>3. QED
        BY <3>1, <3>2
    <2>5. WalkStaysLinked'
      BY <1>1 DEF enqueue, WalkStaysLinked
    <2>6. QED
      BY <2>3, <2>4, <2>5 DEF Inv
  <1>2. CASE dequeueFIFO_empty
    BY <1>2 DEF Inv, TypeOK, ListShape, WalkStaysLinked, dequeueFIFO_empty
  <1>3. CASE dequeueFIFO_single
    \* Only the oldest element points nowhere, so the queue has one element.
    <2>1. /\ order # <<>> /\ Len(order) \in Nat /\ Len(order) # 0
          /\ next[order[Len(order)]] = NULL
      BY <1>3, <1>a DEF Inv, ListShape, dequeueFIFO_single, isEmpty
    <2>2. Len(order) = 1
      <3>1. SUFFICES ASSUME Len(order) # 1 PROVE FALSE
        OBVIOUS
      <3>2. Len(order) \in 2 .. Len(order) /\ Len(order) - 1 \in 1 .. Len(order)
        <4>1. \A n \in Nat : n # 0 /\ n # 1 => n \in 2 .. n /\ n - 1 \in 1 .. n
          OBVIOUS
        <4>2. QED
          BY <2>1, <3>1, <4>1, Zenon
      <3>3. next[order[Len(order)]] = order[Len(order) - 1]
        BY <3>2 DEF Inv, ListShape
      <3>4. QED
        BY <1>a, <2>1, <3>2, <3>3
    <2>3. order' = <<>> /\ Len(order') = 0 /\ order' \in Seq(Nodes)
      BY <1>3, <1>b, <2>1, <2>2, TailFacts, EmptySeq DEF dequeueFIFO_single
    <2>4. TypeOK'
      BY <1>3, <1>b, <2>3 DEF Inv, TypeOK, dequeueFIFO_single, isEmpty
    <2>5. ListShape'
      <3>1. head' = NULL /\ 1 .. Len(order') = {} /\ 2 .. Len(order') = {}
        BY <1>3, <2>3 DEF dequeueFIFO_single
      <3>2. QED
        BY <2>3, <3>1 DEF ListShape
    <2>6. WalkStaysLinked'
      BY <1>3 DEF WalkStaysLinked, dequeueFIFO_single
    <2>7. QED
      BY <2>4, <2>5, <2>6 DEF Inv
  <1>4. CASE dequeueFIFO_start
    <2>1. Len(order) >= 2 /\ last' = order[Len(order)]
      BY <1>4, <1>a DEF Inv, ListShape, dequeueFIFO_start, isEmpty
    <2>2. QED
      BY <1>4, <1>a, <2>1 DEF Inv, TypeOK, ListShape, WalkStaysLinked,
                              dequeueFIFO_start
  <1>5. CASE dequeueFIFO_step
    <2>1. PICK i \in 2 .. Len(order) : last = order[i]
      BY <1>5 DEF Inv, WalkStaysLinked, dequeueFIFO_step
    <2>2. last' = order[i - 1] /\ i - 1 \in 1 .. Len(order)
      BY <1>5, <1>a, <2>1 DEF Inv, ListShape, dequeueFIFO_step
    \* The loop would have ended on the second oldest element.
    <2>3. i # 2
      BY <1>5, <1>a, <2>1, <2>2
         DEF Inv, ListShape, WalkStaysLinked, dequeueFIFO_step
    <2>4. i - 1 \in 2 .. Len(order)
      BY <1>a, <2>3
    <2>5. QED
      BY <1>5, <1>a, <2>2, <2>4
         DEF Inv, TypeOK, ListShape, WalkStaysLinked, dequeueFIFO_step
  <1>6. CASE dequeueFIFO_unlink
    <2>1. PICK k \in 2 .. Len(order) : last = order[k]
      BY <1>6 DEF Inv, WalkStaysLinked, dequeueFIFO_unlink
    <2>2. next[last] = order[k - 1] /\ temp = order[1] /\ order # <<>>
      BY <1>6, <1>a, <2>1
         DEF Inv, ListShape, WalkStaysLinked, dequeueFIFO_unlink
    <2>3. k = 2
      BY <1>6, <1>a, <2>1, <2>2 DEF Inv, ListShape, dequeueFIFO_unlink
    <2>4. /\ order' = Tail(order)
          /\ order' \in Seq(Nodes)
          /\ Len(order') = Len(order) - 1
          /\ \A i \in 1 .. Len(order') : order'[i] = order[i + 1]
      BY <1>6, <1>b, <2>2, TailFacts DEF dequeueFIFO_unlink
    <2>5. TypeOK'
      BY <1>6, <1>a, <2>1, <2>4 DEF Inv, TypeOK, dequeueFIFO_unlink
    <2>6. ListShape'
      <3>1. order' # <<>> /\ head' = order'[Len(order')]
        <4>1. Len(order') \in 1 .. Len(order') /\ Len(order') + 1 = Len(order)
          BY <1>a, <2>1, <2>4
        <4>2. order' # <<>>
          BY <4>1, EmptySeq
        <4>3. QED
          BY <1>6, <2>2, <2>4, <4>1, <4>2 DEF Inv, ListShape, dequeueFIFO_unlink
      <3>2. tail' = order'[1] /\ next'[order'[1]] = NULL
        BY <1>6, <1>a, <1>b, <2>1, <2>3, <2>4 DEF dequeueFIFO_unlink
      <3>3. ASSUME NEW i \in 2 .. Len(order')
            PROVE  next'[order'[i]] = order'[i - 1]
        <4>1. /\ i + 1 \in 2 .. Len(order) /\ i \in 2 .. Len(order)
              /\ order'[i] = order[i + 1] /\ order'[i - 1] = order[i]
          BY <1>a, <2>4
        <4>2. order[i + 1] # order[2]
          BY <1>a, <4>1, <2>1 DEF Inv, ListShape
        <4>3. QED
          BY <1>6, <1>a, <1>b, <2>1, <2>3, <4>1, <4>2
             DEF Inv, ListShape, dequeueFIFO_unlink
      <3>4. \A i, j \in 1 .. Len(order') : order'[i] = order'[j] => i = j
        BY <1>a, <2>4 DEF Inv, ListShape
      <3>5. QED
        BY <3>1, <3>2, <3>3, <3>4 DEF ListShape
    <2>7. WalkStaysLinked'
      BY <1>6 DEF dequeueFIFO_unlink, WalkStaysLinked
    <2>8. QED
      BY <2>5, <2>6, <2>7 DEF Inv
  <1>7. CASE dequeueLIFO
    <2>1. order # <<>> /\ head = order[Len(order)] /\ Len(order) \in 1 .. Len(order)
      BY <1>7, <1>a DEF Inv, ListShape, dequeueLIFO, isEmpty
    <2>2. /\ order' = SubSeq(order, 1, Len(order) - 1)
          /\ order' \in Seq(Nodes)
          /\ Len(order') = Len(order) - 1
          /\ \A i \in 1 .. Len(order) - 1 : order'[i] = order[i]
      BY <1>7, <1>b, <2>1, FrontFacts DEF dequeueLIFO
    <2>3. TypeOK'
      BY <1>7, <1>a, <2>1, <2>2 DEF Inv, TypeOK, dequeueLIFO
    <2>4. ListShape'
      <3>1. order' = <<>> => head' = NULL
        <4>1. order' = <<>> => Len(order) = 1
          BY <1>a, <2>2, EmptySeq
        <4>2. QED
          BY <1>7, <2>1, <4>1 DEF Inv, ListShape, dequeueLIFO
      <3>2. order' # <<>> => /\ head' = order'[Len(order')]
                             /\ tail' = order'[1]
                             /\ next'[order'[1]] = NULL
        <4>1. SUFFICES ASSUME order' # <<>>
                       PROVE  /\ head' = order'[Len(order')]
                              /\ tail' = order'[1]
                              /\ next'[order'[1]] = NULL
          OBVIOUS
        <4>2. Len(order') # 0
          BY <2>2, <4>1, EmptySeq
        <4>3. /\ Len(order) \in 2 .. Len(order)
              /\ Len(order) - 1 \in 1 .. Len(order) - 1
              /\ 1 \in 1 .. Len(order) - 1
          BY <1>a, <2>2, <4>2
        <4>4. head' = order[Len(order) - 1]
          BY <1>7, <2>1, <4>3 DEF Inv, ListShape, dequeueLIFO
        <4>5. QED
          BY <1>7, <2>1, <2>2, <4>3, <4>4 DEF Inv, ListShape, dequeueLIFO
      <3>3. \A i \in 2 .. Len(order') : next'[order'[i]] = order'[i - 1]
        BY <1>7, <1>a, <2>2 DEF Inv, ListShape, dequeueLIFO
      <3>4. \A i, j \in 1 .. Len(order') : order'[i] = order'[j] => i = j
        BY <1>a, <2>2 DEF Inv, ListShape
      <3>5. QED
        BY <3>1, <3>2, <3>3, <3>4 DEF ListShape
    <2>5. WalkStaysLinked'
      BY <1>7 DEF dequeueLIFO, WalkStaysLinked
    <2>6. QED
      BY <2>3, <2>4, <2>5 DEF Inv
  <1>8. CASE UNCHANGED vars
    BY <1>8 DEF Inv, TypeOK, ListShape, WalkStaysLinked, vars
  <1>9. QED
    BY <1>1, <1>2, <1>3, <1>4, <1>5, <1>6, <1>7, <1>8 DEF Next, Walk

\* The queue is at every moment a simple list from the newest element to the
\* oldest one, and the removal loop stays on it.
THEOREM ShapeHolds == Spec => [](TypeOK /\ ListShape /\ WalkStaysLinked)
  <1>1. Inv => TypeOK /\ ListShape /\ WalkStaysLinked
    BY DEF Inv
  <1>2. QED
    BY InitInv, NextInv, <1>1, PTL DEF Spec

\* The pointers of an element and of a queue only ever hold elements or NULL, the
\* uninitialised ones that were there when the system started included.
THEOREM PointersTyped == Spec => []TypeOK
  <1>1. Inv => TypeOK
    BY DEF Inv
  <1>2. QED
    BY InitInv, NextInv, <1>1, PTL DEF Spec

\* The loop that looks for the element in front of the tail always stands on a
\* linked element that is not the tail: it dereferences no null pointer, although
\* the pointers of unlinked elements are never cleared.
THEOREM WalkStaysOnTheList == Spec => []WalkStaysLinked
  <1>1. Inv => WalkStaysLinked
    BY DEF Inv
  <1>2. QED
    BY InitInv, NextInv, <1>1, PTL DEF Spec

-----------------------------------------------------------------------------
(* Refinement: every step of the pointer-level queue is a step of FifoQueue    *)
(* on the history of linked elements, or leaves that history alone.            *)

\* Every step is a call of the abstract queue, or is not visible there.
LEMMA StepRefines == Inv /\ [Next]_vars => [Abstract!Next]_(Abstract!vars)
  <1> SUFFICES ASSUME Inv, [Next]_vars
               PROVE  [Abstract!Next]_(Abstract!vars)
    OBVIOUS
  <1>a. /\ Len(order) \in Nat
        /\ (order = <<>>) <=> (Len(order) = 0)
        /\ head = NULL <=> order = <<>>
    BY SeqFacts
  <1>1. ASSUME NEW e \in Nodes, enqueue(e) PROVE Abstract!Enqueue(e)
    BY <1>1 DEF enqueue, Linked, Abstract!Enqueue, Abstract!Members
  <1>2. CASE dequeueFIFO_empty
    BY <1>2, <1>a DEF dequeueFIFO_empty, isEmpty, Abstract!RemoveFromEmpty,
                      Abstract!Next
  <1>3. CASE dequeueFIFO_single
    BY <1>3, <1>a DEF dequeueFIFO_single, isEmpty, Inv, ListShape,
                      Abstract!RemoveOldest, Abstract!Next
  <1>4. CASE dequeueFIFO_start \/ dequeueFIFO_step
    BY <1>4 DEF dequeueFIFO_start, dequeueFIFO_step, Abstract!vars
  <1>5. CASE dequeueFIFO_unlink
    <2>1. temp = order[1] /\ order # <<>>
      BY <1>5, <1>a DEF dequeueFIFO_unlink, Inv, ListShape, WalkStaysLinked
    <2>2. QED
      BY <1>5, <2>1 DEF dequeueFIFO_unlink, Abstract!RemoveOldest,
                        Abstract!Next
  <1>6. CASE dequeueLIFO
    BY <1>6, <1>a DEF dequeueLIFO, isEmpty, Inv, ListShape,
                      Abstract!RemoveNewest, Abstract!Next
  <1>7. CASE UNCHANGED vars
    BY <1>7 DEF vars, Abstract!vars
  <1>8. QED
    BY <1>1, <1>2, <1>3, <1>4, <1>5, <1>6, <1>7
       DEF Next, Walk, Abstract!Next

\* The pointer-level queue implements the abstract FIFO (and LIFO) queue.
THEOREM QueueImplementsFifo == Spec => ImplementsFifo
  <1>1. Init => Abstract!Init
    BY DEF Init, Abstract!Init
  <1>2. QED
    BY InitInv, NextInv, <1>1, StepRefines, PTL
       DEF Spec, ImplementsFifo, Abstract!Spec
=============================================================================
