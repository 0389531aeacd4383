------------------------- MODULE PriorityQueueProofs -------------------------
(* A METAPCB queue whose tails are not moved keeps its lists, and implements   *)
(* the abstract FIFO per priority, for every set of processes and priorities.  *)
(* Of SchedulerProofs only the lemmas about lists are used here; no proof      *)
(* cites SchedulerAssumption.                                                  *)
EXTENDS PriorityQueue, SchedulerProofs

QueueStates ==
    [next : [Pids -> Pointers], priority : [Pids -> Levels], hung : BOOLEAN,
     head : [Queues -> [Levels -> Pointers]],
     tail : [Queues -> [Levels -> Pointers]],
     highest_prio : [Queues -> 0 .. NUM_PRIO + 1]]

\* The pointers of k hold the lists L, each of processes of its priority.
Holds(k, L) ==
    /\ k \in QueueStates /\ ~k.hung
    /\ L \in [Levels -> Seq(Pids)]
    /\ \A l \in Levels : /\ ListIs(k, Q, l, L[l])
                         /\ \A i \in 1 .. Len(L[l]) : k.priority[L[l][i]] = l
    /\ highest_prio_exact(k, Q)

\* The inductive invariant.
Inv == Holds(s, level)

LinkedIn(L, p) == \E l \in Levels : \E i \in 1 .. Len(L[l]) : L[l][i] = p

\* A list is empty when its head says so.
LEMMA EmptyWhenNull ==
    ASSUME NEW k, NEW L, Holds(k, L), NEW l \in Levels
    PROVE  isEmpty(k, Q, l) <=> L[l] = << >>
<1>1. ListIs(k, Q, l, L[l])
  BY DEF Holds
<1>2. /\ L[l] # << >> <=> Len(L[l]) # 0
      /\ Len(L[l]) \in Nat
      /\ \A i \in 1 .. Len(L[l]) : L[l][i] # NULL
  BY <1>1, ListFits
<1>3. k.head[Q][l] = IF L[l] = << >> THEN NULL ELSE L[l][Len(L[l])]
  BY <1>1 DEF ListIs
<1>. QED  BY <1>2, <1>3 DEF isEmpty

\* A call that works on one list only leaves the others alone: their processes
\* have other priorities.
LEMMA OneListChanged ==
    ASSUME NEW k, NEW L, Holds(k, L), NEW l \in Levels,
           NEW e \in QueueStates, ~e.hung, e.priority = k.priority,
           \A p \in Pids : k.priority[p] # l => e.next[p] = k.next[p],
           \A m \in Levels : m # l => /\ e.head[Q][m] = k.head[Q][m]
                                      /\ e.tail[Q][m] = k.tail[Q][m],
           NEW r \in Seq(Pids), ListIs(e, Q, l, r),
           \A i \in 1 .. Len(r) : k.priority[r[i]] = l,
           highest_prio_exact(e, Q)
    PROVE  Holds(e, [L EXCEPT ![l] = r])
<1> DEFINE M == [L EXCEPT ![l] = r]
<1>1. L \in [Levels -> Seq(Pids)]
  BY DEF Holds
<1>2. M \in [Levels -> Seq(Pids)] /\ M[l] = r /\ \A m \in Levels : m # l => M[m] = L[m]
  BY <1>1
<1> HIDE DEF M
<1>3. ASSUME NEW m \in Levels
      PROVE  /\ ListIs(e, Q, m, M[m])
             /\ \A i \in 1 .. Len(M[m]) : e.priority[M[m][i]] = m
  <2>1. CASE m = l
    BY <1>2, <2>1
  <2>2. CASE m # l
    <3>1. /\ ListIs(k, Q, m, L[m]) /\ M[m] = L[m]
          /\ \A i \in 1 .. Len(L[m]) : k.priority[L[m][i]] = m
      BY <1>2, <2>2 DEF Holds
    <3>2. \A i \in 1 .. Len(L[m]) : L[m][i] \in Pids
      BY <3>1, ListFits
    <3>3. \A i \in 1 .. Len(L[m]) : e.next[L[m][i]] = k.next[L[m][i]]
      BY <2>2, <3>1, <3>2
    <3>4. ListIs(e, Q, m, L[m])
      BY <2>2, <3>1, <3>3, ListKept
    <3>. QED  BY <3>1, <3>4
  <2>. QED  BY <2>1, <2>2
<1>4. Holds(e, M)
  BY <1>2, <1>3 DEF Holds
<1>. QED  BY <1>4 DEF M

\* Linking in a process that is on no list.
LEMMA EnqueueHolds ==
    ASSUME NEW k, NEW L, Holds(k, L), NEW p \in Pids, ~LinkedIn(L, p)
    PROVE  Holds(enqueue_PCB_by_priority(k, Q, p),
                 [L EXCEPT ![k.priority[p]] = Append(@, p)])
<1> DEFINE l == k.priority[p]
           nx == [k.next EXCEPT ![p] = k.head[Q][l]]
           hd == [k.head EXCEPT ![Q][l] = p]
           t == IF isEmpty(k, Q, l) THEN p ELSE k.tail[Q][l]
           tl == [k.tail EXCEPT ![Q][l] = t]
           hp == [k.highest_prio EXCEPT ![Q] = IF l < @ THEN l ELSE @]
           e == [k EXCEPT !.next = nx, !.head = hd, !.tail = tl, !.highest_prio = hp]
           r == Append(L[l], p)
<1>1. /\ k \in QueueStates /\ ~k.hung
      /\ k.next \in [Pids -> Pointers] /\ k.priority \in [Pids -> Levels]
      /\ k.head \in [Queues -> [Levels -> Pointers]]
      /\ k.tail \in [Queues -> [Levels -> Pointers]]
      /\ k.highest_prio \in [Queues -> 0 .. NUM_PRIO + 1]
      /\ Q \in Queues /\ highest_prio_exact(k, Q)
      /\ L \in [Levels -> Seq(Pids)]
  BY PriorityAssumption DEF Holds, QueueStates
<1>2. l \in Levels
  BY <1>1
<1>3. enqueue_PCB_by_priority(k, Q, p) = e
  <2>1. enqueue_PCB(k, Q, l, p) = [k EXCEPT !.next = nx, !.head = hd, !.tail = tl]
    BY DEF enqueue_PCB
  <2>2. enqueue_PCB_by_priority(k, Q, p) =
           [enqueue_PCB(k, Q, l, p) EXCEPT !.highest_prio[Q] = IF l < @ THEN l ELSE @]
    BY DEF enqueue_PCB_by_priority
  <2> HIDE DEF nx, hd, tl, l
  <2>. QED  BY <1>1, <2>1, <2>2 DEF QueueStates
<1>4. p \in Pointers /\ k.head[Q][l] \in Pointers /\ t \in Pointers
  BY <1>1, <1>2 DEF Pointers
<1>5. /\ nx \in [Pids -> Pointers]
      /\ \A x \in Pids : x # p => nx[x] = k.next[x]
  BY <1>4, <1>1
<1>6. /\ hd \in [Queues -> [Levels -> Pointers]] /\ hd[Q][l] = p
      /\ \A m \in Levels : m # l => hd[Q][m] = k.head[Q][m]
  BY <1>1, <1>2, <1>4
<1>7. /\ tl \in [Queues -> [Levels -> Pointers]] /\ tl[Q][l] = t
      /\ \A m \in Levels : m # l => tl[Q][m] = k.tail[Q][m]
  <2> HIDE DEF t
  <2>. QED  BY <1>1, <1>2, <1>4
<1>8. /\ hp \in [Queues -> 0 .. NUM_PRIO + 1]
      /\ hp[Q] = IF l < k.highest_prio[Q] THEN l ELSE k.highest_prio[Q]
  BY <1>1, <1>2 DEF Levels, NUM_PRIO
<1>9. ListIs(k, Q, l, L[l]) /\ \A i \in 1 .. Len(L[l]) : k.priority[L[l][i]] = l
  BY <1>2 DEF Holds
<1>10. \A i \in 1 .. Len(L[l]) : L[l][i] # p
  BY <1>2 DEF LinkedIn
<1>11. r \in Seq(Pids) /\ \A i \in 1 .. Len(r) : k.priority[r[i]] = l
  <2>1. L[l] \in Seq(Pids) /\ Len(L[l]) \in Nat
    BY <1>1, <1>2
  <2>2. /\ r \in Seq(Pids) /\ Len(r) = Len(L[l]) + 1
        /\ \A i \in 1 .. Len(L[l]) : r[i] = L[l][i]
        /\ r[Len(L[l]) + 1] = p
    BY <2>1, AppendProperties
  <2> HIDE DEF r
  <2>. QED  BY <1>9, <2>1, <2>2
<1> HIDE DEF nx, hd, tl, hp
<1>12. /\ e \in QueueStates /\ ~e.hung /\ e.priority = k.priority
       /\ e.next = nx /\ e.head = hd /\ e.tail = tl /\ e.highest_prio = hp
  BY <1>1, <1>5, <1>6, <1>7, <1>8 DEF QueueStates
<1> HIDE DEF e
<1>13. ListIs(e, Q, l, r)
  BY <1>1, <1>6, <1>7, <1>9, <1>10, <1>12, ListEnqueued DEF nx
<1>14. highest_prio_exact(e, Q)
  <2>1. \A m \in Levels : isEmpty(e, Q, m) <=> m # l /\ isEmpty(k, Q, m)
    BY <1>6, <1>12, PidsAssumption DEF isEmpty
  <2> HIDE DEF l
  <2>2. e.highest_prio[Q] = IF l < k.highest_prio[Q] THEN l ELSE k.highest_prio[Q]
    BY <1>8, <1>12
  <2>. QED  BY <1>1, <1>2, <2>1, <2>2 DEF highest_prio_exact, Levels, NUM_PRIO
<1> HIDE DEF l, r
<1>15. \A x \in Pids : k.priority[x] # l => e.next[x] = k.next[x]
  BY <1>5, <1>12 DEF l
<1>16. Holds(e, [L EXCEPT ![l] = r])
  <2>1. \A m \in Levels : m # l => /\ e.head[Q][m] = k.head[Q][m]
                                   /\ e.tail[Q][m] = k.tail[Q][m]
    BY <1>6, <1>7, <1>12
  <2>. QED  BY <1>2, <1>11, <1>12, <1>13, <1>14, <1>15, <2>1, OneListChanged
<1>. QED  BY <1>1, <1>2, <1>3, <1>16 DEF r, l

\* Once highest_prio is moved on from a list above which all are empty, it is
\* right.
LEMMA MovedOnIsExact ==
    ASSUME NEW d, NEW e, NEW l \in 0 .. NUM_PRIO + 1,
           \A m \in Levels : m < l => isEmpty(d, Q, m),
           e.head = d.head, e.highest_prio[Q] = first_not_empty(d, Q, l)
    PROVE  highest_prio_exact(e, Q)
<1> DEFINE n == first_not_empty(d, Q, l)
<1>1. /\ n \in l .. NUM_PRIO + 1
      /\ n \in Levels => ~isEmpty(d, Q, n)
      /\ \A m \in l .. n - 1 : isEmpty(d, Q, m)
  BY FirstNotEmpty
<1> HIDE DEF n
<1>2. \A m \in Levels : isEmpty(e, Q, m) <=> isEmpty(d, Q, m)
  BY DEF isEmpty
<1>3. \A m \in Levels : m < n => isEmpty(d, Q, m)
  BY <1>1 DEF Levels, NUM_PRIO
<1>4. e.highest_prio[Q] = n
  BY DEF n
<1>5. n \in 0 .. NUM_PRIO + 1
  BY <1>1 DEF NUM_PRIO
<1>. QED  BY <1>1, <1>2, <1>3, <1>4, <1>5 DEF highest_prio_exact

\* Emptying a list and moving highest_prio on, as the last process is taken off.
LEMMA EmptiedHolds ==
    ASSUME NEW k, NEW L, Holds(k, L), NEW l \in Levels,
           NEW r \in Seq(Pids), Len(r) = 0
    PROVE  Holds(MovedOn(unlink_all(k, Q, l), Q), [L EXCEPT ![l] = r])
<1> DEFINE hd == [k.head EXCEPT ![Q][l] = NULL]
           tl == [k.tail EXCEPT ![Q][l] = NULL]
           d == [k EXCEPT !.head = hd, !.tail = tl]
           f == first_not_empty(d, Q, k.highest_prio[Q])
           hp == [k.highest_prio EXCEPT ![Q] = f]
           e == [k EXCEPT !.head = hd, !.tail = tl, !.highest_prio = hp]
<1>1. /\ k \in QueueStates /\ ~k.hung
      /\ k.next \in [Pids -> Pointers] /\ k.priority \in [Pids -> Levels]
      /\ k.head \in [Queues -> [Levels -> Pointers]]
      /\ k.tail \in [Queues -> [Levels -> Pointers]]
      /\ k.highest_prio \in [Queues -> 0 .. NUM_PRIO + 1]
      /\ Q \in Queues /\ highest_prio_exact(k, Q)
      /\ k.highest_prio[Q] \in 0 .. NUM_PRIO + 1
  BY PriorityAssumption DEF Holds, QueueStates
<1>2. /\ hd \in [Queues -> [Levels -> Pointers]] /\ hd[Q][l] = NULL
      /\ \A m \in Levels : m # l => hd[Q][m] = k.head[Q][m]
  BY <1>1 DEF Pointers
<1>3. /\ tl \in [Queues -> [Levels -> Pointers]]
      /\ \A m \in Levels : m # l => tl[Q][m] = k.tail[Q][m]
  BY <1>1 DEF Pointers
<1>4. unlink_all(k, Q, l) = d
  BY DEF unlink_all
<1> HIDE DEF hd, tl
<1>5. d.head = hd /\ d.highest_prio = k.highest_prio
  BY <1>1 DEF QueueStates
<1>6. f \in 0 .. NUM_PRIO + 1
  BY <1>1, FirstNotEmpty DEF NUM_PRIO
<1>7. hp \in [Queues -> 0 .. NUM_PRIO + 1] /\ hp[Q] = f
  BY <1>1, <1>6
<1>8. [d EXCEPT !.highest_prio[Q] = first_not_empty(d, Q, @)] = e
  <2>1. [d EXCEPT !.highest_prio[Q] = first_not_empty(d, Q, @)]
          = [d EXCEPT !.highest_prio = hp]
    BY <1>5
  <2> HIDE DEF hp
  <2>. QED  BY <1>1, <2>1 DEF QueueStates
<1> HIDE DEF hp, f
<1>9. /\ e \in QueueStates /\ ~e.hung /\ e.priority = k.priority
      /\ e.next = k.next /\ e.head = hd /\ e.tail = tl /\ e.highest_prio = hp
  BY <1>1, <1>2, <1>3, <1>7 DEF QueueStates
<1> HIDE DEF e, d
<1>10. highest_prio_exact(e, Q)
  <2>1. ASSUME NEW m \in Levels, m < k.highest_prio[Q] PROVE isEmpty(d, Q, m)
    BY <1>1, <1>2, <1>5, <2>1 DEF highest_prio_exact, isEmpty
  <2>2. e.head = d.head /\ e.highest_prio[Q] = first_not_empty(d, Q, k.highest_prio[Q])
    BY <1>5, <1>7, <1>9 DEF f
  <2>. QED  BY <1>1, <2>1, <2>2, MovedOnIsExact
<1>11. ListIs(e, Q, l, r)
  BY <1>2, <1>9, ListEmptied
<1>12. Holds(e, [L EXCEPT ![l] = r])
  <2>1. \A i \in 1 .. Len(r) : k.priority[r[i]] = l
    OBVIOUS
  <2>2. \A p \in Pids : k.priority[p] # l => e.next[p] = k.next[p]
    BY <1>9
  <2>3. \A m \in Levels : m # l => /\ e.head[Q][m] = k.head[Q][m]
                                   /\ e.tail[Q][m] = k.tail[Q][m]
    BY <1>2, <1>3, <1>9
  <2>. QED  BY <1>9, <1>10, <1>11, <2>1, <2>2, <2>3, OneListChanged
<1>. QED  BY <1>4, <1>8, <1>12 DEF MovedOn

\* What a removal leaves of a sequence, position by position.
LEMMA RemovalShortens ==
    ASSUME NEW q \in Seq(Pids), NEW j \in 1 .. Len(q)
    PROVE  /\ Shortened(q, j, Seqs!RemoveAt(q, j))
           /\ Shortened(q, 1, Tail(q))
<1> DEFINE a == SubSeq(q, 1, j - 1)
           b == SubSeq(q, j + 1, Len(q))
<1>1. /\ a \in Seq(Pids) /\ Len(a) = j - 1
      /\ \A i \in 1 .. j - 1 : a[i] = q[i]
  OBVIOUS
<1>2. /\ b \in Seq(Pids) /\ Len(b) = Len(q) - j
      /\ \A i \in 1 .. Len(q) - j : b[i] = q[j + i]
  OBVIOUS
<1>3. Seqs!RemoveAt(q, j) = a \o b
  BY DEF Seqs!RemoveAt
<1> HIDE DEF a, b
<1>4. /\ a \o b \in Seq(Pids)
      /\ Len(a \o b) = Len(a) + Len(b)
      /\ \A i \in 1 .. Len(a) + Len(b) :
            (a \o b)[i] = IF i <= Len(a) THEN a[i] ELSE b[i - Len(a)]
  BY <1>1, <1>2, ConcatProperties
<1> DEFINE c == a \o b
<1> HIDE DEF c
<1>5. c \in Seq(Pids) /\ Len(c) = Len(q) - 1
  BY <1>1, <1>2, <1>4 DEF c
<1>6. ASSUME NEW i \in 1 .. Len(c) PROVE c[i] = IF i < j THEN q[i] ELSE q[i + 1]
  <2>1. c[i] = IF i <= j - 1 THEN a[i] ELSE b[i - (j - 1)]
    BY <1>1, <1>2, <1>4, <1>5 DEF c
  <2>2. CASE i < j
    BY <1>1, <2>1, <2>2
  <2>3. CASE ~(i < j)
    <3>1. i - (j - 1) \in 1 .. Len(q) - j /\ j + (i - (j - 1)) = i + 1
      BY <1>5, <2>3
    <3>2. b[i - (j - 1)] = q[j + (i - (j - 1))]
      BY <1>2, <3>1
    <3>. QED  BY <2>1, <2>3, <3>1, <3>2
  <2>. QED  BY <2>2, <2>3
<1>7. Shortened(q, 1, Tail(q))
  <2>1. q # << >>
    BY EmptySeq
  <2>2. /\ Tail(q) \in Seq(Pids) /\ Len(Tail(q)) = Len(q) - 1
        /\ \A i \in 1 .. Len(Tail(q)) : Tail(q)[i] = q[i + 1]
    BY <2>1, HeadTailProperties
  <2>. QED  BY <2>2 DEF Shortened
<1>. QED  BY <1>3, <1>5, <1>6, <1>7 DEF Shortened, c

\* Taking the tail of the most urgent list that is not empty, if it is not the
\* only process there.
LEMMA TailTakenHolds ==
    ASSUME NEW k, NEW L, Holds(k, L),
           NEW l \in Levels, k.highest_prio[Q] = l,
           NEW q, L[l] = q, Len(q) > 1
    PROVE  Holds(MovedOn(TailTaken(k, Q, l, q), Q), [L EXCEPT ![l] = Tail(q)])
<1> DEFINE r == Tail(q)
           nx == [k.next EXCEPT ![q[2]] = NULL]
           tl == [k.tail EXCEPT ![Q][l] = q[2]]
           g == [k EXCEPT !.next = nx, !.tail = tl]
           n == first_not_empty(g, Q, l)
           hp == [k.highest_prio EXCEPT ![Q] = n]
           e == [k EXCEPT !.next = nx, !.tail = tl, !.highest_prio = hp]
<1>1. /\ k \in QueueStates /\ ~k.hung
      /\ k.next \in [Pids -> Pointers] /\ k.priority \in [Pids -> Levels]
      /\ k.head \in [Queues -> [Levels -> Pointers]]
      /\ k.tail \in [Queues -> [Levels -> Pointers]]
      /\ k.highest_prio \in [Queues -> 0 .. NUM_PRIO + 1]
      /\ Q \in Queues /\ highest_prio_exact(k, Q)
      /\ l \in 0 .. NUM_PRIO + 1
  BY PriorityAssumption DEF Holds, QueueStates
<1>2. ListIs(k, Q, l, q) /\ \A i \in 1 .. Len(q) : k.priority[q[i]] = l
  BY DEF Holds
<1>3. /\ q \in Seq(Pids) /\ Len(q) \in Nat
      /\ \A i \in 1 .. Len(q) : q[i] \in Pids
  BY <1>2, ListFacts
<1>4. Shortened(q, 1, r)
  BY <1>3, RemovalShortens
<1>5. /\ q[2] \in Pids /\ q[2] \in Pointers /\ NULL \in Pointers
      /\ k.priority[q[2]] = l
  BY <1>2, <1>3 DEF Pointers
<1>6. /\ nx \in [Pids -> Pointers]
      /\ \A x \in Pids : x # q[2] => nx[x] = k.next[x]
  BY <1>1, <1>5
<1>7. /\ tl \in [Queues -> [Levels -> Pointers]] /\ tl[Q][l] = q[2]
      /\ \A m \in Levels : m # l => tl[Q][m] = k.tail[Q][m]
  <2>1. \A x \in Pointers : [k.tail EXCEPT ![Q][l] = x] \in [Queues -> [Levels -> Pointers]]
    BY <1>1
  <2>. QED  BY <1>1, <1>5, <2>1
<1>8. n \in 0 .. NUM_PRIO + 1
  BY <1>1, FirstNotEmpty DEF NUM_PRIO
<1>9. hp \in [Queues -> 0 .. NUM_PRIO + 1] /\ hp[Q] = n
  BY <1>1, <1>8
<1>10. TailTaken(k, Q, l, q) = g
  BY DEF TailTaken
<1> HIDE DEF nx, tl
<1>11. g.head = k.head /\ g.highest_prio = k.highest_prio
  BY <1>1 DEF QueueStates
<1>12. MovedOn(TailTaken(k, Q, l, q), Q) = e
  <2>1. [g EXCEPT !.highest_prio[Q] = first_not_empty(g, Q, @)]
          = [g EXCEPT !.highest_prio = hp]
    BY <1>11
  <2> HIDE DEF hp, n
  <2>2. [g EXCEPT !.highest_prio = hp] = e
    BY <1>1 DEF QueueStates
  <2> HIDE DEF g
  <2>. QED  BY <1>10, <2>1, <2>2 DEF MovedOn
<1> HIDE DEF hp, n
<1>13. /\ e \in QueueStates /\ ~e.hung /\ e.priority = k.priority
       /\ e.next = nx /\ e.head = k.head /\ e.tail = tl /\ e.highest_prio = hp
  BY <1>1, <1>6, <1>7, <1>9 DEF QueueStates
<1> HIDE DEF e, g
<1>14. highest_prio_exact(e, Q)
  <2>1. \A m \in Levels : m < l => isEmpty(g, Q, m)
    BY <1>1, <1>11 DEF highest_prio_exact, isEmpty
  <2>2. e.head = g.head /\ e.highest_prio[Q] = first_not_empty(g, Q, l)
    BY <1>9, <1>11, <1>13 DEF n
  <2>. QED  BY <1>1, <2>1, <2>2, MovedOnIsExact
<1>15. ListIs(e, Q, l, r)
  <2>1. e.head[Q][l] = k.head[Q][l] /\ e.tail[Q][l] = q[2]
    BY <1>7, <1>13
  <2>2. e.next = [k.next EXCEPT ![q[2]] = NULL]
    BY <1>13 DEF nx
  <2> HIDE DEF r
  <2>. QED  BY <1>1, <1>2, <1>4, <2>1, <2>2, ListTailTaken
<1> HIDE DEF r
<1>16. Holds(e, [L EXCEPT ![l] = r])
  <2>1. r \in Seq(Pids) /\ \A i \in 1 .. Len(r) : k.priority[r[i]] = l
    <3>1. r \in Seq(Pids) /\ \A i \in 1 .. Len(r) : i + 1 \in 1 .. Len(q) /\ r[i] = q[i + 1]
      BY <1>3, <1>4 DEF Shortened
    <3>. QED  BY <1>2, <3>1
  <2>2. \A p \in Pids : k.priority[p] # l => e.next[p] = k.next[p]
    BY <1>5, <1>6, <1>13
  <2>3. \A m \in Levels : m # l => /\ e.head[Q][m] = k.head[Q][m]
                                   /\ e.tail[Q][m] = k.tail[Q][m]
    BY <1>7, <1>13
  <2>. QED  BY <1>13, <1>14, <1>15, <2>1, <2>2, <2>3, OneListChanged
<1>. QED  BY <1>12, <1>16 DEF r

\* A natural number that is not 0 is 1 or greater.
LEMMA OneOrMore == \A n \in Nat : n # 0 => n = 1 \/ n > 1
  OBVIOUS

\* Taking out the oldest process of the most urgent list that is not empty.
LEMMA DequeueFromHighest ==
    ASSUME NEW k, NEW L, Holds(k, L),
           NEW l \in Levels, k.highest_prio[Q] = l,
           NEW q, L[l] = q, q # << >>
    PROVE  LET f == dequeue_PCB_FIFO(k, Q, l)
           IN  f.pcb = q[1] /\ Holds(MovedOn(f.s, Q), [L EXCEPT ![l] = Tail(q)])
<1>1. ListIs(k, Q, l, q)
  BY DEF Holds
<1>2. q \in Seq(Pids) /\ Len(q) \in Nat /\ Len(q) # 0
  BY <1>1, ListFacts
<1>3. Tail(q) \in Seq(Pids) /\ Len(Tail(q)) = Len(q) - 1
  BY <1>2, HeadTailProperties
<1>4. CASE Len(q) = 1
  <2>1. dequeue_PCB_FIFO(k, Q, l) = [pcb |-> q[1], s |-> unlink_all(k, Q, l)]
    BY <1>1, <1>4, DequeueOnList
  <2>2. Len(Tail(q)) = 0
    BY <1>3, <1>4
  <2>3. Holds(MovedOn(unlink_all(k, Q, l), Q), [L EXCEPT ![l] = Tail(q)])
    BY <1>3, <2>2, EmptiedHolds
  <2>. QED  BY <2>1, <2>3
<1>5. CASE Len(q) > 1
  <2>1. dequeue_PCB_FIFO(k, Q, l) = [pcb |-> q[1], s |-> TailTaken(k, Q, l, q)]
    BY <1>1, <1>5, DequeueOnList
  <2>2. Holds(MovedOn(TailTaken(k, Q, l, q), Q), [L EXCEPT ![l] = Tail(q)])
    BY <1>5, TailTakenHolds
  <2>. QED  BY <2>1, <2>2
<1>. QED  BY <1>2, <1>4, <1>5, OneOrMore, Zenon

\* Taking out the most urgent and oldest process: no one if highest_prio says
\* that all lists are empty, and otherwise the oldest of the list it says.
LEMMA DequeueHolds ==
    ASSUME NEW k, NEW L, Holds(k, L)
    PROVE  LET d == dequeue_PCB_FIFO_by_priority(k, Q)
               l == k.highest_prio[Q]
           IN  /\ \A m \in Levels : m < l => L[m] = << >>
               /\ l \notin Levels => d.pcb = NULL /\ d.s = k /\ l = NUM_PRIO + 1
               /\ l \in Levels => /\ L[l] # << >> /\ d.pcb = L[l][1]
                                  /\ Holds(d.s, [L EXCEPT ![l] = Tail(L[l])])
<1> DEFINE d == dequeue_PCB_FIFO_by_priority(k, Q)
<1> SUFFICES ASSUME NEW l, l = k.highest_prio[Q]
             PROVE  /\ \A m \in Levels : m < l => L[m] = << >>
                    /\ l \notin Levels => d.pcb = NULL /\ d.s = k /\ l = NUM_PRIO + 1
                    /\ l \in Levels => /\ L[l] # << >> /\ d.pcb = L[l][1]
                                       /\ Holds(d.s, [L EXCEPT ![l] = Tail(L[l])])
  OBVIOUS
<1>1. highest_prio_exact(k, Q) /\ l \in 0 .. NUM_PRIO + 1
  BY PriorityAssumption DEF Holds, QueueStates
<1>2. \A m \in Levels : m < l => L[m] = << >>
  BY <1>1, EmptyWhenNull DEF highest_prio_exact
<1>3. ASSUME l \notin Levels PROVE d.pcb = NULL /\ d.s = k /\ l = NUM_PRIO + 1
  BY <1>1, <1>3 DEF dequeue_PCB_FIFO_by_priority, Levels, NUM_PRIO
<1>4. ASSUME l \in Levels
      PROVE  /\ L[l] # << >> /\ d.pcb = L[l][1]
             /\ Holds(d.s, [L EXCEPT ![l] = Tail(L[l])])
  <2> DEFINE f == dequeue_PCB_FIFO(k, Q, l)
  <2>1. L[l] # << >>
    BY <1>1, <1>4, EmptyWhenNull DEF highest_prio_exact
  <2>2. ~(l > NUM_PRIO)
    BY <1>4 DEF Levels, NUM_PRIO
  <2>3. d.pcb = f.pcb /\ d.s = MovedOn(f.s, Q)
    BY <2>2 DEF dequeue_PCB_FIFO_by_priority, MovedOn
  <2>4. f.pcb = L[l][1] /\ Holds(MovedOn(f.s, Q), [L EXCEPT ![l] = Tail(L[l])])
    <3>1. \A q : q = L[l] =>
             f.pcb = q[1] /\ Holds(MovedOn(f.s, Q), [L EXCEPT ![l] = Tail(q)])
      <4> SUFFICES ASSUME NEW q, L[l] = q, q # << >>, k.highest_prio[Q] = l
                   PROVE  /\ f.pcb = q[1]
                          /\ Holds(MovedOn(f.s, Q), [L EXCEPT ![l] = Tail(q)])
        BY <2>1
      <4>. QED  BY <1>4, DequeueFromHighest
    <3>. QED  BY <3>1
  <2> HIDE DEF f, d
  <2>. QED  BY <2>1, <2>3, <2>4
<1>. QED  BY <1>2, <1>3, <1>4

\* Taking the head of a list of several processes, or one between the ends.
LEMMA HeadTakenHolds ==
    ASSUME NEW k, NEW L, Holds(k, L),
           NEW l \in Levels, NEW q, L[l] = q, Len(q) > 1,
           NEW r, Shortened(q, Len(q), r)
    PROVE  Holds(HeadTaken(k, Q, l, q), [L EXCEPT ![l] = r])
<1> DEFINE h == k.next[q[Len(q)]]
           hd == [k.head EXCEPT ![Q][l] = h]
           e == [k EXCEPT !.head = hd]
<1>1. /\ k \in QueueStates /\ ~k.hung
      /\ k.next \in [Pids -> Pointers] /\ k.priority \in [Pids -> Levels]
      /\ k.head \in [Queues -> [Levels -> Pointers]]
      /\ Q \in Queues /\ highest_prio_exact(k, Q)
  BY PriorityAssumption DEF Holds, QueueStates
<1>2. ListIs(k, Q, l, q) /\ \A i \in 1 .. Len(q) : k.priority[q[i]] = l
  BY DEF Holds
<1>3. /\ q \in Seq(Pids) /\ Len(q) \in Nat /\ q # << >>
      /\ \A i \in 1 .. Len(q) : q[i] \in Pids /\ q[i] # NULL
      /\ k.head[Q][l] = q[Len(q)]
      /\ k.next[q[Len(q)]] = q[Len(q) - 1]
  <2>1. /\ Len(q) \in Nat /\ q # << >>
        /\ \A i \in 1 .. Len(q) : q[i] \in Pids /\ q[i] # NULL
    BY <1>2, ListFits
  <2>. QED  BY <1>2, <2>1 DEF ListIs
<1>4. h \in Pointers /\ h # NULL /\ h = k.next[k.head[Q][l]]
  BY <1>3 DEF Pointers
<1>5. HeadTaken(k, Q, l, q) = e
  BY DEF HeadTaken
<1> HIDE DEF h
<1>6. /\ hd \in [Queues -> [Levels -> Pointers]] /\ hd[Q][l] = h
      /\ \A m \in Levels : m # l => hd[Q][m] = k.head[Q][m]
  BY <1>1, <1>4
<1> HIDE DEF hd
<1>7. /\ e \in QueueStates /\ ~e.hung /\ e.priority = k.priority
      /\ e.next = k.next /\ e.head = hd /\ e.tail = k.tail
      /\ e.highest_prio = k.highest_prio
  BY <1>1, <1>6 DEF QueueStates
<1> HIDE DEF e
<1>8. highest_prio_exact(e, Q)
  <2>1. \A m \in Levels : isEmpty(e, Q, m) <=> isEmpty(k, Q, m)
    BY <1>3, <1>4, <1>6, <1>7 DEF isEmpty
  <2>. QED  BY <1>1, <1>7, <2>1 DEF highest_prio_exact, Levels, NUM_PRIO
<1>9. ListIs(e, Q, l, r)
  <2>1. e.head[Q][l] = k.next[k.head[Q][l]]
    BY <1>4, <1>6, <1>7
  <2>. QED  BY <1>2, <1>7, <2>1, ListHeadTaken
<1>10. r \in Seq(Pids) /\ \A i \in 1 .. Len(r) : k.priority[r[i]] = l
  <2>1. /\ r \in Seq(Pids)
        /\ \A i \in 1 .. Len(r) : i \in 1 .. Len(q) /\ r[i] = q[i]
    BY <1>3 DEF Shortened
  <2>. QED  BY <1>2, <2>1
<1>11. Holds(e, [L EXCEPT ![l] = r])
  <2>1. \A p \in Pids : k.priority[p] # l => e.next[p] = k.next[p]
    BY <1>7
  <2>2. \A m \in Levels : m # l => /\ e.head[Q][m] = k.head[Q][m]
                                   /\ e.tail[Q][m] = k.tail[Q][m]
    BY <1>6, <1>7
  <2>. QED  BY <1>7, <1>8, <1>9, <1>10, <2>1, <2>2, OneListChanged
<1>. QED  BY <1>5, <1>11

\* A PCB that is neither first nor last is unlinked: its list loses it, and no
\* other list changes.
LEMMA MiddleTakenHolds ==
    ASSUME NEW k, NEW L, Holds(k, L),
           NEW l \in Levels, NEW q, L[l] = q, NEW j \in 2 .. Len(q) - 1,
           NEW r, Shortened(q, j, r)
    PROVE  Holds(MiddleTaken(k, q, j), [L EXCEPT ![l] = r])
<1> DEFINE nx == [k.next EXCEPT ![q[j + 1]] = k.next[q[j]]]
           e == [k EXCEPT !.next = nx]
<1>1. /\ k \in QueueStates /\ ~k.hung
      /\ k.next \in [Pids -> Pointers] /\ k.priority \in [Pids -> Levels]
      /\ highest_prio_exact(k, Q)
  BY PriorityAssumption DEF Holds, QueueStates
<1>2. ListIs(k, Q, l, q) /\ \A i \in 1 .. Len(q) : k.priority[q[i]] = l
  BY DEF Holds
<1>3. /\ q \in Seq(Pids) /\ Len(q) \in Nat
      /\ \A i \in 1 .. Len(q) : q[i] \in Pids
      /\ j \in 1 .. Len(q) /\ j + 1 \in 1 .. Len(q)
  BY <1>2, ListFacts
<1>4. /\ q[j + 1] \in Pids /\ k.next[q[j]] \in Pointers
      /\ k.priority[q[j + 1]] = l
  BY <1>1, <1>2, <1>3
<1>5. /\ nx \in [Pids -> Pointers]
      /\ \A x \in Pids : x # q[j + 1] => nx[x] = k.next[x]
  BY <1>1, <1>4
<1>6. MiddleTaken(k, q, j) = e
  BY DEF MiddleTaken
<1> HIDE DEF nx
<1>7. /\ e \in QueueStates /\ ~e.hung /\ e.priority = k.priority
      /\ e.next = nx /\ e.head = k.head /\ e.tail = k.tail
      /\ e.highest_prio = k.highest_prio
  BY <1>1, <1>5 DEF QueueStates
<1> HIDE DEF e
<1>8. highest_prio_exact(e, Q)
  BY <1>1, <1>7 DEF highest_prio_exact, isEmpty
<1>9. ListIs(e, Q, l, r)
  <2>1. /\ e.next = [k.next EXCEPT ![q[j + 1]] = k.next[q[j]]]
        /\ e.head[Q][l] = k.head[Q][l] /\ e.tail[Q][l] = k.tail[Q][l]
    BY <1>7 DEF nx
  <2>. QED  BY <1>1, <1>2, <2>1, ListMiddleTaken
<1>10. r \in Seq(Pids) /\ \A i \in 1 .. Len(r) : k.priority[r[i]] = l
  <2>1. /\ r \in Seq(Pids)
        /\ \A i \in 1 .. Len(r) : /\ i \in 1 .. Len(q) /\ i + 1 \in 1 .. Len(q)
                                  /\ r[i] = q[i] \/ r[i] = q[i + 1]
    BY <1>3 DEF Shortened
  <2>. QED  BY <1>2, <2>1
<1>11. Holds(e, [L EXCEPT ![l] = r])
  <2>1. \A p \in Pids : k.priority[p] # l => e.next[p] = k.next[p]
    BY <1>4, <1>5, <1>7
  <2>2. \A m \in Levels : m # l => /\ e.head[Q][m] = k.head[Q][m]
                                   /\ e.tail[Q][m] = k.tail[Q][m]
    BY <1>7
  <2>. QED  BY <1>7, <1>8, <1>9, <1>10, <2>1, <2>2, OneListChanged
<1>. QED  BY <1>6, <1>11

\* Taking a linked process off its list finds it, and breaks nothing unless the
\* process is the tail of a longer list.
LEMMA RemoveHolds ==
    ASSUME NEW k, NEW L, Holds(k, L), NEW p \in Pids,
           NEW l \in Levels, k.priority[p] = l,
           NEW j \in 1 .. Len(L[l]), L[l][j] = p,
           p # k.tail[Q][l] \/ p = k.head[Q][l]
    PROVE  LET r == remove_element_by_priority(k, Q, p)
           IN  /\ r.found
               /\ Holds(r.s, [L EXCEPT ![l] = Seqs!RemoveAt(L[l], j)])
<1> DEFINE r == remove_element_by_priority(k, Q, p)
<1> SUFFICES ASSUME NEW q, L[l] = q
             PROVE  r.found /\ Holds(r.s, [L EXCEPT ![l] = Seqs!RemoveAt(q, j)])
  OBVIOUS
<1>1. ListIs(k, Q, l, q) /\ j \in 1 .. Len(q) /\ q[j] = p
  BY DEF Holds
<1>2. /\ q \in Seq(Pids) /\ Len(q) \in Nat /\ q # << >>
      /\ \A i, n \in 1 .. Len(q) : q[i] = q[n] => i = n
      /\ k.head[Q][l] = q[Len(q)] /\ k.tail[Q][l] = q[1]
  BY <1>1, ListFacts
<1>3. Shortened(q, j, Seqs!RemoveAt(q, j))
  BY <1>1, <1>2, RemovalShortens
<1>4. Seqs!RemoveAt(q, j) \in Seq(Pids) /\ Len(Seqs!RemoveAt(q, j)) = Len(q) - 1
  BY <1>3 DEF Shortened
<1>5. j = 1 => Len(q) = 1
  <2>1. SUFFICES ASSUME j = 1 PROVE Len(q) = 1
    OBVIOUS
  <2>2. q[1] = q[Len(q)] /\ 1 \in 1 .. Len(q) /\ Len(q) \in 1 .. Len(q)
    BY <1>1, <1>2, <2>1
  <2>. QED  BY <1>2, <2>2
<1>6. \/ Len(q) = 1
      \/ Len(q) > 1 /\ j = Len(q)
      \/ 1 < j /\ j < Len(q)
  <2>1. \A n, i \in Nat : i \in 1 .. n /\ (i = 1 => n = 1) =>
           n = 1 \/ (n > 1 /\ i = n) \/ (1 < i /\ i < n)
    OBVIOUS
  <2>2. j \in Nat
    BY <1>1
  <2>. QED  BY <1>1, <1>2, <1>5, <2>1, <2>2, Zenon
<1>8. CASE Len(q) = 1
  <2>1. r = [found |-> TRUE, s |-> MovedOn(unlink_all(k, Q, l), Q)]
    BY <1>1, <1>8, RemoveOnList
  <2>2. Len(Seqs!RemoveAt(q, j)) = 0
    BY <1>4, <1>8
  <2>3. Holds(MovedOn(unlink_all(k, Q, l), Q), [L EXCEPT ![l] = Seqs!RemoveAt(q, j)])
    BY <1>4, <2>2, EmptiedHolds
  <2>. QED  BY <2>1, <2>3
<1>9. CASE Len(q) > 1 /\ j = Len(q)
  <2>1. r = [found |-> TRUE, s |-> HeadTaken(k, Q, l, q)]
    BY <1>1, <1>9, RemoveOnList
  <2>. QED  BY <1>3, <1>9, <2>1, HeadTakenHolds
<1>10. CASE 1 < j /\ j < Len(q)
  <2>1. r = [found |-> TRUE, s |-> MiddleTaken(k, q, j)]
    BY <1>1, <1>10, RemoveOnList
  <2>2. j \in 2 .. Len(q) - 1
    BY <1>1, <1>2, <1>10
  <2>3. Holds(MiddleTaken(k, q, j), [L EXCEPT ![l] = Seqs!RemoveAt(q, j)])
    BY <1>3, <2>2, MiddleTakenHolds
  <2>. QED  BY <2>1, <2>3
<1>. QED  BY <1>6, <1>8, <1>9, <1>10

\* Giving another priority to a process that is on no list.
LEMMA SetPriorityHolds ==
    ASSUME NEW k, NEW L, Holds(k, L), NEW p \in Pids, NEW l \in Levels,
           ~LinkedIn(L, p)
    PROVE  Holds([k EXCEPT !.priority[p] = l], L)
<1> DEFINE pr == [k.priority EXCEPT ![p] = l]
           e == [k EXCEPT !.priority = pr]
<1>1. k \in QueueStates /\ ~k.hung /\ k.priority \in [Pids -> Levels]
  BY DEF Holds, QueueStates
<1>2. pr \in [Pids -> Levels] /\ \A x \in Pids : x # p => pr[x] = k.priority[x]
  BY <1>1
<1> HIDE DEF pr
<1>3. /\ e \in QueueStates /\ ~e.hung /\ e.priority = pr
      /\ e.next = k.next /\ e.head = k.head /\ e.tail = k.tail
      /\ e.highest_prio = k.highest_prio
  BY <1>1, <1>2 DEF QueueStates
<1> HIDE DEF e
<1>4. ASSUME NEW m \in Levels
      PROVE  /\ ListIs(e, Q, m, L[m])
             /\ \A i \in 1 .. Len(L[m]) : e.priority[L[m][i]] = m
  <2>1. ListIs(k, Q, m, L[m]) /\ \A i \in 1 .. Len(L[m]) : k.priority[L[m][i]] = m
    BY DEF Holds
  <2>2. \A i \in 1 .. Len(L[m]) : L[m][i] \in Pids /\ L[m][i] # p
    BY <2>1, ListFacts DEF LinkedIn
  <2>3. ListIs(e, Q, m, L[m])
    BY <1>3, <2>1, ListKept
  <2>. QED  BY <1>2, <1>3, <2>1, <2>2, <2>3
<1>5. highest_prio_exact(e, Q)
  BY <1>3 DEF Holds, highest_prio_exact, isEmpty
<1>6. L \in [Levels -> Seq(Pids)]
  BY DEF Holds
<1>7. Holds(e, L)
  BY <1>3, <1>4, <1>5, <1>6 DEF Holds
<1>. QED  BY <1>7 DEF e, pr
-----------------------------------------------------------------------------
(* The invariant.                                                              *)

\* A process is in the history when it is on one of its lists.
LEMMA EveryoneIsLinked ==
    ASSUME Inv, NEW p
    PROVE  p \in Everyone <=> LinkedIn(level, p)
<1>1. \A l \in Levels : DOMAIN level[l] = 1 .. Len(level[l])
  BY DEF Inv, Holds
<1>2. p \in Everyone <=> \E l \in Levels : \E i \in DOMAIN level[l] : level[l][i] = p
  BY DEF Everyone, On
<1>. QED  BY <1>1, <1>2 DEF LinkedIn

\* Initialised queues hold empty lists.
LEMMA InitInv == Init => Inv
<1> SUFFICES ASSUME Init PROVE Inv
  OBVIOUS
<1>1. PICK nx \in [Pids -> {NULL}], pr \in [Pids -> Priorities] :
         s = [next |-> nx, priority |-> pr, hung |-> FALSE,
              head |-> empty_queues.head, tail |-> empty_queues.tail,
              highest_prio |-> empty_queues.highest_prio]
  BY DEF Init
<1>2. /\ empty_queues.head = [R \in Queues |-> [l \in Levels |-> NULL]]
      /\ empty_queues.tail = [R \in Queues |-> [l \in Levels |-> NULL]]
      /\ empty_queues.highest_prio = [R \in Queues |-> NUM_PRIO + 1]
  BY DEF empty_queues
<1>3. /\ s.next = nx /\ s.priority = pr /\ ~s.hung
      /\ s.head = [R \in Queues |-> [l \in Levels |-> NULL]]
      /\ s.tail = [R \in Queues |-> [l \in Levels |-> NULL]]
      /\ s.highest_prio = [R \in Queues |-> NUM_PRIO + 1]
  BY <1>1, <1>2
<1>4. s \in QueueStates
  <2>1. nx \in [Pids -> Pointers] /\ pr \in [Pids -> Levels] /\ NULL \in Pointers
    BY PriorityAssumption DEF Pointers
  <2>2. NUM_PRIO + 1 \in 0 .. NUM_PRIO + 1
    BY DEF NUM_PRIO
  <2>. QED  BY <1>1, <1>2, <2>1, <2>2 DEF QueueStates
<1>5. level = [l \in Levels |-> << >>] /\ level \in [Levels -> Seq(Pids)]
  BY DEF Init
<1>6. ASSUME NEW l \in Levels
      PROVE  ListIs(s, Q, l, level[l]) /\ \A i \in 1 .. Len(level[l]) : s.priority[level[l][i]] = l
  <2>1. s.head[Q][l] = NULL /\ level[l] \in Seq(Pids) /\ Len(level[l]) = 0
    BY <1>3, <1>5, PriorityAssumption
  <2>. QED  BY <2>1, ListEmptied
<1>7. highest_prio_exact(s, Q)
  <2>1. s.highest_prio[Q] = NUM_PRIO + 1 /\ \A l \in Levels : isEmpty(s, Q, l)
    BY <1>3, PriorityAssumption DEF isEmpty
  <2>. QED  BY <2>1 DEF highest_prio_exact, Levels, NUM_PRIO
<1>. QED  BY <1>3, <1>4, <1>5, <1>6, <1>7 DEF Inv, Holds

\* What a priority change makes of the lists of a process that is linked.
LEMMA MoveHolds ==
    ASSUME Inv, ~MoveTails, NEW p \in Pids, NEW prio \in Priorities, Move(p, prio)
    PROVE  /\ Holds(s', level') /\ prio \in Levels /\ s.priority[p] \in Levels
           /\ UNCHANGED got
           /\ \E i \in DOMAIN level[s.priority[p]] :
                /\ level[s.priority[p]][i] = p
                /\ level' = [[level EXCEPT ![s.priority[p]] = Seqs!RemoveAt(@, i)]
                               EXCEPT ![prio] = Append(@, p)]
<1> DEFINE r == remove_element_by_priority(s, Q, p)
<1> SUFFICES ASSUME NEW l, l = s.priority[p]
             PROVE  /\ Holds(s', level') /\ prio \in Levels /\ l \in Levels
                    /\ UNCHANGED got
                    /\ \E i \in DOMAIN level[l] :
                         /\ level[l][i] = p
                         /\ level' = [[level EXCEPT ![l] = Seqs!RemoveAt(@, i)]
                                        EXCEPT ![prio] = Append(@, p)]
  OBVIOUS
<1>1. /\ s \in QueueStates /\ l \in Levels /\ prio \in Levels
      /\ level \in [Levels -> Seq(Pids)]
  BY PriorityAssumption DEF Inv, Holds, QueueStates
<1>2. PICK i \in DOMAIN level[l] :
         /\ level[l][i] = p
         /\ level' = [[level EXCEPT ![l] = Seqs!RemoveAt(@, i)] EXCEPT ![prio] = Append(@, p)]
  BY DEF Move
<1>3. i \in 1 .. Len(level[l])
  BY <1>1
<1>4. p # s.tail[Q][l] \/ p = s.head[Q][l]
  BY DEF Move
<1> DEFINE out == [level EXCEPT ![l] = Seqs!RemoveAt(level[l], i)]
           moved == [r.s EXCEPT !.priority[p] = prio]
<1>5. r.found /\ Holds(r.s, out)
  BY <1>1, <1>2, <1>3, <1>4, RemoveHolds DEF Inv
<1>6. ~r.s.hung /\ r.s \in QueueStates /\ out \in [Levels -> Seq(Pids)]
  BY <1>5 DEF Holds
<1>7. s' = enqueue_PCB_by_priority(moved, Q, p)
  BY <1>5, <1>6 DEF Move
\* The process has left its list, and it is on no other one.
<1>8. ~LinkedIn(out, p)
  <2> SUFFICES ASSUME NEW m \in Levels, NEW n \in 1 .. Len(out[m]), out[m][n] = p
               PROVE  FALSE
    BY DEF LinkedIn
  <2>1. CASE m # l
    <3>1. out[m] = level[m]
      BY <1>1, <2>1
    <3>2. s.priority[p] = m
      BY <3>1 DEF Inv, Holds
    <3>. QED  BY <2>1, <3>2
  <2>2. CASE m = l
    <3> SUFFICES ASSUME NEW q, q = level[l] PROVE FALSE
      OBVIOUS
    <3>1. ListIs(s, Q, l, q) /\ i \in 1 .. Len(q) /\ q[i] = p
      BY <1>1, <1>2, <1>3 DEF Inv, Holds
    <3>2. /\ q \in Seq(Pids) /\ Len(q) \in Nat
          /\ \A a, b \in 1 .. Len(q) : q[a] = q[b] => a = b
      BY <3>1, ListFacts
    <3>3. Shortened(q, i, Seqs!RemoveAt(q, i))
      BY <3>1, <3>2, RemovalShortens
    <3>4. out[m] = Seqs!RemoveAt(q, i)
      BY <1>1, <2>2
    <3> SUFFICES ASSUME NEW x, x = Seqs!RemoveAt(q, i), Shortened(q, i, x), out[m] = x
                 PROVE  FALSE
      BY <3>3, <3>4
    <3>5. \A a \in 1 .. Len(x) : x[a] # q[i]
      BY <3>1, <3>2, RemovedIsGone
    <3>. QED  BY <3>1, <3>5
  <2>. QED  BY <2>1, <2>2
<1> HIDE DEF out, r
<1>9. Holds(moved, out)
  BY <1>1, <1>5, <1>8, SetPriorityHolds
<1>10. moved.priority[p] = prio
  BY <1>6 DEF QueueStates
<1> HIDE DEF moved
<1>11. Holds(s', [out EXCEPT ![prio] = Append(@, p)])
  BY <1>7, <1>8, <1>9, <1>10, EnqueueHolds
<1>12. level' = [out EXCEPT ![prio] = Append(@, p)]
  BY <1>2 DEF out
<1>13. UNCHANGED got
  BY DEF Move
<1>. QED  BY <1>1, <1>2, <1>11, <1>12, <1>13

\* Every call keeps the invariant.
LEMMA NextInv ==
    ASSUME ~MoveTails
    PROVE  Inv /\ [Next]_vars => Inv'
<1> SUFFICES ASSUME Inv, [Next]_vars PROVE Inv'
  OBVIOUS
<1>1. ASSUME NEW p \in Pids, Enqueue(p) PROVE Inv'
  <2>1. ~LinkedIn(level, p)
    BY <1>1, EveryoneIsLinked DEF Enqueue
  <2>. QED  BY <1>1, <2>1, EnqueueHolds DEF Inv, Enqueue
<1>2. CASE Dequeue
  <2> SUFFICES ASSUME NEW l, l = s.highest_prio[Q] PROVE Holds(s', level')
    BY DEF Inv
  <2>1. /\ l \notin Levels => s' = s
        /\ l \in Levels => /\ level[l] # << >>
                           /\ Holds(s', [level EXCEPT ![l] = Tail(level[l])])
    BY <1>2, DequeueHolds DEF Inv, Dequeue
  <2>2. level' = IF l \in Levels /\ level[l] # << >>
                 THEN [level EXCEPT ![l] = Tail(level[l])] ELSE level
    BY <1>2 DEF Dequeue
  <2>. QED  BY <2>1, <2>2 DEF Inv
<1>3. ASSUME NEW p \in Pids, NEW prio \in Priorities, Move(p, prio) PROVE Inv'
  BY <1>3, MoveHolds DEF Inv
<1>4. ASSUME NEW p \in Pids, NEW prio \in Priorities, SetPriority(p, prio) PROVE Inv'
  <2>1. ~LinkedIn(level, p) /\ prio \in Levels
    BY <1>4, EveryoneIsLinked, PriorityAssumption DEF SetPriority
  <2>. QED  BY <1>4, <2>1, SetPriorityHolds DEF Inv, SetPriority
<1>5. CASE UNCHANGED vars
  BY <1>5 DEF Inv, vars
<1>. QED  BY <1>1, <1>2, <1>3, <1>4, <1>5 DEF Next

\* As long as no tail of a list of several processes is moved, a walk of every
\* list ends at its tail and meets the processes that were linked in and not
\* taken out, in the order of their arrival.
THEOREM ListsHold == ~MoveTails => (Spec => []ListsHoldTheLinked)
<1> SUFFICES ASSUME ~MoveTails PROVE Spec => []ListsHoldTheLinked
  OBVIOUS
<1>1. Inv => ListsHoldTheLinked
  BY ListIsListOf DEF Inv, Holds, ListsHoldTheLinked
<1>2. Inv /\ [Next]_vars => Inv'
  BY NextInv
<1>. QED  BY InitInv, <1>1, <1>2, PTL DEF Spec

\* Under the same condition highest_prio is right after every sequence of calls.
THEOREM HighestPrioHolds == ~MoveTails => (Spec => []HighestPrioExact)
<1> SUFFICES ASSUME ~MoveTails PROVE Spec => []HighestPrioExact
  OBVIOUS
<1>1. Inv => HighestPrioExact
  BY DEF Inv, Holds, HighestPrioExact
<1>2. Inv /\ [Next]_vars => Inv'
  BY NextInv
<1>. QED  BY InitInv, <1>1, <1>2, PTL DEF Spec

\* Under the same condition the loops of queue.c end in every call.
THEOREM CallsReturn == ~MoveTails => (Spec => []NeverHangs)
<1> SUFFICES ASSUME ~MoveTails PROVE Spec => []NeverHangs
  OBVIOUS
<1>1. Inv => NeverHangs
  BY DEF Inv, Holds, NeverHangs
<1>2. Inv /\ [Next]_vars => Inv'
  BY NextInv
<1>. QED  BY InitInv, <1>1, <1>2, PTL DEF Spec
-----------------------------------------------------------------------------
(* Refinement.                                                                 *)

\* Every call is one of the abstract queue, or is not visible there.
LEMMA StepRefines ==
    ASSUME ~MoveTails
    PROVE  Inv /\ [Next]_vars => [Abstract!Next]_(Abstract!vars)
<1> SUFFICES ASSUME Inv, [Next]_vars
             PROVE  [Abstract!Next]_(Abstract!vars)
  OBVIOUS
<1>0. /\ level \in [Levels -> Seq(Pids)] /\ s.priority \in [Pids -> Levels]
      /\ s.highest_prio[Q] \in 0 .. NUM_PRIO + 1
  BY PriorityAssumption DEF Inv, Holds, QueueStates
<1>1. ASSUME NEW p \in Pids, Enqueue(p) PROVE Abstract!Enqueue(p, s.priority[p])
  BY <1>1 DEF Enqueue, Everyone, On, Abstract!Enqueue, Abstract!Everyone, Abstract!On
<1>2. CASE Dequeue
  <2> SUFFICES ASSUME NEW l, l = s.highest_prio[Q]
               PROVE  Abstract!Dequeue \/ Abstract!DequeueFromEmpty
    BY DEF Abstract!Next
  <2>1. /\ \A m \in Levels : m < l => level[m] = << >>
        /\ l \notin Levels => got' = NULL /\ l = NUM_PRIO + 1
        /\ l \in Levels => level[l] # << >> /\ got' = level[l][1]
    <3> DEFINE d == dequeue_PCB_FIFO_by_priority(s, Q)
    <3>1. /\ \A m \in Levels : m < l => level[m] = << >>
          /\ l \notin Levels => d.pcb = NULL /\ l = NUM_PRIO + 1
          /\ l \in Levels => level[l] # << >> /\ d.pcb = level[l][1]
      <4> DEFINE h == s.highest_prio[Q]
      <4>1. /\ \A m \in Levels : m < h => level[m] = << >>
            /\ h \notin Levels => d.pcb = NULL /\ d.s = s /\ h = NUM_PRIO + 1
            /\ h \in Levels => /\ level[h] # << >> /\ d.pcb = level[h][1]
                               /\ Holds(d.s, [level EXCEPT ![h] = Tail(level[h])])
        BY DequeueHolds DEF Inv
      <4> HIDE DEF d
      <4>. QED  BY <4>1
    <3>2. got' = d.pcb
      BY <1>2 DEF Dequeue
    <3>. QED  BY <3>1, <3>2
  <2>2. level' = IF l \in Levels /\ level[l] # << >>
                 THEN [level EXCEPT ![l] = Tail(level[l])] ELSE level
    BY <1>2 DEF Dequeue
  <2>3. CASE l \in Levels
    <3>1. Abstract!MostUrgent = l
      <4>1. ASSUME NEW m \in Levels, level[m] # << >>,
                   \A k \in Levels : k < m => level[k] = << >>
            PROVE  m = l
        BY <2>1, <2>3, <4>1 DEF Levels, NUM_PRIO
      <4>. QED  BY <2>1, <2>3, <4>1 DEF Abstract!MostUrgent
    <3>2. Abstract!Everyone # {}
      <4>1. level[l] \in Seq(Pids) /\ level[l] # << >>
        BY <1>0, <2>1, <2>3
      <4>2. 1 \in DOMAIN level[l]
        BY <4>1, EmptySeq
      <4>. QED  BY <2>3, <4>2 DEF Abstract!Everyone, Abstract!On
    <3>3. got' = Head(level[l]) /\ level' = [level EXCEPT ![l] = Tail(level[l])]
      BY <1>0, <2>1, <2>2, <2>3
    <3>. QED  BY <3>1, <3>2, <3>3 DEF Abstract!Dequeue
  <2>4. CASE l \notin Levels
    <3>1. \A m \in Levels : level[m] = << >>
      BY <2>1, <2>4 DEF Levels, NUM_PRIO
    <3>2. Abstract!Everyone = {}
      BY <3>1 DEF Abstract!Everyone, Abstract!On
    <3>. QED  BY <2>1, <2>2, <2>4, <3>2 DEF Abstract!DequeueFromEmpty
  <2>. QED  BY <2>3, <2>4
<1>3. ASSUME NEW p \in Pids, NEW prio \in Priorities, Move(p, prio)
      PROVE  Abstract!Move(p, prio) /\ prio \in Levels
  BY <1>3, MoveHolds DEF Abstract!Move, Seqs!RemoveAt, Abstract!Seqs!RemoveAt
<1>4. ASSUME NEW p \in Pids, NEW prio \in Priorities, SetPriority(p, prio)
      PROVE  UNCHANGED Abstract!vars
  BY <1>4 DEF SetPriority, Abstract!vars
<1>5. CASE UNCHANGED vars
  BY <1>5 DEF vars, Abstract!vars
<1>. QED  BY <1>0, <1>1, <1>2, <1>3, <1>4, <1>5 DEF Next, Abstract!Next

\* The linked lists and the cached index implement the FIFO per priority that
\* the scheduler expects, as long as no tail of a longer list is moved.
THEOREM QueueImplementsPriorityFifo == ~MoveTails => (Spec => ImplementsPriorityFifo)
<1> SUFFICES ASSUME ~MoveTails PROVE Spec => ImplementsPriorityFifo
  OBVIOUS
<1>1. Init => Abstract!Init
  BY DEF Init, Abstract!Init
<1>2. Inv /\ [Next]_vars => Inv'
  BY NextInv
<1>3. Inv /\ [Next]_vars => [Abstract!Next]_(Abstract!vars)
  BY StepRefines
<1>. QED  BY InitInv, <1>1, <1>2, <1>3, PTL
          DEF Spec, ImplementsPriorityFifo, Abstract!Spec
=============================================================================
