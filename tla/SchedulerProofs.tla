--------------------------- MODULE SchedulerProofs ---------------------------
(* The lemmas the theorems about the queues and about the kernel rest on, for  *)
(* every set of processes and every boot order.  First what the operators of   *)
(* module PCBQueues return on lists that are linked properly, and what they    *)
(* leave; then what the functions of module Scheduler keep: the types of the   *)
(* state of the kernel, highest_prio, and who waits for a message.             *)
EXTENDS Scheduler, SequenceTheorems, FiniteSetTheorems, WellFoundedInduction, TLAPS

\* List l of queue Q holds the processes of q, oldest first: from the head every
\* PCB points at the one linked in before it, down to the tail, which points
\* nowhere.
ListIs(k, Q, l, q) ==
    /\ q \in Seq(Pids)
    /\ \A i, j \in 1 .. Len(q) : q[i] = q[j] => i = j
    /\ k.head[Q][l] = IF q = << >> THEN NULL ELSE q[Len(q)]
    /\ q # << >> => k.tail[Q][l] = q[1]
    /\ \A i \in 1 .. Len(q) : k.next[q[i]] = IF i = 1 THEN NULL ELSE q[i - 1]

\* r is q without its element number n.
Shortened(q, n, r) ==
    /\ r \in Seq(Pids) /\ Len(r) = Len(q) - 1
    /\ \A i \in 1 .. Len(r) : r[i] = IF i < n THEN q[i] ELSE q[i + 1]

\* What is left of a list of several processes when its tail is taken, and when
\* its element number j is, which is not an end; and what the loop that moves
\* highest_prio on makes of the queues.
TailTaken(k, Q, l, q) == [k EXCEPT !.next[q[2]] = NULL, !.tail[Q][l] = q[2]]
MiddleTaken(k, q, j) == [k EXCEPT !.next[q[j + 1]] = k.next[q[j]]]
HeadTaken(k, Q, l, q) == [k EXCEPT !.head[Q][l] = k.next[q[Len(q)]]]
MovedOn(k, Q) == [k EXCEPT !.highest_prio[Q] = first_not_empty(k, Q, @)]

\* Every set of turns has a first one.
LEMMA Least ==
    ASSUME NEW T \in SUBSET Nat, T # {}
    PROVE  first_turn(T) \in T /\ \A j \in T : first_turn(T) <= j
<1>1. PICK i \in T : \A j \in T : ~(<<j, i>> \in OpToRel(<, Nat))
  BY NatLessThanWellFounded, WFMin
<1>2. \A j \in T : ~(j < i)
  BY <1>1 DEF OpToRel
<1>3. \A j \in T : i <= j
  BY <1>2
<1>. QED  BY <1>3 DEF first_turn

\* The loop that moves highest_prio on stops at the first list in use, or behind
\* the last list.
LEMMA FirstNotEmpty ==
    ASSUME NEW k, NEW Q, NEW from \in 0 .. NUM_PRIO + 1
    PROVE  /\ first_not_empty(k, Q, from) \in from .. NUM_PRIO + 1
           /\ first_not_empty(k, Q, from) \in Levels =>
                 ~isEmpty(k, Q, first_not_empty(k, Q, from))
           /\ \A l \in from .. first_not_empty(k, Q, from) - 1 : isEmpty(k, Q, l)
<1> DEFINE Used == {m \in from .. NUM_PRIO + 1 : m \in Levels => ~isEmpty(k, Q, m)}
<1>1. NUM_PRIO + 1 \in Used
  BY DEF NUM_PRIO, Levels
<1>2. PICK m \in Used : \A j \in Used : m <= j
  <2>1. Used \in SUBSET Nat
    BY DEF NUM_PRIO
  <2>. QED  BY <1>1, <2>1, Least
<1>3. \A l \in from .. m - 1 : isEmpty(k, Q, l)
  BY <1>2 DEF NUM_PRIO, Levels
<1>. QED  BY <1>2, <1>3 DEF first_not_empty

\* What a search for the PCB in front of p returns, when it ends.
LEMMA Previous ==
    ASSUME NEW k, NEW Q, NEW l, NEW p, turns_before(k, Q, l, p) # {}
    PROVE  previous(k, Q, l, p) \in Pids /\ k.next[previous(k, Q, l, p)] = p
<1>1. turns_before(k, Q, l, p) \in SUBSET Nat
  BY PidsAssumption, FS_CardinalityType DEF turns_before, Turns
<1>2. first_turn(turns_before(k, Q, l, p)) \in turns_before(k, Q, l, p)
  BY <1>1, Least
<1>. QED  BY <1>2 DEF turns_before, previous
-----------------------------------------------------------------------------
(* Walks.                                                                      *)

\* A list holds no more processes than there are, so that a walk over it fits
\* into the turns that are considered.
LEMMA ListFits ==
    ASSUME NEW k, NEW Q, NEW l, NEW q, ListIs(k, Q, l, q)
    PROVE  /\ Len(q) \in Nat /\ Len(q) <= Cardinality(Pids)
           /\ Cardinality(Pids) \in Nat
           /\ q # << >> <=> Len(q) # 0
           /\ \A i \in 1 .. Len(q) : q[i] \in Pids /\ q[i] # NULL
           /\ \A i \in Nat : i < Len(q) => i \in Turns
<1>1. /\ q \in Seq(Pids) /\ Len(q) \in Nat
      /\ \A i \in 1 .. Len(q) : q[i] \in Pids
      /\ q # << >> <=> Len(q) # 0
  BY DEF ListIs
<1>2. q \in Injection(1 .. Len(q), Pids)
  BY <1>1 DEF ListIs, Injection, IsInjective
<1>3. Cardinality(1 .. Len(q)) <= Cardinality(Pids)
  BY <1>2, PidsAssumption, FS_Injection
<1>4. Cardinality(1 .. Len(q)) = Len(q)
  <2>1. /\ 1 \in Int /\ Len(q) \in Int
        /\ (IF 1 > Len(q) THEN 0 ELSE Len(q) - 1 + 1) = Len(q)
    BY <1>1
  <2>. QED  BY <2>1, FS_Interval
<1>5. Cardinality(Pids) \in Nat
  BY PidsAssumption, FS_CardinalityType
<1>. QED  BY <1>1, <1>3, <1>4, <1>5, PidsAssumption DEF Turns

\* The parts of ListIs, with what its types imply.
LEMMA ListFacts ==
    ASSUME NEW k, NEW Q, NEW l, NEW q, ListIs(k, Q, l, q)
    PROVE  /\ q \in Seq(Pids) /\ Len(q) \in Nat
           /\ q # << >> <=> Len(q) # 0
           /\ \A i \in 1 .. Len(q) : q[i] \in Pids /\ q[i] # NULL
           /\ \A i, j \in 1 .. Len(q) : q[i] = q[j] => i = j
           /\ k.head[Q][l] = IF q = << >> THEN NULL ELSE q[Len(q)]
           /\ q # << >> => k.tail[Q][l] = q[1]
           /\ Len(q) # 0 => k.head[Q][l] = q[Len(q)] /\ k.tail[Q][l] = q[1]
           /\ \A i \in 1 .. Len(q) : k.next[q[i]] = IF i = 1 THEN NULL ELSE q[i - 1]
<1>1. /\ Len(q) \in Nat /\ (q # << >> <=> Len(q) # 0)
      /\ \A i \in 1 .. Len(q) : q[i] \in Pids /\ q[i] # NULL
  BY ListFits
<1>. QED  BY <1>1 DEF ListIs

\* A walk from the head meets the processes of the list, the newest first, and
\* leaves the list at the tail.
LEMMA WalkMeets ==
    ASSUME NEW k, NEW Q, NEW l, NEW q, ListIs(k, Q, l, q), q # << >>
    PROVE  \A i \in Turns : walk(k, k.head[Q][l])[i] =
                               IF i < Len(q) THEN q[Len(q) - i] ELSE NULL
<1> DEFINE h == k.head[Q][l]
           Follows(at) == at = [i \in Turns |->
               IF i = 0 THEN h
               ELSE IF at[i - 1] = NULL THEN NULL ELSE k.next[at[i - 1]]]
           met == [i \in Turns |-> IF i < Len(q) THEN q[Len(q) - i] ELSE NULL]
           w == walk(k, h)
<1>1. /\ Len(q) \in Nat /\ Len(q) # 0
      /\ \A i \in 1 .. Len(q) : q[i] \in Pids /\ q[i] # NULL
      /\ h = q[Len(q)]
      /\ \A i \in 1 .. Len(q) : k.next[q[i]] = IF i = 1 THEN NULL ELSE q[i - 1]
  <2>1. /\ Len(q) \in Nat /\ Len(q) # 0
        /\ \A i \in 1 .. Len(q) : q[i] \in Pids /\ q[i] # NULL
    BY ListFits
  <2>. QED  BY <2>1 DEF ListIs
<1>2. Cardinality(Pids) \in Nat /\ Turns = 0 .. Cardinality(Pids)
  BY PidsAssumption, FS_CardinalityType DEF Turns
<1>3. w = CHOOSE at : Follows(at)
  BY DEF walk
<1> HIDE DEF h, w
<1>4. Follows(met)
  <2>1. ASSUME NEW i \in Turns
        PROVE  met[i] = IF i = 0 THEN h
                        ELSE IF met[i - 1] = NULL THEN NULL ELSE k.next[met[i - 1]]
    <3>1. CASE i = 0
      BY <1>1, <3>1
    <3>2. CASE i # 0
      <4>1. i - 1 \in Turns /\ i - 1 \in Nat /\ i \in Nat
        BY <1>2, <3>2
      <4>2. met[i - 1] = IF i - 1 < Len(q) THEN q[Len(q) - (i - 1)] ELSE NULL
        BY <4>1
      <4>3. CASE i - 1 < Len(q)
        <5>1. Len(q) - (i - 1) \in 1 .. Len(q)
          BY <1>1, <4>1, <4>3
        <5>2. k.next[met[i - 1]] = IF Len(q) - (i - 1) = 1 THEN NULL
                                   ELSE q[Len(q) - (i - 1) - 1]
          BY <1>1, <4>2, <4>3, <5>1
        <5>3. /\ Len(q) - (i - 1) - 1 = Len(q) - i
              /\ Len(q) - (i - 1) = 1 <=> ~(i < Len(q))
          BY <1>1, <4>1, <4>3
        <5>. QED  BY <1>1, <3>2, <4>2, <4>3, <5>1, <5>2, <5>3
      <4>4. CASE ~(i - 1 < Len(q))
        BY <1>1, <3>2, <4>1, <4>2, <4>4
      <4>. QED  BY <4>3, <4>4
    <3>. QED  BY <3>1, <3>2
  <2>. QED  BY <2>1
<1>5. Follows(w)
  BY <1>3, <1>4
\* The function is determined by its definition: consider the first turn at
\* which the two differ.
<1>6. \A i \in Turns : w[i] = met[i]
  <2> DEFINE Wrong == {i \in Turns : w[i] # met[i]}
  <2>1. SUFFICES ASSUME Wrong # {} PROVE FALSE
    OBVIOUS
  <2>2. PICK i \in Wrong : \A j \in Wrong : i <= j
    <3>1. Wrong \in SUBSET Nat
      BY <1>2
    <3>. QED  BY <2>1, <3>1, Least
  <2>3. i # 0
    BY <1>4, <1>5, <2>2
  <2>4. i - 1 \in Turns /\ i - 1 \notin Wrong
    BY <1>2, <2>2, <2>3
  <2> HIDE DEF met, w
  <2>5. w[i - 1] = met[i - 1]
    BY <2>4
  <2>6. i \in Turns /\ w[i] # met[i]
    BY <2>2
  <2>7. w[i] = IF w[i - 1] = NULL THEN NULL ELSE k.next[w[i - 1]]
    BY <1>5, <2>3, <2>6
  <2>8. met[i] = IF met[i - 1] = NULL THEN NULL ELSE k.next[met[i - 1]]
    BY <1>4, <2>3, <2>6
  <2>. QED  BY <2>5, <2>6, <2>7, <2>8
<1>. QED  BY <1>6 DEF h, w

\* The search for the PCB in front of p ends on the process linked in after p,
\* for every p of the list but the newest.
LEMMA SearchFinds ==
    ASSUME NEW k, NEW Q, NEW l, NEW q, ListIs(k, Q, l, q), NEW j \in 2 .. Len(q)
    PROVE  /\ turns_before(k, Q, l, q[j - 1]) # {}
           /\ previous(k, Q, l, q[j - 1]) = q[j]
<1> DEFINE at == walk(k, k.head[Q][l])
           found == turns_before(k, Q, l, q[j - 1])
<1>1. /\ Len(q) \in Nat /\ q # << >>
      /\ \A i \in 1 .. Len(q) : q[i] \in Pids
      /\ \A i \in Nat : i < Len(q) => i \in Turns
  BY ListFits
<1>2. /\ \A i \in 1 .. Len(q) : k.next[q[i]] = IF i = 1 THEN NULL ELSE q[i - 1]
      /\ \A i, n \in 1 .. Len(q) : q[i] = q[n] => i = n
  BY DEF ListIs
<1>3. \A i \in Turns : at[i] = IF i < Len(q) THEN q[Len(q) - i] ELSE NULL
  BY <1>1, WalkMeets
<1>4. found = {i \in Turns : at[i] \in Pids /\ k.next[at[i]] = q[j - 1]}
  BY DEF turns_before
<1>5. Turns \subseteq Nat
  BY PidsAssumption, FS_CardinalityType DEF Turns
<1>6. previous(k, Q, l, q[j - 1]) = at[first_turn(found)]
  BY DEF previous
<1> HIDE DEF at, found
<1>7. Len(q) - j \in found
  BY <1>1, <1>2, <1>3, <1>4
<1>8. ASSUME NEW i \in found PROVE at[i] = q[j]
  <2>1. i \in Nat /\ at[i] \in Pids /\ k.next[at[i]] = q[j - 1]
    BY <1>4, <1>5, <1>8
  <2>2. i < Len(q) /\ at[i] = q[Len(q) - i]
    BY <1>3, <1>4, <1>8, <2>1, PidsAssumption
  <2>3. Len(q) - i \in 1 .. Len(q) /\ j - 1 \in 1 .. Len(q)
    BY <1>1, <2>1, <2>2
  <2>4. Len(q) - i # 1
    BY <1>1, <1>2, <2>1, <2>2, <2>3, PidsAssumption
  <2>5. q[Len(q) - i - 1] = q[j - 1] /\ Len(q) - i - 1 \in 1 .. Len(q)
    BY <1>1, <1>2, <2>1, <2>2, <2>3, <2>4
  <2>6. Len(q) - i - 1 = j - 1
    BY <1>2, <2>3, <2>5
  <2>7. Len(q) - i = j
    BY <1>1, <2>1, <2>6
  <2>. QED  BY <2>2, <2>7
<1>9. first_turn(found) \in found
  BY <1>4, <1>5, <1>7, Least
<1>. QED  BY <1>6, <1>7, <1>8, <1>9 DEF found

\* The walk of a list ends at its tail, and backwards it is the list.
LEMMA ListIsListOf ==
    ASSUME NEW k, NEW Q, NEW l, NEW q, ListIs(k, Q, l, q)
    PROVE  walk_ends(k, Q, l) /\ list_of(k, Q, l) = q
<1>1. /\ Len(q) \in Nat
      /\ q # << >> <=> Len(q) # 0
      /\ \A i \in 1 .. Len(q) : q[i] \in Pids /\ q[i] # NULL
      /\ \A i \in Nat : i < Len(q) => i \in Turns
  BY ListFits
<1>2. CASE q = << >>
  BY <1>2 DEF ListIs, walk_ends, list_of
<1>3. CASE q # << >>
  <2> DEFINE at == walk(k, k.head[Q][l])
             ends == {i \in Turns : at[i] = k.tail[Q][l]}
             n == first_turn(ends)
  <2>1. /\ k.head[Q][l] # NULL /\ k.tail[Q][l] = q[1]
        /\ \A i, m \in 1 .. Len(q) : q[i] = q[m] => i = m
        /\ q \in Seq(Pids)
    BY <1>1, <1>3 DEF ListIs
  <2>2. \A i \in Turns : at[i] = IF i < Len(q) THEN q[Len(q) - i] ELSE NULL
    BY <1>3, WalkMeets
  <2>3. walk_ends(k, Q, l) <=> ends # {}
    BY <2>1 DEF walk_ends
  <2>4. list_of(k, Q, l) = [i \in 1 .. n + 1 |-> at[n + 1 - i]]
    BY <2>1 DEF list_of
  <2>5. Turns \subseteq Nat
    BY PidsAssumption, FS_CardinalityType DEF Turns
  <2> HIDE DEF at
  <2>6. Len(q) - 1 \in ends
    BY <1>1, <1>3, <2>1, <2>2
  <2>7. ASSUME NEW i \in ends PROVE i = Len(q) - 1
    <3>1. i \in Nat /\ at[i] = q[1] /\ 1 \in 1 .. Len(q)
      BY <1>1, <1>3, <2>1, <2>5, <2>7
    <3>2. i < Len(q) /\ q[Len(q) - i] = q[1] /\ Len(q) - i \in 1 .. Len(q)
      BY <1>1, <2>2, <2>7, <3>1
    <3>3. Len(q) - i = 1
      BY <2>1, <3>1, <3>2
    <3>. QED  BY <1>1, <3>1, <3>3
  <2>8. n = Len(q) - 1
    <3>1. ends \in SUBSET Nat /\ ends # {}
      BY <2>5, <2>6
    <3>. QED  BY <2>7, <3>1, Least
  <2> HIDE DEF n, ends
  <2>9. \A i \in 1 .. n + 1 : at[n + 1 - i] = q[i]
    BY <1>1, <1>3, <2>2, <2>8
  <2>10. q = [i \in 1 .. Len(q) |-> q[i]]
    BY <2>1
  <2>11. list_of(k, Q, l) = [i \in 1 .. n + 1 |-> q[i]]
    BY <2>4, <2>9
  <2>. QED  BY <1>1, <1>3, <2>3, <2>6, <2>8, <2>10, <2>11
<1>. QED  BY <1>2, <1>3
-----------------------------------------------------------------------------
(* What writing to the pointers makes of a list.                               *)

\* A list is the same as long as its ends, and the next of its processes, are.
LEMMA ListKept ==
    ASSUME NEW k, NEW e, NEW Q, NEW l, NEW q, ListIs(k, Q, l, q),
           e.head[Q][l] = k.head[Q][l], e.tail[Q][l] = k.tail[Q][l],
           \A i \in 1 .. Len(q) : e.next[q[i]] = k.next[q[i]]
    PROVE  ListIs(e, Q, l, q)
  BY DEF ListIs

\* Linking in at the head.
LEMMA ListEnqueued ==
    ASSUME NEW k, NEW e, NEW Q, NEW l, NEW q, ListIs(k, Q, l, q),
           NEW p \in Pids, \A i \in 1 .. Len(q) : q[i] # p,
           k.next \in [Pids -> Pointers],
           e.next = [k.next EXCEPT ![p] = k.head[Q][l]],
           e.head[Q][l] = p,
           e.tail[Q][l] = IF isEmpty(k, Q, l) THEN p ELSE k.tail[Q][l]
    PROVE  ListIs(e, Q, l, Append(q, p))
<1> DEFINE r == Append(q, p)
<1>1. /\ q \in Seq(Pids) /\ Len(q) \in Nat
      /\ q # << >> <=> Len(q) # 0
      /\ \A i \in 1 .. Len(q) : q[i] \in Pids /\ q[i] # NULL
  BY ListFacts
<1>2. /\ \A i \in 1 .. Len(q) : k.next[q[i]] = IF i = 1 THEN NULL ELSE q[i - 1]
      /\ \A i, n \in 1 .. Len(q) : q[i] = q[n] => i = n
      /\ k.head[Q][l] = IF q = << >> THEN NULL ELSE q[Len(q)]
      /\ q # << >> => k.tail[Q][l] = q[1]
  BY DEF ListIs
<1>3. /\ r \in Seq(Pids) /\ Len(r) = Len(q) + 1 /\ r # << >>
      /\ \A i \in 1 .. Len(q) : r[i] = q[i]
      /\ r[Len(q) + 1] = p
  BY <1>1, AppendProperties
<1> HIDE DEF r
<1>4. \A i, n \in 1 .. Len(r) : r[i] = r[n] => i = n
  BY <1>1, <1>2, <1>3
<1>5. e.head[Q][l] = r[Len(r)]
  BY <1>3
<1>6. e.tail[Q][l] = r[1]
  <2>1. isEmpty(k, Q, l) <=> Len(q) = 0
    BY <1>1, <1>2 DEF isEmpty
  <2>. QED  BY <1>1, <1>2, <1>3, <2>1
<1>7. ASSUME NEW i \in 1 .. Len(r)
      PROVE  e.next[r[i]] = IF i = 1 THEN NULL ELSE r[i - 1]
  <2>1. CASE i = Len(r)
    <3>1. e.next[r[i]] = k.head[Q][l]
      BY <1>1, <1>3, <2>1
    <3>. QED  BY <1>1, <1>2, <1>3, <2>1, <3>1
  <2>2. CASE i # Len(r)
    <3>1. i \in 1 .. Len(q) /\ r[i] = q[i] /\ q[i] # p
      BY <1>1, <1>3, <2>2
    <3>2. e.next[r[i]] = k.next[q[i]]
      BY <1>1, <3>1
    <3>. QED  BY <1>1, <1>2, <1>3, <3>1, <3>2
  <2>. QED  BY <2>1, <2>2
<1>. QED  BY <1>3, <1>4, <1>5, <1>6, <1>7 DEF ListIs, r

\* A list of one process becomes empty.
LEMMA ListEmptied ==
    ASSUME NEW e, NEW Q, NEW l, NEW q, q \in Seq(Pids), Len(q) = 0,
           e.head[Q][l] = NULL
    PROVE  ListIs(e, Q, l, q)
  BY DEF ListIs

\* Taking the tail: the PCB in front of it becomes the tail and points nowhere.
LEMMA ListTailTaken ==
    ASSUME NEW k, NEW e, NEW Q, NEW l, NEW q, ListIs(k, Q, l, q), Len(q) > 1,
           NEW r, Shortened(q, 1, r),
           k.next \in [Pids -> Pointers],
           e.next = [k.next EXCEPT ![q[2]] = NULL],
           e.head[Q][l] = k.head[Q][l], e.tail[Q][l] = q[2]
    PROVE  ListIs(e, Q, l, r)
<1>1. /\ Len(q) \in Nat
      /\ \A i \in 1 .. Len(q) : q[i] \in Pids
      /\ \A i \in 1 .. Len(q) : k.next[q[i]] = IF i = 1 THEN NULL ELSE q[i - 1]
      /\ \A i, n \in 1 .. Len(q) : q[i] = q[n] => i = n
      /\ k.head[Q][l] = q[Len(q)]
  BY ListFacts
<1>2. /\ r \in Seq(Pids) /\ Len(r) = Len(q) - 1 /\ r # << >>
      /\ \A i \in 1 .. Len(r) : r[i] = q[i + 1]
  BY <1>1 DEF Shortened
<1>3. \A i, n \in 1 .. Len(r) : r[i] = r[n] => i = n
  BY <1>1, <1>2
<1>4. ASSUME NEW i \in 1 .. Len(r)
      PROVE  e.next[r[i]] = IF i = 1 THEN NULL ELSE r[i - 1]
  <2>1. r[i] = q[i + 1] /\ i + 1 \in 1 .. Len(q) /\ 2 \in 1 .. Len(q)
    BY <1>1, <1>2
  <2>2. CASE i = 1
    BY <1>1, <2>1, <2>2
  <2>3. CASE i # 1
    <3>1. q[i + 1] # q[2] /\ r[i - 1] = q[i]
      BY <1>1, <1>2, <2>1, <2>3
    <3>2. e.next[q[i + 1]] = k.next[q[i + 1]]
      BY <1>1, <2>1, <3>1
    <3>. QED  BY <1>1, <2>1, <2>3, <3>1, <3>2
  <2>. QED  BY <2>2, <2>3
<1>5. e.head[Q][l] = r[Len(r)] /\ e.tail[Q][l] = r[1]
  BY <1>1, <1>2
<1>. QED  BY <1>2, <1>3, <1>4, <1>5 DEF ListIs

\* Taking the head: the PCB behind it becomes the head.
LEMMA ListHeadTaken ==
    ASSUME NEW k, NEW e, NEW Q, NEW l, NEW q, ListIs(k, Q, l, q), Len(q) > 1,
           NEW r, Shortened(q, Len(q), r),
           e.next = k.next, e.tail[Q][l] = k.tail[Q][l],
           e.head[Q][l] = k.next[k.head[Q][l]]
    PROVE  ListIs(e, Q, l, r)
<1>1. /\ Len(q) \in Nat
      /\ \A i \in 1 .. Len(q) : k.next[q[i]] = IF i = 1 THEN NULL ELSE q[i - 1]
      /\ \A i, n \in 1 .. Len(q) : q[i] = q[n] => i = n
      /\ k.head[Q][l] = q[Len(q)] /\ k.tail[Q][l] = q[1]
  BY ListFacts
<1>2. /\ r \in Seq(Pids) /\ Len(r) = Len(q) - 1 /\ r # << >>
      /\ \A i \in 1 .. Len(r) : r[i] = q[i]
  BY <1>1 DEF Shortened
<1>3. \A i, n \in 1 .. Len(r) : r[i] = r[n] => i = n
  BY <1>1, <1>2
<1>4. \A i \in 1 .. Len(r) : e.next[r[i]] = IF i = 1 THEN NULL ELSE r[i - 1]
  BY <1>1, <1>2
<1>5. e.head[Q][l] = r[Len(r)] /\ e.tail[Q][l] = r[1]
  BY <1>1, <1>2
<1>. QED  BY <1>2, <1>3, <1>4, <1>5 DEF ListIs

\* Taking a PCB between the two: the one in front of it points past it.
LEMMA ListMiddleTaken ==
    ASSUME NEW k, NEW e, NEW Q, NEW l, NEW q, ListIs(k, Q, l, q),
           NEW j \in 2 .. Len(q) - 1,
           NEW r, Shortened(q, j, r),
           k.next \in [Pids -> Pointers],
           e.next = [k.next EXCEPT ![q[j + 1]] = k.next[q[j]]],
           e.head[Q][l] = k.head[Q][l], e.tail[Q][l] = k.tail[Q][l]
    PROVE  ListIs(e, Q, l, r)
<1>1. /\ Len(q) \in Nat
      /\ \A i \in 1 .. Len(q) : q[i] \in Pids
      /\ \A i \in 1 .. Len(q) : k.next[q[i]] = IF i = 1 THEN NULL ELSE q[i - 1]
      /\ \A i, n \in 1 .. Len(q) : q[i] = q[n] => i = n
      /\ k.head[Q][l] = q[Len(q)] /\ k.tail[Q][l] = q[1]
  BY ListFacts
<1>2. /\ r \in Seq(Pids) /\ Len(r) = Len(q) - 1 /\ r # << >>
      /\ \A i \in 1 .. Len(r) : r[i] = IF i < j THEN q[i] ELSE q[i + 1]
  BY <1>1 DEF Shortened
<1>3. \A i, n \in 1 .. Len(r) : r[i] = r[n] => i = n
  <2> SUFFICES ASSUME NEW i \in 1 .. Len(r), NEW n \in 1 .. Len(r), r[i] = r[n]
               PROVE  i = n
    OBVIOUS
  <2>1. PICK a \in 1 .. Len(q) : r[i] = q[a] /\ a = IF i < j THEN i ELSE i + 1
    <3>1. i \in 1 .. Len(q) /\ i + 1 \in 1 .. Len(q)
      BY <1>1, <1>2
    <3>. QED  BY <1>2, <3>1
  <2>2. PICK b \in 1 .. Len(q) : r[n] = q[b] /\ b = IF n < j THEN n ELSE n + 1
    <3>1. n \in 1 .. Len(q) /\ n + 1 \in 1 .. Len(q)
      BY <1>1, <1>2
    <3>. QED  BY <1>2, <3>1
  <2>3. a = b
    <3>1. q[a] = q[b]
      BY <2>1, <2>2
    <3>. QED  BY <3>1, ListFacts
  <2>4. i \in Int /\ n \in Int /\ j \in Int
    BY <1>2
  <2>. QED  BY <2>1, <2>2, <2>3, <2>4
<1>4. ASSUME NEW i \in 1 .. Len(r)
      PROVE  e.next[r[i]] = IF i = 1 THEN NULL ELSE r[i - 1]
  <2>0. j \in 1 .. Len(q) /\ j + 1 \in 1 .. Len(q) /\ j # 1 /\ i \in 1 .. Len(q)
    BY <1>1, <1>2
  <2>1. CASE i < j
    <3>1. r[i] = q[i] /\ q[i] # q[j + 1]
      BY <1>1, <1>2, <2>0, <2>1
    <3>2. e.next[q[i]] = k.next[q[i]]
      BY <1>1, <2>0, <3>1
    <3>. QED  BY <1>1, <1>2, <2>0, <2>1, <3>1, <3>2
  <2>2. CASE i = j
    <3>1. r[i] = q[j + 1] /\ r[i - 1] = q[j - 1]
      BY <1>1, <1>2, <2>0, <2>2
    <3>2. e.next[q[j + 1]] = k.next[q[j]]
      BY <1>1, <2>0
    <3>. QED  BY <1>1, <2>0, <2>2, <3>1, <3>2
  <2>3. CASE i > j
    <3>1. /\ r[i] = q[i + 1] /\ i + 1 \in 1 .. Len(q) /\ i + 1 # j + 1
          /\ r[i - 1] = q[i] /\ i # 1
      BY <1>1, <1>2, <2>0, <2>3
    <3>2. q[i + 1] # q[j + 1]
      BY <1>1, <2>0, <3>1
    <3>3. e.next[q[i + 1]] = k.next[q[i + 1]]
      BY <1>1, <3>1, <3>2
    <3>. QED  BY <1>1, <2>0, <3>1, <3>3
  <2>. QED  BY <1>1, <2>0, <2>1, <2>2, <2>3
<1>5. e.head[Q][l] = r[Len(r)] /\ e.tail[Q][l] = r[1]
  <2>1. /\ Len(r) \in 1 .. Len(r) /\ ~(Len(r) < j) /\ Len(r) + 1 = Len(q)
        /\ 1 \in 1 .. Len(r) /\ 1 < j
    BY <1>1, <1>2
  <2>2. r[Len(r)] = q[Len(q)] /\ r[1] = q[1]
    BY <1>2, <2>1
  <2>. QED  BY <1>1, <2>2
<1>. QED  BY <1>2, <1>3, <1>4, <1>5 DEF ListIs

\* A process that is taken off a list is on it no more.
LEMMA RemovedIsGone ==
    ASSUME NEW q \in Seq(Pids), \A i, n \in 1 .. Len(q) : q[i] = q[n] => i = n,
           NEW j \in 1 .. Len(q), NEW r, Shortened(q, j, r)
    PROVE  \A n \in 1 .. Len(r) : r[n] # q[j]
<1> SUFFICES ASSUME NEW n \in 1 .. Len(r), r[n] = q[j] PROVE FALSE
  OBVIOUS
<1>1. /\ Len(q) \in Nat /\ Len(r) = Len(q) - 1
      /\ r[n] = IF n < j THEN q[n] ELSE q[n + 1]
  BY DEF Shortened
<1>2. n \in 1 .. Len(q) /\ n + 1 \in 1 .. Len(q)
  BY <1>1
<1>3. CASE n < j
  <2>1. q[n] = q[j] /\ n # j
    BY <1>1, <1>2, <1>3
  <2>. QED  BY <1>2, <2>1
<1>4. CASE ~(n < j)
  <2>1. q[n + 1] = q[j] /\ n + 1 # j
    BY <1>1, <1>2, <1>4
  <2>. QED  BY <1>2, <2>1
<1>. QED  BY <1>3, <1>4
-----------------------------------------------------------------------------
(* What the calls do on a list that is linked properly.                        *)

\* The removal of the oldest: nothing, the only process, or the tail.
LEMMA DequeueOnList ==
    ASSUME NEW k, NEW Q, NEW l, NEW q, ListIs(k, Q, l, q)
    PROVE  /\ Len(q) = 0 =>
                dequeue_PCB_FIFO(k, Q, l) = [pcb |-> NULL, s |-> k]
           /\ Len(q) = 1 =>
                dequeue_PCB_FIFO(k, Q, l) = [pcb |-> q[1], s |-> unlink_all(k, Q, l)]
           /\ Len(q) > 1 =>
                dequeue_PCB_FIFO(k, Q, l) = [pcb |-> q[1], s |-> TailTaken(k, Q, l, q)]
<1>1. /\ Len(q) \in Nat
      /\ q # << >> <=> Len(q) # 0
      /\ \A i \in 1 .. Len(q) : q[i] \in Pids /\ q[i] # NULL
  BY ListFits
<1>2. /\ k.head[Q][l] = IF q = << >> THEN NULL ELSE q[Len(q)]
      /\ q # << >> => k.tail[Q][l] = q[1]
      /\ \A i \in 1 .. Len(q) : k.next[q[i]] = IF i = 1 THEN NULL ELSE q[i - 1]
  BY DEF ListIs
<1>3. ASSUME Len(q) = 0
      PROVE  dequeue_PCB_FIFO(k, Q, l) = [pcb |-> NULL, s |-> k]
  BY <1>1, <1>2, <1>3 DEF dequeue_PCB_FIFO
<1>4. ASSUME Len(q) = 1
      PROVE  dequeue_PCB_FIFO(k, Q, l) = [pcb |-> q[1], s |-> unlink_all(k, Q, l)]
  <2>1. /\ k.head[Q][l] = q[1] /\ q[1] # NULL
        /\ k.next[q[1]] = NULL /\ k.tail[Q][l] = q[1]
    BY <1>1, <1>2, <1>4
  <2>. QED  BY <2>1 DEF dequeue_PCB_FIFO
<1>5. ASSUME Len(q) > 1
      PROVE  dequeue_PCB_FIFO(k, Q, l) =
                [pcb |-> q[1], s |-> TailTaken(k, Q, l, q)]
  <2>1. /\ k.head[Q][l] = q[Len(q)] /\ q[Len(q)] # NULL
        /\ k.next[q[Len(q)]] = q[Len(q) - 1] /\ q[Len(q) - 1] # NULL
        /\ k.tail[Q][l] = q[1]
    BY <1>1, <1>2, <1>5
  <2>2. turns_before(k, Q, l, q[1]) # {} /\ previous(k, Q, l, q[1]) = q[2]
    <3>1. 2 \in 2 .. Len(q) /\ 2 - 1 = 1
      BY <1>1, <1>5
    <3>. QED  BY <3>1, SearchFinds
  <2>. QED  BY <2>1, <2>2 DEF dequeue_PCB_FIFO, TailTaken
<1>. QED  BY <1>3, <1>4, <1>5

\* The removal of a process of a given list: of the only one, of the newest, or
\* of one between the ends.
LEMMA RemoveOnList ==
    ASSUME NEW k, NEW Q, NEW l, NEW q, ListIs(k, Q, l, q),
           NEW p, NEW j \in 1 .. Len(q), q[j] = p, k.priority[p] = l
    PROVE  /\ Len(q) = 1 =>
                remove_element_by_priority(k, Q, p) =
                   [found |-> TRUE, s |-> MovedOn(unlink_all(k, Q, l), Q)]
           /\ Len(q) > 1 /\ j = Len(q) =>
                remove_element_by_priority(k, Q, p) =
                   [found |-> TRUE, s |-> HeadTaken(k, Q, l, q)]
           /\ 1 < j /\ j < Len(q) =>
                remove_element_by_priority(k, Q, p) =
                   [found |-> TRUE, s |-> MiddleTaken(k, q, j)]
<1> DEFINE r == remove_element_by_priority(k, Q, p)
<1>1. /\ Len(q) \in Nat
      /\ q # << >> <=> Len(q) # 0
      /\ \A i \in 1 .. Len(q) : q[i] \in Pids /\ q[i] # NULL
  BY ListFits
<1>2. /\ k.head[Q][l] = IF q = << >> THEN NULL ELSE q[Len(q)]
      /\ q # << >> => k.tail[Q][l] = q[1]
      /\ \A i, n \in 1 .. Len(q) : q[i] = q[n] => i = n
  BY DEF ListIs
<1>3. ASSUME Len(q) = 1
      PROVE  r = [found |-> TRUE, s |-> MovedOn(unlink_all(k, Q, l), Q)]
  <2>1. p = k.head[Q][l] /\ p = k.tail[Q][l]
    BY <1>1, <1>2, <1>3
  <2>. QED  BY <2>1 DEF remove_element_by_priority, MovedOn
<1>4. ASSUME Len(q) > 1, j = Len(q)
      PROVE  r = [found |-> TRUE, s |-> HeadTaken(k, Q, l, q)]
  <2>1. p = k.head[Q][l] /\ p # k.tail[Q][l] /\ p = q[Len(q)]
    BY <1>1, <1>2, <1>4
  <2>. QED  BY <2>1 DEF remove_element_by_priority, HeadTaken
<1>5. ASSUME 1 < j, j < Len(q)
      PROVE  r = [found |-> TRUE, s |-> MiddleTaken(k, q, j)]
  <2>1. p # k.head[Q][l] /\ p # k.tail[Q][l]
    BY <1>1, <1>2, <1>5
  <2>2. turns_before(k, Q, l, p) # {} /\ previous(k, Q, l, p) = q[j + 1]
    <3>1. j + 1 \in 2 .. Len(q) /\ j + 1 - 1 = j
      BY <1>1, <1>5
    <3>. QED  BY <3>1, SearchFinds
  <2>. QED  BY <2>1, <2>2 DEF remove_element_by_priority, MiddleTaken
<1>. QED  BY <1>3, <1>4, <1>5
-----------------------------------------------------------------------------
(* What the functions of module Scheduler keep, for every set of processes and *)
(* every boot order: the types of the state of the kernel, highest_prio, and   *)
(* who waits for a message.  The invariants of the modules that use the        *)
(* scheduler rest on these lemmas.                                             *)

\* e is a state of the kernel that differs from k in its queues only.
QueuesOnly(k, e) ==
    /\ e \in KernelStates
    /\ e.state = k.state /\ e.priority = k.priority
    /\ e.current = k.current /\ e.in_i_process = k.in_i_process

\* Only list l of queue Q has, perhaps, another head.
OtherHeadsKept(k, e, Q, l) ==
    \A R \in Queues, m \in Levels : (R # Q \/ m # l) => e.head[R][m] = k.head[R][m]

Exact(k) == \A Q \in Queues : highest_prio_exact(k, Q)

(* The queues.                                                                 *)

\* Writing a pointer keeps the types of the pointers.
LEMMA PointerUpdates ==
    ASSUME NEW k \in KernelStates, NEW Q \in Queues, NEW l \in Levels
    PROVE  \A x \in Pointers :
             /\ [k.head EXCEPT ![Q][l] = x] \in [Queues -> [Levels -> Pointers]]
             /\ [k.tail EXCEPT ![Q][l] = x] \in [Queues -> [Levels -> Pointers]]
             /\ \A p \in Pids : [k.next EXCEPT ![p] = x] \in [Pids -> Pointers]
<1> SUFFICES ASSUME NEW x \in Pointers
             PROVE  /\ [k.head EXCEPT ![Q][l] = x] \in [Queues -> [Levels -> Pointers]]
                    /\ [k.tail EXCEPT ![Q][l] = x] \in [Queues -> [Levels -> Pointers]]
                    /\ \A p \in Pids : [k.next EXCEPT ![p] = x] \in [Pids -> Pointers]
  OBVIOUS
<1>1. /\ k.next \in [Pids -> Pointers]
      /\ k.head \in [Queues -> [Levels -> Pointers]]
      /\ k.tail \in [Queues -> [Levels -> Pointers]]
  BY DEF KernelStates
<1>2. \A f \in [Queues -> [Levels -> Pointers]] :
        [f EXCEPT ![Q][l] = x] \in [Queues -> [Levels -> Pointers]]
  <2>1. \A g \in [Levels -> Pointers] : [g EXCEPT ![l] = x] \in [Levels -> Pointers]
    OBVIOUS
  <2>. QED  BY <2>1
<1>. QED  BY <1>1, <1>2

\* Linking a PCB into a list changes the pointers only.
LEMMA EnqueueOnList ==
    ASSUME NEW k \in KernelStates, NEW Q \in Queues, NEW l \in Levels, NEW p \in Pids
    PROVE  LET e == enqueue_PCB(k, Q, l, p)
           IN  /\ QueuesOnly(k, e) /\ e.highest_prio = k.highest_prio
               /\ OtherHeadsKept(k, e, Q, l) /\ e.head[Q][l] = p
<1> DEFINE nx == [k.next EXCEPT ![p] = k.head[Q][l]]
           hd == [k.head EXCEPT ![Q][l] = p]
           t == IF isEmpty(k, Q, l) THEN p ELSE k.tail[Q][l]
           tl == [k.tail EXCEPT ![Q][l] = t]
           e == [k EXCEPT !.next = nx, !.head = hd, !.tail = tl]
<1>1. p \in Pointers /\ k.head[Q][l] \in Pointers /\ t \in Pointers
  BY DEF KernelStates, Pointers
<1>2. /\ nx \in [Pids -> Pointers]
      /\ hd \in [Queues -> [Levels -> Pointers]]
      /\ tl \in [Queues -> [Levels -> Pointers]]
  BY <1>1, PointerUpdates
<1>3. /\ hd[Q][l] = p
      /\ \A R \in Queues, m \in Levels : (R # Q \/ m # l) => hd[R][m] = k.head[R][m]
  BY DEF KernelStates
<1>4. enqueue_PCB(k, Q, l, p) = e
  BY DEF enqueue_PCB
<1> HIDE DEF nx, hd, tl
<1>5. QueuesOnly(k, e) /\ e.highest_prio = k.highest_prio /\ e.head = hd
  BY <1>2 DEF KernelStates, QueuesOnly
<1> HIDE DEF e
<1>. QED  BY <1>3, <1>4, <1>5 DEF OtherHeadsKept

\* Linking a PCB in changes the queues only, and keeps highest_prio right.
LEMMA EnqueueTyped ==
    ASSUME NEW k \in KernelStates, NEW Q \in Queues, NEW p \in Pids
    PROVE  LET e == enqueue_PCB_by_priority(k, Q, p)
           IN  QueuesOnly(k, e) /\ (Exact(k) => Exact(e))
<1> DEFINE l == k.priority[p]
           e1 == enqueue_PCB(k, Q, l, p)
           hp == [e1.highest_prio EXCEPT ![Q] = IF l < @ THEN l ELSE @]
           e == [e1 EXCEPT !.highest_prio = hp]
<1>1. l \in Levels /\ l \in 0 .. NUM_PRIO + 1
  BY DEF KernelStates, Levels, NUM_PRIO
<1>2. /\ QueuesOnly(k, e1) /\ e1.highest_prio = k.highest_prio
      /\ OtherHeadsKept(k, e1, Q, l) /\ e1.head[Q][l] = p
  BY <1>1, EnqueueOnList
<1>3. enqueue_PCB_by_priority(k, Q, p) = e
  BY DEF enqueue_PCB_by_priority
<1> HIDE DEF l, e1
<1>4. hp \in [Queues -> 0 .. NUM_PRIO + 1]
  BY <1>1, <1>2 DEF KernelStates, QueuesOnly
<1>5. QueuesOnly(k, e) /\ e.highest_prio = hp /\ e.head = e1.head
  BY <1>2, <1>4 DEF KernelStates, QueuesOnly
<1> HIDE DEF e
<1>6. ASSUME Exact(k), NEW R \in Queues PROVE highest_prio_exact(e, R)
  <2>1. highest_prio_exact(k, R)
    BY <1>6 DEF Exact
  <2>2. CASE R # Q
    <3>1. hp[R] = k.highest_prio[R]
      BY <1>2, <2>2 DEF KernelStates, QueuesOnly
    <3>2. \A m \in Levels : e.head[R][m] = k.head[R][m]
      BY <1>2, <1>5, <2>2 DEF OtherHeadsKept
    <3>. QED  BY <1>5, <2>1, <3>1, <3>2 DEF highest_prio_exact, isEmpty
  <2>3. CASE R = Q
    <3>1. hp[Q] = IF l < k.highest_prio[Q] THEN l ELSE k.highest_prio[Q]
      BY <1>2 DEF KernelStates, QueuesOnly
    <3>2. \A m \in Levels : m # l => e.head[Q][m] = k.head[Q][m]
      BY <1>2, <1>5 DEF OtherHeadsKept
    <3>3. e.head[Q][l] # NULL
      BY <1>2, <1>5, PidsAssumption
    <3>. QED  BY <1>1, <1>5, <2>1, <2>3, <3>1, <3>2, <3>3
              DEF highest_prio_exact, isEmpty, Levels, NUM_PRIO
  <2>. QED  BY <2>2, <2>3
<1>. QED  BY <1>3, <1>5, <1>6 DEF Exact

\* Emptying a list changes its two pointers only.
LEMMA UnlinkAll ==
    ASSUME NEW k \in KernelStates, NEW Q \in Queues, NEW l \in Levels
    PROVE  LET e == unlink_all(k, Q, l)
           IN  /\ QueuesOnly(k, e) /\ e.highest_prio = k.highest_prio
               /\ OtherHeadsKept(k, e, Q, l)
<1> DEFINE hd == [k.head EXCEPT ![Q][l] = NULL]
           tl == [k.tail EXCEPT ![Q][l] = NULL]
           e == [k EXCEPT !.head = hd, !.tail = tl]
<1>1. /\ hd \in [Queues -> [Levels -> Pointers]]
      /\ tl \in [Queues -> [Levels -> Pointers]]
  BY PointerUpdates DEF Pointers
<1>2. \A R \in Queues, m \in Levels : (R # Q \/ m # l) => hd[R][m] = k.head[R][m]
  BY DEF KernelStates
<1>3. unlink_all(k, Q, l) = e
  BY DEF unlink_all
<1> HIDE DEF hd, tl
<1>4. QueuesOnly(k, e) /\ e.highest_prio = k.highest_prio /\ e.head = hd
  BY <1>1 DEF KernelStates, QueuesOnly
<1> HIDE DEF e
<1>. QED  BY <1>2, <1>3, <1>4 DEF OtherHeadsKept

\* Taking the oldest PCB of a list off it changes the pointers only, and the
\* heads of no other list.
LEMMA DequeueFromList ==
    ASSUME NEW k \in KernelStates, NEW Q \in Queues, NEW l \in Levels
    PROVE  LET d == dequeue_PCB_FIFO(k, Q, l)
           IN  /\ d.pcb \in Pointers
               /\ QueuesOnly(k, d.s) /\ d.s.highest_prio = k.highest_prio
               /\ OtherHeadsKept(k, d.s, Q, l)
<1> DEFINE h == k.head[Q][l]
           t == k.tail[Q][l]
           prev == previous(k, Q, l, t)
<1>1. h \in Pointers /\ t \in Pointers /\ NULL \in Pointers
  BY DEF KernelStates, Pointers
<1>2. CASE h = NULL
  <2>1. dequeue_PCB_FIFO(k, Q, l) = [pcb |-> NULL, s |-> k]
    BY <1>2 DEF dequeue_PCB_FIFO
  <2>. QED  BY <1>1, <2>1 DEF QueuesOnly, OtherHeadsKept
<1>3. CASE h # NULL /\ k.next[h] = NULL
  <2>1. dequeue_PCB_FIFO(k, Q, l) = [pcb |-> t, s |-> unlink_all(k, Q, l)]
    BY <1>3 DEF dequeue_PCB_FIFO
  <2> HIDE DEF h, t
  <2>. QED  BY <1>1, <2>1, UnlinkAll
<1>4. CASE h # NULL /\ k.next[h] # NULL /\ turns_before(k, Q, l, t) = {}
  <2> DEFINE e == [k EXCEPT !.hung = TRUE]
  <2>1. dequeue_PCB_FIFO(k, Q, l) = [pcb |-> NULL, s |-> e]
    BY <1>4 DEF dequeue_PCB_FIFO, hang
  <2>2. QueuesOnly(k, e) /\ e.highest_prio = k.highest_prio /\ e.head = k.head
    BY DEF KernelStates, QueuesOnly
  <2> HIDE DEF e
  <2>. QED  BY <1>1, <2>1, <2>2 DEF OtherHeadsKept
<1>5. CASE h # NULL /\ k.next[h] # NULL /\ turns_before(k, Q, l, t) # {}
  <2> DEFINE nx == [k.next EXCEPT ![prev] = NULL]
             tl == [k.tail EXCEPT ![Q][l] = prev]
             e == [k EXCEPT !.next = nx, !.tail = tl]
  <2>1. dequeue_PCB_FIFO(k, Q, l) = [pcb |-> t, s |-> e]
    BY <1>5 DEF dequeue_PCB_FIFO
  <2>2. prev \in Pids /\ prev \in Pointers
    BY <1>5, Previous DEF Pointers
  <2>3. /\ tl \in [Queues -> [Levels -> Pointers]]
        /\ nx \in [Pids -> Pointers]
    BY <1>1, <2>2, PointerUpdates
  <2> HIDE DEF h, t, prev, nx, tl
  <2>4. QueuesOnly(k, e) /\ e.highest_prio = k.highest_prio /\ e.head = k.head
    BY <2>3 DEF KernelStates, QueuesOnly
  <2> HIDE DEF e
  <2>. QED  BY <1>1, <2>1, <2>4 DEF OtherHeadsKept
<1>. QED  BY <1>2, <1>3, <1>4, <1>5

\* Taking the oldest PCB of the most urgent list off it changes the queues only,
\* and keeps highest_prio right.
LEMMA DequeueTyped ==
    ASSUME NEW k \in KernelStates, NEW Q \in Queues
    PROVE  LET d == dequeue_PCB_FIFO_by_priority(k, Q)
           IN  /\ d.pcb \in Pointers
               /\ QueuesOnly(k, d.s) /\ (Exact(k) => Exact(d.s))
<1> DEFINE l == k.highest_prio[Q]
<1>1. CASE l > NUM_PRIO
  <2>1. dequeue_PCB_FIFO_by_priority(k, Q) = [pcb |-> NULL, s |-> k]
    BY <1>1 DEF dequeue_PCB_FIFO_by_priority
  <2>. QED  BY <2>1 DEF QueuesOnly, Pointers
<1>2. CASE ~(l > NUM_PRIO)
  <2> DEFINE d == dequeue_PCB_FIFO(k, Q, l)
             e1 == d.s
             m == first_not_empty(e1, Q, l)
             hp == [e1.highest_prio EXCEPT ![Q] = first_not_empty(e1, Q, @)]
             e == [e1 EXCEPT !.highest_prio = hp]
  <2>1. l \in Levels /\ l \in 0 .. NUM_PRIO + 1
    BY <1>2 DEF KernelStates, Levels, NUM_PRIO
  <2>2. /\ d.pcb \in Pointers
        /\ QueuesOnly(k, e1) /\ e1.highest_prio = k.highest_prio
        /\ OtherHeadsKept(k, e1, Q, l)
    BY <2>1, DequeueFromList
  <2>3. dequeue_PCB_FIFO_by_priority(k, Q) = [pcb |-> d.pcb, s |-> e]
    BY <1>2 DEF dequeue_PCB_FIFO_by_priority
  <2>4. /\ m \in l .. NUM_PRIO + 1
        /\ m \in Levels => ~isEmpty(e1, Q, m)
        /\ \A i \in l .. m - 1 : isEmpty(e1, Q, i)
    BY <2>1, FirstNotEmpty
  <2> HIDE DEF d, m
  <2>5. hp = [k.highest_prio EXCEPT ![Q] = m]
    BY <2>2 DEF m
  <2> HIDE DEF e1, hp
  <2>6. hp \in [Queues -> 0 .. NUM_PRIO + 1]
    BY <2>1, <2>4, <2>5 DEF KernelStates, Levels, NUM_PRIO
  <2>7. QueuesOnly(k, e) /\ e.highest_prio = hp /\ e.head = e1.head
    BY <2>2, <2>6 DEF KernelStates, QueuesOnly
  <2> HIDE DEF e
  <2>8. ASSUME Exact(k), NEW R \in Queues PROVE highest_prio_exact(e, R)
    <3>1. highest_prio_exact(k, R)
      BY <2>8 DEF Exact
    <3>2. CASE R # Q
      <4>1. hp[R] = k.highest_prio[R]
        BY <2>5, <3>2 DEF KernelStates
      <4>2. \A i \in Levels : e.head[R][i] = k.head[R][i]
        BY <2>2, <2>7, <3>2 DEF OtherHeadsKept
      <4>. QED  BY <2>7, <3>1, <4>1, <4>2 DEF highest_prio_exact, isEmpty
    <3>3. CASE R = Q
      <4>1. hp[Q] = m
        BY <2>5 DEF KernelStates
      <4>2. \A i \in Levels : i < l => e.head[Q][i] = k.head[Q][i]
        BY <2>1, <2>2, <2>7 DEF OtherHeadsKept, Levels, NUM_PRIO
      <4>3. \A i \in Levels : i < l => k.head[Q][i] = NULL
        BY <3>1, <3>3 DEF highest_prio_exact, isEmpty
      <4>. QED  BY <2>1, <2>4, <2>7, <3>3, <4>1, <4>2, <4>3
                DEF highest_prio_exact, isEmpty, Levels, NUM_PRIO
    <3>. QED  BY <3>2, <3>3
  <2>. QED  BY <2>2, <2>3, <2>7, <2>8 DEF Exact
<1>. QED  BY <1>1, <1>2
-----------------------------------------------------------------------------
(* The primitives.                                                             *)

\* From k the kernel gets to e: a state of the kernel, whose highest_prio is right
\* if that of k is, and in which nobody but W waits for a message who did not.
Reaches(k, e, W) ==
    /\ e \in KernelStates
    /\ Exact(k) => Exact(e)
    /\ \A p \in Pids \ W : e.state[p] = MESSAGE_WAIT => k.state[p] = MESSAGE_WAIT

\* A call of the queues alone wakes nobody and puts nobody to sleep.
LEMMA QueuesReach ==
    ASSUME NEW k, NEW e, QueuesOnly(k, e), Exact(k) => Exact(e)
    PROVE  Reaches(k, e, {})
  BY DEF QueuesOnly, Reaches

\* Two steps inside a primitive, one after the other.
LEMMA ReachesTransitive ==
    ASSUME NEW k, NEW e, NEW f, NEW W, NEW V, Reaches(k, e, W), Reaches(e, f, V)
    PROVE  Reaches(k, f, W \cup V)
  BY DEF Reaches

\* A change of the state of a process, of the current process, or of a flag.
LEMMA Assignments ==
    ASSUME NEW k \in KernelStates
    PROVE  /\ \A p \in Pids : Reaches(k, context_switch(k, p), {})
           /\ \A p \in Pids, x \in {READY, RUNNING, MEMORY_WAIT} :
                 Reaches(k, [k EXCEPT !.state[p] = x], {})
           /\ \A p \in Pids : Reaches(k, [k EXCEPT !.state[p] = MESSAGE_WAIT], {p})
           /\ \A b \in BOOLEAN : Reaches(k, [k EXCEPT !.in_i_process = b], {})
           /\ Reaches(k, hang(k), {})
<1>1. \A e : e.head = k.head /\ e.highest_prio = k.highest_prio => (Exact(k) => Exact(e))
  BY DEF Exact, highest_prio_exact, isEmpty
<1>2. ASSUME NEW p \in Pids PROVE Reaches(k, context_switch(k, p), {})
  <2> DEFINE e == [k EXCEPT !.current = p]
  <2>1. /\ e \in KernelStates /\ e.state = k.state
        /\ e.head = k.head /\ e.highest_prio = k.highest_prio
    BY DEF KernelStates
  <2>2. context_switch(k, p) = e
    BY DEF context_switch
  <2> HIDE DEF e
  <2>. QED  BY <1>1, <2>1, <2>2 DEF Reaches
<1>3. ASSUME NEW p \in Pids, NEW x \in States
      PROVE  Reaches(k, [k EXCEPT !.state[p] = x], IF x = MESSAGE_WAIT THEN {p} ELSE {})
  <2> DEFINE st == [k.state EXCEPT ![p] = x]
             e == [k EXCEPT !.state = st]
  <2>1. st \in [Pids -> States] /\ \A q \in Pids : st[q] = IF q = p THEN x ELSE k.state[q]
    BY DEF KernelStates
  <2> HIDE DEF st
  <2>2. /\ e \in KernelStates /\ e.state = st
        /\ e.head = k.head /\ e.highest_prio = k.highest_prio
    BY <2>1 DEF KernelStates
  <2>3. e = [k EXCEPT !.state[p] = x]
    BY DEF st
  <2> HIDE DEF e
  <2>. QED  BY <1>1, <2>1, <2>2, <2>3 DEF Reaches
<1>4. ASSUME NEW b \in BOOLEAN PROVE Reaches(k, [k EXCEPT !.in_i_process = b], {})
  <2> DEFINE e == [k EXCEPT !.in_i_process = b]
  <2>1. /\ e \in KernelStates /\ e.state = k.state
        /\ e.head = k.head /\ e.highest_prio = k.highest_prio
    BY DEF KernelStates
  <2> HIDE DEF e
  <2>2. Reaches(k, e, {})
    BY <1>1, <2>1 DEF Reaches
  <2>. QED  BY <2>2 DEF e
<1>5. Reaches(k, hang(k), {})
  <2> DEFINE e == [k EXCEPT !.hung = TRUE]
  <2>1. /\ e \in KernelStates /\ e.state = k.state
        /\ e.head = k.head /\ e.highest_prio = k.highest_prio
    BY DEF KernelStates
  <2>2. hang(k) = e
    BY DEF hang
  <2> HIDE DEF e
  <2>. QED  BY <1>1, <2>1, <2>2 DEF Reaches
<1>6. /\ {READY, RUNNING, MEMORY_WAIT, MESSAGE_WAIT} \subseteq States
      /\ MESSAGE_WAIT \notin {READY, RUNNING, MEMORY_WAIT}
  BY DEF States, READY, RUNNING, MEMORY_WAIT, MESSAGE_WAIT
<1>7. \A p \in Pids : Reaches(k, [k EXCEPT !.state[p] = MESSAGE_WAIT], {p})
  BY <1>3, <1>6
<1>8. \A p \in Pids, x \in {READY, RUNNING, MEMORY_WAIT} :
        Reaches(k, [k EXCEPT !.state[p] = x], {})
  BY <1>3, <1>6
<1>. QED  BY <1>2, <1>4, <1>5, <1>7, <1>8

\* Linking a PCB in wakes nobody, puts nobody to sleep and keeps highest_prio right.
LEMMA EnqueueReaches ==
    ASSUME NEW k \in KernelStates, NEW Q \in Queues, NEW p \in Pids
    PROVE  Reaches(k, enqueue_PCB_by_priority(k, Q, p), {})
  BY EnqueueTyped, QueuesReach

\* So does taking the oldest PCB of the most urgent list off.
LEMMA DequeueReaches ==
    ASSUME NEW k \in KernelStates, NEW Q \in Queues
    PROVE  LET d == dequeue_PCB_FIFO_by_priority(k, Q)
           IN  Reaches(k, d.s, {}) /\ d.s \in KernelStates /\ d.pcb \in Pids \cup {NULL}
  BY DequeueTyped, QueuesReach DEF QueuesOnly, Pointers

\* Handing the processor to the next ready process wakes nobody.
LEMMA Dispatch ==
    ASSUME NEW k \in KernelStates
    PROVE  Reaches(k, dispatch(k), {})
<1> DEFINE d == dequeue_PCB_FIFO_by_priority(k, "READY_queue")
           e == [d.s EXCEPT !.state[d.pcb] = RUNNING]
<1>1. Reaches(k, d.s, {}) /\ d.s \in KernelStates /\ d.pcb \in Pids \cup {NULL}
  BY DequeueReaches DEF Queues
<1>2. dispatch(k) = IF d.pcb = NULL THEN hang(d.s) ELSE context_switch(e, d.pcb)
  BY DEF dispatch
<1> HIDE DEF d
<1>3. CASE d.pcb = NULL
  <2>1. Reaches(d.s, hang(d.s), {})
    BY <1>1, Assignments
  <2>. QED  BY <1>1, <1>2, <1>3, <2>1, ReachesTransitive
<1>4. CASE d.pcb # NULL
  <2>1. Reaches(d.s, e, {})
    BY <1>1, <1>4, Assignments
  <2> HIDE DEF e
  <2>2. Reaches(e, context_switch(e, d.pcb), {})
    BY <1>1, <1>4, <2>1, Assignments DEF Reaches
  <2>3. Reaches(k, e, {})
    BY <1>1, <2>1, ReachesTransitive
  <2>. QED  BY <1>2, <1>4, <2>2, <2>3, ReachesTransitive
<1>. QED  BY <1>3, <1>4

\* process_switch, whichever way its comparison goes.
LEMMA ProcessSwitch ==
    ASSUME NEW k \in KernelStates
    PROVE  Reaches(k, process_switch(k), {})
<1> DEFINE d == dequeue_PCB_FIFO_by_priority(k, "READY_queue")
           e1 == [d.s EXCEPT !.state[d.pcb] = RUNNING]
           e2 == [e1 EXCEPT !.state[k.current] = READY]
           e3 == [e2 EXCEPT !.in_i_process = FALSE]
           e4 == enqueue_PCB_by_priority(e3, "READY_queue", k.current)
<1>1. Reaches(k, d.s, {}) /\ d.s \in KernelStates /\ d.pcb \in Pids \cup {NULL}
  BY DequeueReaches DEF Queues
<1>2. process_switch(k) =
        IF k.highest_prio["READY_queue"] > k.priority[k.current] THEN k
        ELSE IF d.pcb = NULL THEN hang(d.s) ELSE context_switch(e4, d.pcb)
  BY DEF process_switch
<1>3. k.current \in Pids
  BY DEF KernelStates
<1> HIDE DEF d
<1>4. Reaches(k, k, {})
  BY DEF Reaches
<1>5. CASE d.pcb = NULL
  <2>1. Reaches(d.s, hang(d.s), {})
    BY <1>1, Assignments
  <2>2. Reaches(k, hang(d.s), {})
    BY <1>1, <2>1, ReachesTransitive
  <2>. QED  BY <1>2, <1>4, <1>5, <2>2
<1>6. CASE d.pcb # NULL
  <2>1. Reaches(d.s, e1, {})
    BY <1>1, <1>6, Assignments
  <2>2. e1 \in KernelStates
    BY <2>1 DEF Reaches
  <2> HIDE DEF e1
  <2>3. Reaches(e1, e2, {})
    BY <1>3, <2>2, Assignments
  <2>4. e2 \in KernelStates
    BY <2>3 DEF Reaches
  <2> HIDE DEF e2
  <2>5. Reaches(e2, e3, {})
    BY <2>4, Assignments
  <2>6. e3 \in KernelStates
    BY <2>5 DEF Reaches
  <2> HIDE DEF e3
  <2>7. Reaches(e3, e4, {})
    BY <1>3, <2>6, EnqueueReaches DEF Queues
  <2>8. e4 \in KernelStates
    BY <2>7 DEF Reaches
  <2> HIDE DEF e4
  <2>9. Reaches(e4, context_switch(e4, d.pcb), {})
    BY <1>1, <1>6, <2>8, Assignments
  <2>10. Reaches(k, context_switch(e4, d.pcb), {})
    BY <1>1, <2>1, <2>3, <2>5, <2>7, <2>9 DEF Reaches
  <2>. QED  BY <1>2, <1>4, <1>6, <2>10
<1>. QED  BY <1>5, <1>6

\* A process that is made ready does not wait for a message any more.
LEMMA MakeReady ==
    ASSUME NEW k \in KernelStates, NEW p \in Pids
    PROVE  /\ Reaches(k, make_ready(k, p), {})
           /\ make_ready(k, p).state[p] # MESSAGE_WAIT
<1> DEFINE e == [k EXCEPT !.state[p] = READY]
<1>1. Reaches(k, e, {}) /\ e \in KernelStates
  BY Assignments DEF Reaches
<1>2. e.state[p] = READY
  BY DEF KernelStates
<1>3. make_ready(k, p) = enqueue_PCB_by_priority(e, "READY_queue", p)
  BY DEF make_ready
<1> HIDE DEF e
<1>4. QueuesOnly(e, make_ready(k, p)) /\ Reaches(e, make_ready(k, p), {})
  BY <1>1, <1>3, EnqueueTyped, EnqueueReaches DEF Queues
<1>5. Reaches(k, make_ready(k, p), {})
  BY <1>1, <1>4, ReachesTransitive
<1>. QED  BY <1>2, <1>4, <1>5 DEF QueuesOnly, READY, MESSAGE_WAIT

\* After send_message the receiver does not wait for a message, whether the sender
\* goes on or not.
LEMMA WakeReceiver ==
    ASSUME NEW k \in KernelStates, NEW d \in Pids
    PROVE  /\ Reaches(k, wake_receiver(k, d), {})
           /\ wake_receiver(k, d).state[d] # MESSAGE_WAIT
<1> DEFINE woken == make_ready(k, d)
           n == dequeue_PCB_FIFO_by_priority(woken, "READY_queue")
<1>1. CASE k.state[d] # MESSAGE_WAIT
  BY <1>1 DEF wake_receiver, Reaches
<1>2. CASE k.state[d] = MESSAGE_WAIT
  <2>1. /\ Reaches(k, woken, {}) /\ woken \in KernelStates
        /\ woken.state[d] # MESSAGE_WAIT
    BY MakeReady DEF Reaches
  <2> HIDE DEF woken
  <2>2. Reaches(woken, n.s, {}) /\ n.s \in KernelStates /\ n.pcb \in Pids \cup {NULL}
    BY <2>1, DequeueReaches DEF Queues
  <2> HIDE DEF n
  <2>3. Reaches(n.s, hang(n.s), {})
    BY <2>2, Assignments
  <2>4. n.pcb # NULL => Reaches(n.s, context_switch(n.s, n.pcb), {})
    BY <2>2, Assignments
  <2>5. wake_receiver(k, d) \in
          {woken, hang(n.s)} \cup (IF n.pcb # NULL THEN {context_switch(n.s, n.pcb)} ELSE {})
    BY <1>2 DEF wake_receiver, woken, n
  <2>. QED  BY <2>1, <2>2, <2>3, <2>4, <2>5 DEF Reaches
<1>. QED  BY <1>1, <1>2

\* Only the caller of receive_message may start to wait for a message.
LEMMA WaitForMessage ==
    ASSUME NEW k \in KernelStates
    PROVE  Reaches(k, wait_for_message(k), {k.current})
<1> DEFINE e == [k EXCEPT !.state[k.current] = MESSAGE_WAIT]
<1>1. k.current \in Pids
  BY DEF KernelStates
<1>2. Reaches(k, e, {k.current}) /\ e \in KernelStates
  BY <1>1, Assignments DEF Reaches
<1>3. wait_for_message(k) = dispatch(e)
  BY DEF wait_for_message
<1> HIDE DEF e
<1>4. Reaches(e, wait_for_message(k), {})
  BY <1>2, <1>3, Dispatch
<1>. QED  BY <1>2, <1>4 DEF Reaches

\* A process that waits for memory does not wait for a message.
LEMMA WaitForMemory ==
    ASSUME NEW k \in KernelStates
    PROVE  Reaches(k, wait_for_memory(k), {})
<1> DEFINE e == [k EXCEPT !.state[k.current] = MEMORY_WAIT]
           f == enqueue_PCB_by_priority(e, "MEMORY_WAIT_queue", k.current)
<1>1. k.current \in Pids
  BY DEF KernelStates
<1>2. Reaches(k, e, {}) /\ e \in KernelStates
  BY <1>1, Assignments DEF Reaches
<1>3. wait_for_memory(k) = dispatch(f)
  BY DEF wait_for_memory
<1> HIDE DEF e
<1>4. Reaches(e, f, {}) /\ f \in KernelStates
  BY <1>1, <1>2, EnqueueReaches DEF Queues, Reaches
<1> HIDE DEF f
<1>5. Reaches(f, wait_for_memory(k), {})
  BY <1>3, <1>4, Dispatch
<1>. QED  BY <1>2, <1>4, <1>5 DEF Reaches

\* release_memory_block wakes at most one process, and not from MESSAGE_WAIT.
LEMMA WakeMemoryWaiter ==
    ASSUME NEW k \in KernelStates
    PROVE  Reaches(k, wake_memory_waiter(k), {})
<1> DEFINE d == dequeue_PCB_FIFO_by_priority(k, "MEMORY_WAIT_queue")
           woken == make_ready(d.s, d.pcb)
<1>1. Reaches(k, d.s, {}) /\ d.s \in KernelStates /\ d.pcb \in Pids \cup {NULL}
  BY DequeueReaches DEF Queues
<1>2. wake_memory_waiter(k) \in
        {k, hang(d.s)} \cup (IF d.pcb # NULL THEN {woken, process_switch(woken)} ELSE {})
  BY DEF wake_memory_waiter
<1> HIDE DEF d
<1>3. Reaches(d.s, hang(d.s), {})
  BY <1>1, Assignments
<1>4. d.pcb # NULL => Reaches(d.s, woken, {}) /\ woken \in KernelStates
  BY <1>1, MakeReady DEF Reaches
<1> HIDE DEF woken
<1>5. d.pcb # NULL => Reaches(woken, process_switch(woken), {})
  BY <1>4, ProcessSwitch
<1>. QED  BY <1>1, <1>2, <1>3, <1>4, <1>5 DEF Reaches

\* The interrupt handlers wake nobody.
LEMMA EnterIProcess ==
    ASSUME NEW k \in KernelStates, NEW i \in Pids
    PROVE  Reaches(k, enter_i_process(k, i), {})
<1> DEFINE e == [k EXCEPT !.in_i_process = TRUE]
           f == enqueue_PCB_by_priority(e, "READY_queue", k.current)
<1>1. k.current \in Pids
  BY DEF KernelStates
<1>2. Reaches(k, e, {}) /\ e \in KernelStates
  BY Assignments DEF Reaches
<1>3. enter_i_process(k, i) = context_switch(f, i)
  BY DEF enter_i_process
<1> HIDE DEF e
<1>4. Reaches(e, f, {}) /\ f \in KernelStates
  BY <1>1, <1>2, EnqueueReaches DEF Queues, Reaches
<1> HIDE DEF f
<1>5. Reaches(f, context_switch(f, i), {})
  BY <1>4, Assignments
<1>. QED  BY <1>2, <1>3, <1>4, <1>5 DEF Reaches

\* Taking a PCB out of a list changes the queues only.  (It need not keep
\* highest_prio right.)
LEMMA Remove ==
    ASSUME NEW k \in KernelStates, NEW Q \in Queues, NEW p \in Pids
    PROVE  QueuesOnly(k, remove_element_by_priority(k, Q, p).s)
<1> DEFINE l == k.priority[p]
           h == k.head[Q][l]
           t == k.tail[Q][l]
           prev == previous(k, Q, l, p)
           after == remove_element_by_priority(k, Q, p).s
<1>1. l \in Levels /\ k.next[p] \in Pointers
  BY DEF KernelStates
<1>2. CASE p # h /\ turns_before(k, Q, l, p) = {}
  <2> DEFINE e == [k EXCEPT !.hung = TRUE]
  <2>1. after \in {k, e}
    BY <1>2 DEF remove_element_by_priority, hang
  <2>2. QueuesOnly(k, k) /\ QueuesOnly(k, e)
    BY DEF QueuesOnly, KernelStates
  <2> HIDE DEF e
  <2>. QED  BY <2>1, <2>2
<1>3. CASE p = h /\ p = t
  <2> DEFINE e == unlink_all(k, Q, l)
             m == first_not_empty(e, Q, k.highest_prio[Q])
             hp == [e.highest_prio EXCEPT ![Q] = first_not_empty(e, Q, @)]
             f == [e EXCEPT !.highest_prio = hp]
  <2>1. after = f
    BY <1>3 DEF remove_element_by_priority
  <2>2. QueuesOnly(k, e) /\ e.highest_prio = k.highest_prio
    BY <1>1, UnlinkAll
  <2>3. k.highest_prio[Q] \in 0 .. NUM_PRIO + 1
    BY DEF KernelStates
  <2>4. m \in k.highest_prio[Q] .. NUM_PRIO + 1
    BY <2>3, FirstNotEmpty
  <2>5. m \in 0 .. NUM_PRIO + 1
    BY <2>3, <2>4 DEF NUM_PRIO
  <2>6. hp = [k.highest_prio EXCEPT ![Q] = m]
    BY <2>2
  <2> HIDE DEF e, m, hp
  <2>7. hp \in [Queues -> 0 .. NUM_PRIO + 1]
    BY <2>5, <2>6 DEF KernelStates
  <2>8. QueuesOnly(k, f)
    BY <2>2, <2>7 DEF KernelStates, QueuesOnly
  <2> HIDE DEF f
  <2>. QED  BY <2>1, <2>8
<1>4. CASE p = h /\ p # t
  <2> DEFINE hd == [k.head EXCEPT ![Q][l] = k.next[p]]
             e == [k EXCEPT !.head = hd]
  <2>1. after = e
    BY <1>4 DEF remove_element_by_priority
  <2>2. hd \in [Queues -> [Levels -> Pointers]]
    BY <1>1, PointerUpdates
  <2> HIDE DEF hd
  <2>3. QueuesOnly(k, e)
    BY <2>2 DEF KernelStates, QueuesOnly
  <2> HIDE DEF e
  <2>. QED  BY <2>1, <2>3
<1>5. CASE p # h /\ turns_before(k, Q, l, p) # {}
  <2> DEFINE tl == [k.tail EXCEPT ![Q][l] = prev]
             nx == [k.next EXCEPT ![prev] = k.next[p]]
             e == [k EXCEPT !.tail = tl]
             f == [k EXCEPT !.next = nx]
  <2>1. after \in {e, f}
    BY <1>5 DEF remove_element_by_priority
  <2>2. prev \in Pids /\ prev \in Pointers
    BY <1>5, Previous DEF Pointers
  <2>3. tl \in [Queues -> [Levels -> Pointers]] /\ nx \in [Pids -> Pointers]
    BY <1>1, <2>2, PointerUpdates
  <2> HIDE DEF tl, nx
  <2>4. QueuesOnly(k, e) /\ QueuesOnly(k, f)
    BY <2>3 DEF KernelStates, QueuesOnly
  <2> HIDE DEF e, f
  <2>. QED  BY <2>1, <2>4
<1>. QED  BY <1>2, <1>3, <1>4, <1>5

\* What a change of priority keeps even when it breaks a list.
LEMMA SetProcessPriority ==
    ASSUME NEW k \in KernelStates, NEW p \in Pids, NEW l \in Levels
    PROVE  LET e == kernel_set_process_priority(k, p, l)
           IN  /\ e \in KernelStates
               /\ \A q \in Pids : e.state[q] = MESSAGE_WAIT => k.state[q] = MESSAGE_WAIT
<1> DEFINE Q == IF k.state[p] = MEMORY_WAIT THEN "MEMORY_WAIT_queue" ELSE "READY_queue"
           r == remove_element_by_priority(k, Q, p)
           f == [k EXCEPT !.priority[p] = l]
           g == [r.s EXCEPT !.priority[p] = l]
           relinked == enqueue_PCB_by_priority(g, Q, p)
           Kept(e) == /\ e \in KernelStates
                      /\ \A q \in Pids : e.state[q] = MESSAGE_WAIT => k.state[q] = MESSAGE_WAIT
<1>1. \A e \in KernelStates :
        LET c == [e EXCEPT !.priority[p] = l] IN c \in KernelStates /\ c.state = e.state
  <2> TAKE e \in KernelStates
  <2> DEFINE pr == [e.priority EXCEPT ![p] = l]
             c == [e EXCEPT !.priority = pr]
  <2>1. pr \in [Pids -> Levels]
    BY DEF KernelStates
  <2> HIDE DEF pr
  <2>2. c \in KernelStates /\ c.state = e.state
    BY <2>1 DEF KernelStates
  <2>. QED  BY <2>2 DEF pr
<1>2. kernel_set_process_priority(k, p, l) \in
        {f, process_switch(f), r.s, process_switch(relinked), relinked}
  BY DEF kernel_set_process_priority
<1>3. Q \in Queues
  BY DEF Queues
<1> HIDE DEF Q
<1>4. r.s \in KernelStates /\ r.s.state = k.state
  BY <1>3, Remove DEF QueuesOnly
<1> HIDE DEF r
<1>5. /\ f \in KernelStates /\ f.state = k.state
      /\ g \in KernelStates /\ g.state = k.state
  BY <1>1, <1>4
<1> HIDE DEF f, g
<1>6. relinked \in KernelStates /\ relinked.state = k.state
  BY <1>3, <1>5, EnqueueTyped DEF QueuesOnly
<1> HIDE DEF relinked
<1>7. Kept(process_switch(f)) /\ Kept(process_switch(relinked))
  BY <1>5, <1>6, ProcessSwitch DEF Reaches
<1>8. Kept(f) /\ Kept(r.s) /\ Kept(relinked)
  BY <1>4, <1>5, <1>6
<1>. QED  BY <1>2, <1>7, <1>8
-----------------------------------------------------------------------------
(* Booting.                                                                    *)

\* The first and the last index of a set of boot indices.
LEMMA BootPicks ==
    ASSUME NEW S \in SUBSET DOMAIN BootOrder, S # {}
    PROVE  Newest(S) \in S /\ Oldest(S) \in S
<1>1. S \subseteq 1 .. Len(BootOrder) /\ Len(BootOrder) \in Nat
  BY SchedulerAssumption
<1>2. Oldest(S) \in S
  <2>1. S \in SUBSET Nat
    BY <1>1
  <2>2. first_turn(S) \in S
    BY <2>1, Least
  <2>. QED  BY <2>2 DEF Oldest, first_turn
<1>3. Newest(S) \in S
  <2> DEFINE T == {Len(BootOrder) - i : i \in S}
  <2>1. T \in SUBSET Nat /\ T # {}
    BY <1>1
  <2>2. PICK m \in T : \A j \in T : m <= j
    BY <2>1, Least
  <2>3. PICK i \in S : m = Len(BootOrder) - i
    BY <2>2
  <2>4. \A j \in S : j <= i
    <3>1. \A j \in S : Len(BootOrder) - i <= Len(BootOrder) - j
      BY <2>2, <2>3
    <3>. QED  BY <1>1, <3>1
  <2>. QED  BY <2>4 DEF Newest
<1>. QED  BY <1>2, <1>3

\* The pointers that linking in the PCBs leaves.
LEMMA BootPointers ==
    /\ \A l \in Levels : BootHead(l) \in Pointers /\ BootTail(l) \in Pointers
    /\ \A i \in DOMAIN BootOrder : BootNext(i) \in Pointers
<1>1. \A i \in DOMAIN BootOrder : BootOrder[i] \in Pointers
  BY SchedulerAssumption DEF Pointers
<1>2. \A l : BootIndices(l) \in SUBSET DOMAIN BootOrder
  BY DEF BootIndices
<1>3. \A l \in Levels : BootHead(l) \in Pointers /\ BootTail(l) \in Pointers
  BY <1>1, <1>2, BootPicks DEF BootHead, BootTail, Pointers
<1>4. ASSUME NEW i \in DOMAIN BootOrder PROVE BootNext(i) \in Pointers
  <2> DEFINE before == {j \in BootIndices(BootPriority[BootOrder[i]]) : j < i}
  <2>1. before \in SUBSET DOMAIN BootOrder
    BY <1>2
  <2>2. BootNext(i) = IF before = {} THEN NULL ELSE BootOrder[Newest(before)]
    BY DEF BootNext
  <2> HIDE DEF before
  <2>. QED  BY <1>1, <2>1, <2>2, BootPicks DEF Pointers
<1>. QED  BY <1>3, <1>4

\* The state of the kernel when the scheduler takes its first process.
LEMMA Booted == booted \in KernelStates /\ Exact(booted) /\ booted.state = [p \in Pids |-> READY]
<1> DEFINE nx == [p \in Pids |->
                    IF \E i \in DOMAIN BootOrder : BootOrder[i] = p
                    THEN BootNext(CHOOSE i \in DOMAIN BootOrder : BootOrder[i] = p)
                    ELSE NULL]
           hd == [empty_queues.head EXCEPT !["READY_queue"] = [l \in Levels |-> BootHead(l)]]
           tl == [empty_queues.tail EXCEPT !["READY_queue"] = [l \in Levels |-> BootTail(l)]]
           hp == empty_queues.highest_prio
           st == [p \in Pids |-> READY]
           k == [current |-> NULL_PID, in_i_process |-> FALSE, hung |-> FALSE,
                 state |-> st, priority |-> BootPriority, next |-> nx,
                 head |-> hd, tail |-> tl, highest_prio |-> hp]
           m == first_not_empty(k, "READY_queue", 0)
           hp1 == [hp EXCEPT !["READY_queue"] = m]
           e == [k EXCEPT !.highest_prio = hp1]
<1>1. booted = e
  BY DEF booted
<1>2. nx \in [Pids -> Pointers]
  <2>1. \A p \in Pids : nx[p] \in Pointers
    BY BootPointers DEF Pointers
  <2>. QED  BY <2>1
<1>3. /\ hd \in [Queues -> [Levels -> Pointers]]
      /\ tl \in [Queues -> [Levels -> Pointers]]
      /\ \A l \in Levels : hd["MEMORY_WAIT_queue"][l] = NULL
  BY BootPointers DEF empty_queues, Pointers, Queues
<1>4. hp \in [Queues -> 0 .. NUM_PRIO + 1] /\ hp["MEMORY_WAIT_queue"] = NUM_PRIO + 1
  BY DEF empty_queues, Queues, NUM_PRIO
<1>5. st \in [Pids -> States] /\ BootPriority \in [Pids -> Levels] /\ NULL_PID \in Pids
  BY SchedulerAssumption DEF States
<1>6. 0 \in 0 .. NUM_PRIO + 1
  BY DEF NUM_PRIO
<1>7. /\ m \in 0 .. NUM_PRIO + 1
      /\ m \in Levels => ~isEmpty(k, "READY_queue", m)
      /\ \A l \in 0 .. m - 1 : isEmpty(k, "READY_queue", l)
  BY <1>6, FirstNotEmpty
<1> HIDE DEF m
<1>8. /\ hp1 \in [Queues -> 0 .. NUM_PRIO + 1]
      /\ hp1["READY_queue"] = m /\ hp1["MEMORY_WAIT_queue"] = NUM_PRIO + 1
  <2> HIDE DEF hp
  <2>. QED  BY <1>4, <1>7 DEF Queues
<1> HIDE DEF nx, hd, tl, hp, st, hp1
<1>9. e \in KernelStates /\ e.head = hd /\ e.highest_prio = hp1 /\ e.state = st /\ k.head = hd
  BY <1>2, <1>3, <1>5, <1>8 DEF KernelStates
<1> HIDE DEF e, k
<1>10. highest_prio_exact(e, "READY_queue")
  BY <1>7, <1>8, <1>9 DEF highest_prio_exact, isEmpty, Levels, NUM_PRIO
<1>11. highest_prio_exact(e, "MEMORY_WAIT_queue")
  BY <1>3, <1>8, <1>9 DEF highest_prio_exact, isEmpty, Levels, NUM_PRIO
<1>. QED  BY <1>1, <1>9, <1>10, <1>11 DEF Exact, Queues, st
=============================================================================
