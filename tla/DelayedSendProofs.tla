-------------------------- MODULE DelayedSendProofs --------------------------
(* When messages are sent by the timing service, for every set of messages and *)
(* every longest delay: not before the delay that was asked for, less the      *)
(* ticks that were counted already; in the order of their delays; and how late *)
(* at the latest.                                                              *)
EXTENDS DelayedSend, SequenceTheorems, FiniteSetTheorems, WellFoundedInduction, TLAPS

Entries == [mess : Messages, delay : Nat]

\* Twice the ticks that can pass before a message is sent whose entry stores d:
\* the d ticks themselves, and those the timer gives up when others are linked in
\* in front of it.  Every new entry splits the d ticks, and each of the d - 1
\* places for a split can be used once.
Most(d) == IF d = 0 THEN 0 ELSE d * d + 3 * d - 2

\* left[i] are the ticks stored in the first i entries of q, and most[i] is twice
\* what those ticks can become.
Sums(q, left, most) ==
    /\ left \in [0 .. Len(q) -> Nat] /\ most \in [0 .. Len(q) -> Nat]
    /\ left[0] = 0 /\ most[0] = 0
    /\ \A i \in 1 .. Len(q) : /\ left[i] = left[i - 1] + q[i].delay
                              /\ most[i] = most[i - 1] + Most(q[i].delay)
    /\ \A i, j \in 0 .. Len(q) : i <= j => left[i] <= left[j] /\ most[i] <= most[j]
    /\ \A i \in 0 .. Len(q) : most[i] <= Most(left[i])

(* The invariant.                                                              *)

\* The queue holds no message twice and its first entry is not due already.
QueueTyped(q) ==
    /\ q \in Seq(Entries)
    /\ \A i, j \in 1 .. Len(q) : q[i].mess = q[j].mess => i = j
    /\ Len(q) > 0 => q[1].delay > 0

HistoryTyped ==
    /\ timer_count \in 0 .. MaxDelay + 1
    /\ asked \in [Messages -> 0 .. MaxDelay]
    /\ waited \in [Messages -> Nat]
    /\ counted_then \in [Messages -> 0 .. MaxDelay + 1]

\* The ticks stored up to a message are what is left of its delay, counted from
\* the last message sent; two messages handed over in the same tick have waited
\* for the same part of it.
InStep(q, left) ==
    \A i \in 1 .. Len(q) :
        /\ left[i] <= MaxDelay
        /\ waited[q[i].mess] = 0 => asked[q[i].mess] = left[i]
        /\ \A j \in 1 .. Len(q) :
              waited[q[i].mess] = waited[q[j].mess] =>
                asked[q[i].mess] - left[i] = asked[q[j].mess] - left[j]

\* At most the ticks counted when a message was handed over are missing.
Early(q, left) ==
    \A i \in 1 .. Len(q) :
        LET m == q[i].mess
        IN  waited[m] + left[i] - timer_count >= asked[m] - counted_then[m]

\* What a message has waited and what it still can wait; a count that has reached
\* the delay of the first entry is about to be given up.
Late(q, most) ==
    \A i \in 1 .. Len(q) :
        LET m == q[i].mess
        IN  IF timer_count < q[1].delay
            THEN 2 * waited[m] + most[i] - 2 * timer_count <= Most(asked[m]) + 2
            ELSE 2 * waited[m] + most[i] <= Most(asked[m])

Accounts(q, left, most) ==
    Sums(q, left, most) /\ InStep(q, left) /\ Early(q, left) /\ Late(q, most)

Inv == /\ QueueTyped(delayed_send_queue) /\ HistoryTyped
       /\ \E left, most : Accounts(delayed_send_queue, left, most)
-----------------------------------------------------------------------------
(* Numbers.                                                                    *)

\* Every set of numbers has a least one.
LEMMA Least ==
    ASSUME NEW T \in SUBSET Nat, T # {}
    PROVE  \E i \in T : \A j \in T : i <= j
<1>1. PICK i \in T : \A j \in T : ~(<<j, i>> \in OpToRel(<, Nat))
  BY NatLessThanWellFounded, WFMin
<1>2. \A j \in T : ~(j < i)
  BY <1>1 DEF OpToRel
<1>. QED  BY <1>2

\* A function whose values lie in a smaller set.
LEMMA Narrowed ==
    ASSUME NEW D, NEW R, NEW S, NEW f \in [D -> R], \A i \in D : f[i] \in S
    PROVE  f \in [D -> S]
  OBVIOUS

\* Splitting the ticks of an entry loses at least as many as were counted.
LEMMA MostSplit ==
    ASSUME NEW a \in Nat \ {0}, NEW b \in Nat \ {0}
    PROVE  /\ Most(a + b) = Most(a) + Most(b) + 2 * (a * b) + 2
           /\ a * b >= a + b - 1
           /\ a * b \in Nat
<1>1. (a - 1) * (b - 1) >= 0
  OBVIOUS
<1>2. (a - 1) * (b - 1) = a * b - a - b + 1
  OBVIOUS
<1>3. a * b >= a + b - 1 /\ a * b \in Nat
  BY <1>1, <1>2
<1>4. (a + b) * (a + b) = a * a + 2 * (a * b) + b * b
  OBVIOUS
<1>. QED  BY <1>3, <1>4 DEF Most

\* The potential of a delay is a natural number, at least twice the delay, and less
\* than the double of what NeverVeryLate allows.
LEMMA MostBounds ==
    ASSUME NEW d \in Nat
    PROVE  /\ Most(d) \in Nat
           /\ d > 0 => Most(d) >= 2 * d
           /\ d > 0 => Most(d) < 2 * d + d * (d + 1)
<1>1. d > 0 => d * d >= d
  OBVIOUS
<1>2. d * (d + 1) = d * d + d
  OBVIOUS
<1>. QED  BY <1>1, <1>2 DEF Most
-----------------------------------------------------------------------------
(* Linking a message in.                                                       *)

\* r is q with entry e linked in behind the first n entries, the ticks of e taken
\* off the entry behind it.
LinkedAt(q, n, e, r) ==
    /\ r \in Seq(Entries) /\ Len(r) = Len(q) + 1
    /\ \A i \in 1 .. n : r[i] = q[i]
    /\ r[n + 1] = e
    /\ \A i \in n + 1 .. Len(q) :
          /\ r[i + 1].mess = q[i].mess
          /\ r[i + 1].delay = IF i = n + 1 THEN q[i].delay - e.delay ELSE q[i].delay

\* The recursion that adds the ticks up.
LEMMA TicksAreLeft ==
    ASSUME QueueTyped(delayed_send_queue),
           NEW left, NEW most, Sums(delayed_send_queue, left, most)
    PROVE  \A n \in 0 .. Len(delayed_send_queue) : ticks_before[n] = left[n]
<1> DEFINE q == delayed_send_queue
           Step(f) == [n \in 0 .. Len(q) |-> IF n = 0 THEN 0 ELSE f[n - 1] + q[n].delay]
<1>0. Len(q) \in Nat
  BY DEF QueueTyped
<1>1. left = Step(left)
  <2>1. \A n \in 0 .. Len(q) : n # 0 => n \in 1 .. Len(q)
    BY <1>0
  <2>. QED  BY <2>1 DEF Sums
<1>2. ticks_before = Step(ticks_before)
  <2>1. ticks_before = CHOOSE f : f = Step(f)
    BY DEF ticks_before
  <2>. QED  BY <1>1, <2>1
<1>. HIDE DEF q
<1>3. \A n \in 0 .. Len(q) :
        /\ ticks_before[n] = IF n = 0 THEN 0 ELSE ticks_before[n - 1] + q[n].delay
        /\ left[n] = IF n = 0 THEN 0 ELSE left[n - 1] + q[n].delay
  BY <1>1, <1>2
<1> DEFINE Wrong == {n \in 0 .. Len(q) : ticks_before[n] # left[n]}
<1>4. Wrong # {} => FALSE
  <2> SUFFICES ASSUME Wrong # {} PROVE FALSE
    OBVIOUS
  <2>1. Wrong \in SUBSET Nat
    BY <1>0
  <2>2. PICK n \in Wrong : \A j \in Wrong : n <= j
    BY <2>1, Least
  <2>3. n # 0
    BY <1>3, <2>2
  <2>4. n - 1 \in 0 .. Len(q) /\ ~(n <= n - 1)
    BY <1>0, <2>2, <2>3
  <2>5. ticks_before[n - 1] = left[n - 1]
    BY <2>2, <2>4
  <2>. QED  BY <1>3, <2>2, <2>3, <2>5
<1>. QED  BY <1>4 DEF q

\* The entries that are passed are those whose ticks are fewer than the delay.
LEMMA PassedAre ==
    ASSUME QueueTyped(delayed_send_queue), NEW d \in Nat,
           NEW left, NEW most, Sums(delayed_send_queue, left, most)
    PROVE  \E n \in 0 .. Len(delayed_send_queue) :
             /\ passed(d) = n
             /\ n > 0 => left[n] < d
             /\ n < Len(delayed_send_queue) => d <= left[n + 1]
<1> DEFINE q == delayed_send_queue
           L == Len(q)
           Beyond == {i \in 1 .. L + 1 : i <= L => d <= left[i]}
<1>1. L \in Nat /\ DOMAIN q = 1 .. L
  BY DEF QueueTyped
<1>2. \A i \in 0 .. L : left[i] \in Nat /\ ticks_before[i] = left[i]
  BY TicksAreLeft DEF Sums
<1>3. \A i, j \in 0 .. L : i <= j => left[i] <= left[j]
  BY DEF Sums
<1>. HIDE DEF q
<1>4. PICK j \in Beyond : \A i \in Beyond : j <= i
  <2>1. Beyond \in SUBSET Nat /\ L + 1 \in Beyond
    BY <1>1
  <2>. QED  BY <2>1, Least
<1>5. j - 1 \in 0 .. L
  BY <1>1, <1>4
<1>6. \A i \in 1 .. L : d > left[i] <=> i <= j - 1
  <2> TAKE i \in 1 .. L
  <2>1. ASSUME i <= j - 1 PROVE d > left[i]
    <3>1. i \notin Beyond
      BY <1>1, <1>4, <2>1
    <3>. QED  BY <1>1, <1>2, <3>1
  <2>2. ASSUME ~(i <= j - 1) PROVE ~(d > left[i])
    <3>1. j <= i /\ j \in 0 .. L /\ i \in 0 .. L /\ j <= L
      BY <1>1, <1>4, <2>2
    <3>2. d <= left[j] /\ left[j] <= left[i]
      BY <1>3, <1>4, <3>1
    <3>. QED  BY <1>2, <3>1, <3>2
  <2>. QED  BY <2>1, <2>2
<1>7. {i \in Positions : d > ticks_before[i]} = 1 .. j - 1
  <2>1. Positions = 1 .. L
    BY <1>1 DEF Positions, q
  <2>2. \A i \in 1 .. L : ticks_before[i] = left[i]
    BY <1>1, <1>2
  <2>. QED  BY <1>1, <1>5, <1>6, <2>1, <2>2
<1>8. passed(d) = j - 1
  <2>1. Cardinality(1 .. j - 1) = IF 1 > j - 1 THEN 0 ELSE j - 1 - 1 + 1
    BY <1>5, FS_Interval
  <2>2. (IF 1 > j - 1 THEN 0 ELSE j - 1 - 1 + 1) = j - 1
    BY <1>5
  <2>. QED  BY <1>7, <2>1, <2>2 DEF passed
<1>9. j - 1 > 0 => left[j - 1] < d
  BY <1>1, <1>5, <1>6
<1>10. j - 1 < L => d <= left[j - 1 + 1]
  <2>1. j - 1 + 1 = j
    BY <1>5
  <2>. QED  BY <1>1, <1>4, <2>1
<1>. QED  BY <1>5, <1>8, <1>9, <1>10 DEF q

\* r is s with e inserted behind the first n entries.
InsertedAt(s, n, e, r) ==
    /\ r \in Seq(Entries) /\ Len(r) = Len(s) + 1
    /\ \A i \in 1 .. n : r[i] = s[i]
    /\ r[n + 1] = e
    /\ \A i \in n + 1 .. Len(s) : r[i + 1] = s[i]

\* An insertion, position by position.
LEMMA Inserted ==
    ASSUME NEW s \in Seq(Entries), NEW n \in 0 .. Len(s), NEW e \in Entries
    PROVE  InsertedAt(s, n, e, Seqs!InsertAt(s, n + 1, e))
<1> DEFINE a == SubSeq(s, 1, n)
           b == SubSeq(s, n + 1, Len(s))
           ae == a \o <<e>>
<1>1. /\ a \in Seq(Entries) /\ Len(a) = n
      /\ \A i \in 1 .. n : a[i] = s[i]
  OBVIOUS
<1>2. /\ b \in Seq(Entries) /\ Len(b) = Len(s) - n
      /\ \A i \in 1 .. Len(s) - n : b[i] = s[n + i]
  OBVIOUS
<1>3. Seqs!InsertAt(s, n + 1, e) = ae \o b
  <2>1. SUFFICES ASSUME NEW j, j = n + 1
                 PROVE  Seqs!InsertAt(s, j, e) = SubSeq(s, 1, n) \o <<e>> \o SubSeq(s, j, Len(s))
    OBVIOUS
  <2>2. j - 1 = n
    BY <2>1
  <2>. QED  BY <2>2 DEF Seqs!InsertAt
<1> HIDE DEF a, b
<1>4. /\ ae \in Seq(Entries) /\ Len(ae) = n + 1
      /\ \A i \in 1 .. n + 1 : ae[i] = IF i <= n THEN a[i] ELSE e
  <2>1. <<e>> \in Seq(Entries) /\ Len(<<e>>) = 1 /\ <<e>>[1] = e
    OBVIOUS
  <2>2. /\ ae \in Seq(Entries) /\ Len(ae) = Len(a) + Len(<<e>>)
        /\ \A i \in 1 .. Len(a) + Len(<<e>>) :
              ae[i] = IF i <= Len(a) THEN a[i] ELSE <<e>>[i - Len(a)]
    BY <1>1, <2>1, ConcatProperties
  <2>3. \A i \in 1 .. n + 1 : ~(i <= n) => i - n = 1
    OBVIOUS
  <2>. QED  BY <1>1, <2>1, <2>2, <2>3
<1> HIDE DEF ae
<1>5. /\ ae \o b \in Seq(Entries) /\ Len(ae \o b) = Len(ae) + Len(b)
      /\ \A i \in 1 .. Len(ae) + Len(b) :
            (ae \o b)[i] = IF i <= Len(ae) THEN ae[i] ELSE b[i - Len(ae)]
  BY <1>2, <1>4, ConcatProperties
<1>6. ASSUME NEW i \in 1 .. Len(s) + 1
      PROVE  (ae \o b)[i] = IF i <= n THEN s[i] ELSE IF i = n + 1 THEN e ELSE s[i - 1]
  <2>1. i \in 1 .. Len(ae) + Len(b)
    BY <1>2, <1>4
  <2>2. CASE i <= n + 1
    BY <1>1, <1>4, <1>5, <2>1, <2>2
  <2>3. CASE ~(i <= n + 1)
    <3>1. i - (n + 1) \in 1 .. Len(s) - n /\ n + (i - (n + 1)) = i - 1
      BY <2>3
    <3>2. (ae \o b)[i] = b[i - (n + 1)]
      BY <1>4, <1>5, <2>1, <2>3
    <3>3. b[i - (n + 1)] = s[n + (i - (n + 1))]
      BY <1>2, <3>1
    <3>4. ~(i <= n) /\ i # n + 1
      BY <2>3
    <3>. QED  BY <3>1, <3>2, <3>3, <3>4
  <2>. QED  BY <2>2, <2>3
<1>7. Len(ae) + Len(b) = Len(s) + 1
  BY <1>2, <1>4
<1>8. \A i \in n + 1 .. Len(s) : /\ i + 1 \in 1 .. Len(s) + 1 /\ i + 1 - 1 = i
                                 /\ ~(i + 1 <= n) /\ i + 1 # n + 1
  OBVIOUS
<1>9. n + 1 \in 1 .. Len(s) + 1 /\ ~(n + 1 <= n) /\ \A i \in 1 .. n : i \in 1 .. Len(s) + 1
  OBVIOUS
<1> DEFINE r == ae \o b
<1> HIDE DEF r
<1>10. /\ r \in Seq(Entries) /\ Len(r) = Len(s) + 1
       /\ \A i \in 1 .. Len(s) + 1 : r[i] = IF i <= n THEN s[i]
                                            ELSE IF i = n + 1 THEN e ELSE s[i - 1]
  BY <1>5, <1>6, <1>7 DEF r
<1>11. InsertedAt(s, n, e, r)
  BY <1>8, <1>9, <1>10 DEF InsertedAt
<1>. QED  BY <1>3, <1>11 DEF r

\* What the queue is after a message is linked in.
LEMMA LinkedIs ==
    ASSUME QueueTyped(delayed_send_queue), NEW m \in Messages, NEW d \in Nat \ {0},
           NEW left, NEW most, Sums(delayed_send_queue, left, most),
           NEW n \in 0 .. Len(delayed_send_queue), passed(d) = n,
           n > 0 => left[n] < d,
           n < Len(delayed_send_queue) => d <= left[n + 1]
    PROVE  /\ d - left[n] \in Nat \ {0}
           /\ n < Len(delayed_send_queue) =>
                 d - left[n] <= delayed_send_queue[n + 1].delay
           /\ LinkedAt(delayed_send_queue, n, [mess |-> m, delay |-> d - left[n]],
                       linked(m, d))
<1> SUFFICES ASSUME NEW q, q = delayed_send_queue, NEW x, x = d - left[n],
                    NEW e, e = [mess |-> m, delay |-> x]
             PROVE  /\ x \in Nat \ {0} /\ (n < Len(q) => x <= q[n + 1].delay)
                    /\ LinkedAt(q, n, e, linked(m, d))
  OBVIOUS
<1>1. q \in Seq(Entries) /\ Len(q) \in Nat /\ \A i \in 1 .. Len(q) : q[i] \in Entries
  BY DEF QueueTyped
<1>2. left[n] \in Nat /\ ticks_before[n] = left[n] /\ (n = 0 => left[n] = 0)
  BY TicksAreLeft DEF Sums
<1>3. x \in Nat \ {0}
  BY <1>2
<1>4. n < Len(q) => x <= q[n + 1].delay
  <2> SUFFICES ASSUME n < Len(q) PROVE x <= q[n + 1].delay
    OBVIOUS
  <2>1. n + 1 \in 1 .. Len(q) /\ n + 1 - 1 = n
    BY <1>1
  <2>2. left[n + 1] = left[n] + q[n + 1].delay
    BY <2>1 DEF Sums
  <2>3. q[n + 1].delay \in Nat
    BY <1>1, <2>1 DEF Entries
  <2>. QED  BY <1>2, <2>2, <2>3
<1> DEFINE s == IF n < Len(q) THEN [q EXCEPT ![n + 1].delay = @ - x] ELSE q
<1>5. /\ s \in Seq(Entries) /\ Len(s) = Len(q)
      /\ \A i \in 1 .. Len(q) :
            /\ s[i].mess = q[i].mess
            /\ s[i].delay = IF i = n + 1 THEN q[i].delay - x ELSE q[i].delay
      /\ \A i \in 1 .. n : s[i] = q[i]
  <2>1. CASE n < Len(q)
    <3>1. n + 1 \in 1 .. Len(q)
      BY <1>1, <2>1
    <3>2. q[n + 1].delay - x \in Nat
      BY <1>1, <1>3, <1>4, <2>1, <3>1 DEF Entries
    <3>3. [q[n + 1] EXCEPT !.delay = @ - x] \in Entries
      BY <1>1, <3>1, <3>2 DEF Entries
    <3>4. s = [q EXCEPT ![n + 1] = [q[n + 1] EXCEPT !.delay = @ - x]]
      BY <2>1
    <3>5. s \in Seq(Entries) /\ Len(s) = Len(q)
      BY <1>1, <3>1, <3>3, <3>4
    <3>6. \A i \in 1 .. Len(q) :
             s[i] = IF i = n + 1 THEN [q[n + 1] EXCEPT !.delay = @ - x] ELSE q[i]
      BY <1>1, <3>1, <3>4
    <3>7. /\ [q[n + 1] EXCEPT !.delay = @ - x].mess = q[n + 1].mess
          /\ [q[n + 1] EXCEPT !.delay = @ - x].delay = q[n + 1].delay - x
      BY <1>1, <3>1 DEF Entries
    <3>8. \A i \in 1 .. n : s[i] = q[i]
      BY <1>1, <3>6
    <3>. QED  BY <3>5, <3>6, <3>7, <3>8
  <2>2. CASE ~(n < Len(q))
    BY <1>1, <2>2
  <2>. QED  BY <2>1, <2>2
<1> DEFINE r == Seqs!InsertAt(s, n + 1, e)
<1>6. linked(m, d) = r
  BY <1>2 DEF linked
<1>7. e \in Entries
  BY <1>3 DEF Entries
<1>. HIDE DEF s
<1>8. InsertedAt(s, n, e, r)
  <2>1. n \in 0 .. Len(s) /\ s \in Seq(Entries)
    BY <1>5
  <2>. QED  BY <1>7, <2>1, Inserted
<1>. HIDE DEF r
<1>9. /\ r \in Seq(Entries) /\ Len(r) = Len(q) + 1
      /\ \A i \in 1 .. n : r[i] = q[i]
      /\ r[n + 1] = e
      /\ \A i \in n + 1 .. Len(q) : r[i + 1] = s[i]
  BY <1>5, <1>8 DEF InsertedAt
<1>10. e.delay = x
  OBVIOUS
<1>11. ASSUME NEW i \in n + 1 .. Len(q)
       PROVE  /\ r[i + 1].mess = q[i].mess
              /\ r[i + 1].delay = IF i = n + 1 THEN q[i].delay - e.delay ELSE q[i].delay
  <2>1. i \in 1 .. Len(q)
    BY <1>1
  <2>2. /\ s[i].mess = q[i].mess
        /\ s[i].delay = IF i = n + 1 THEN q[i].delay - x ELSE q[i].delay
    BY <1>5, <2>1
  <2>. QED  BY <1>9, <1>10, <2>2
<1>12. LinkedAt(q, n, e, r)
  BY <1>9, <1>11 DEF LinkedAt
<1>. QED  BY <1>3, <1>4, <1>6, <1>12 DEF r
-----------------------------------------------------------------------------
(* The ticks that are left, when a message is linked in and when one is sent.  *)

\* Splitting a delay in two never raises the potential.
LEMMA MostAdds ==
    ASSUME NEW a \in Nat, NEW b \in Nat
    PROVE  Most(a) + Most(b) <= Most(a + b)
<1>1. CASE a = 0 \/ b = 0
  <2>1. Most(a) \in Nat /\ Most(b) \in Nat
    BY MostBounds
  <2>2. Most(0) = 0 /\ a + 0 = a /\ 0 + b = b
    BY DEF Most
  <2>. QED  BY <1>1, <2>1, <2>2
<1>2. CASE a # 0 /\ b # 0
  <2>1. /\ Most(a + b) = Most(a) + Most(b) + 2 * (a * b) + 2
        /\ a * b \in Nat
    BY <1>2, MostSplit
  <2>2. Most(a) \in Nat /\ Most(b) \in Nat
    BY MostBounds
  <2>. QED  BY <2>1, <2>2
<1>. QED  BY <1>1, <1>2

\* What never falls from one number to the next is monotonic.
LEMMA Grows ==
    ASSUME NEW n \in Nat, NEW f \in [0 .. n -> Nat],
           \A i \in 1 .. n : f[i - 1] <= f[i]
    PROVE  \A i, j \in 0 .. n : i <= j => f[i] <= f[j]
<1> SUFFICES ASSUME NEW i \in 0 .. n
             PROVE  \A j \in 0 .. n : i <= j => f[i] <= f[j]
  OBVIOUS
<1> DEFINE Falls == {j \in 0 .. n : i <= j /\ ~(f[i] <= f[j])}
<1>1. Falls # {} => FALSE
  <2> SUFFICES ASSUME Falls # {} PROVE FALSE
    OBVIOUS
  <2>1. PICK j \in Falls : \A m \in Falls : j <= m
    <3>1. Falls \in SUBSET Nat
      OBVIOUS
    <3>. QED  BY <3>1, Least
  <2>2. i # j
    BY <2>1
  <2>3. j \in 1 .. n /\ j - 1 \in 0 .. n /\ i <= j - 1 /\ ~(j <= j - 1)
    BY <2>1, <2>2
  <2>4. f[i] <= f[j - 1]
    BY <2>1, <2>3
  <2>5. f[j - 1] <= f[j] /\ f[i] \in Nat /\ f[j] \in Nat /\ f[j - 1] \in Nat
    BY <2>1, <2>3
  <2>. QED  BY <2>1, <2>4, <2>5
<1>. QED  BY <1>1

\* Sums are what their steps say.
LEMMA SumsHold ==
    ASSUME NEW q \in Seq(Entries),
           NEW left \in [0 .. Len(q) -> Nat], NEW most \in [0 .. Len(q) -> Nat],
           left[0] = 0, most[0] = 0,
           \A i \in 1 .. Len(q) : /\ left[i] = left[i - 1] + q[i].delay
                                  /\ most[i] = most[i - 1] + Most(q[i].delay)
    PROVE  Sums(q, left, most)
<1>1. /\ Len(q) \in Nat
      /\ \A i \in 1 .. Len(q) : /\ q[i].delay \in Nat /\ Most(q[i].delay) \in Nat
                                /\ i \in 0 .. Len(q) /\ i - 1 \in 0 .. Len(q)
  <2>1. \A i \in 1 .. Len(q) : q[i] \in Entries
    OBVIOUS
  <2>2. \A i \in 1 .. Len(q) : q[i].delay \in Nat
    BY <2>1 DEF Entries
  <2>3. \A i \in 1 .. Len(q) : Most(q[i].delay) \in Nat
    BY <2>2, MostBounds
  <2>4. Len(q) \in Nat
    OBVIOUS
  <2>. QED  BY <2>2, <2>3, <2>4
<1>2. ASSUME NEW i \in 1 .. Len(q)
      PROVE  left[i - 1] <= left[i] /\ most[i - 1] <= most[i]
  <2>1. left[i - 1] \in Nat /\ most[i - 1] \in Nat
    BY <1>1
  <2>2. left[i] = left[i - 1] + q[i].delay /\ most[i] = most[i - 1] + Most(q[i].delay)
    OBVIOUS
  <2>3. q[i].delay \in Nat /\ Most(q[i].delay) \in Nat
    BY <1>1
  <2>. QED  BY <2>1, <2>2, <2>3
<1>3. \A i, j \in 0 .. Len(q) : i <= j => left[i] <= left[j] /\ most[i] <= most[j]
  <2>1. \A i, j \in 0 .. Len(q) : i <= j => left[i] <= left[j]
    BY <1>1, <1>2, Grows
  <2>2. \A i, j \in 0 .. Len(q) : i <= j => most[i] <= most[j]
    BY <1>1, <1>2, Grows
  <2>. QED  BY <2>1, <2>2
<1> DEFINE Above == {i \in 0 .. Len(q) : ~(most[i] <= Most(left[i]))}
<1>4. Above # {} => FALSE
  <2> SUFFICES ASSUME Above # {} PROVE FALSE
    OBVIOUS
  <2>1. PICK i \in Above : \A j \in Above : i <= j
    <3>1. Above \in SUBSET Nat
      OBVIOUS
    <3>. QED  BY <3>1, Least
  <2>2. i # 0
    BY <2>1 DEF Most
  <2>3. i \in 1 .. Len(q) /\ i - 1 \in 0 .. Len(q) /\ ~(i <= i - 1)
    BY <1>1, <2>1, <2>2
  <2>4. most[i - 1] <= Most(left[i - 1])
    BY <2>1, <2>3
  <2>5. Most(left[i - 1]) + Most(q[i].delay) <= Most(left[i])
    <3>1. left[i - 1] \in Nat /\ q[i].delay \in Nat /\ left[i] = left[i - 1] + q[i].delay
      BY <1>1, <2>3
    <3>. QED  BY <3>1, MostAdds
  <2>6. most[i] = most[i - 1] + Most(q[i].delay)
    BY <2>3
  <2>7. /\ most[i] \in Nat /\ most[i - 1] \in Nat /\ Most(q[i].delay) \in Nat
        /\ Most(left[i - 1]) \in Nat /\ Most(left[i]) \in Nat
    BY <1>1, <2>3, MostBounds
  <2>8. most[i] <= Most(left[i])
    BY <2>4, <2>5, <2>6, <2>7
  <2>. QED  BY <2>1, <2>8
<1>. QED  BY <1>3, <1>4 DEF Sums

\* The sums after e is linked in behind the first n entries: nobody has longer to
\* wait, and if e is the new first entry, everybody has lost the ticks that were
\* counted for the old one.
LinkedSums(q, left, most, n, e, left2, most2) ==
    /\ \A i \in 0 .. n : left2[i] = left[i] /\ most2[i] = most[i]
    /\ left2[n + 1] = left[n] + e.delay
    /\ \A i \in n + 1 .. Len(q) :
          /\ left2[i + 1] = left[i]
          /\ most2[i + 1] <= most[i]
          /\ n = 0 /\ e.delay < q[1].delay => most2[i + 1] + 2 * q[1].delay <= most[i]

\* send_delayed links an entry in: the sums of the entries in front of it stay,
\* and those behind it do not grow, although the entry behind it is shortened.
LEMMA LinkSums ==
    ASSUME NEW q, QueueTyped(q), NEW left, NEW most, Sums(q, left, most),
           NEW n \in 0 .. Len(q), NEW e \in Entries, e.delay > 0,
           n < Len(q) => e.delay <= q[n + 1].delay,
           NEW r, LinkedAt(q, n, e, r)
    PROVE  \E left2, most2 : /\ Sums(r, left2, most2)
                             /\ LinkedSums(q, left, most, n, e, left2, most2)
<1> SUFFICES ASSUME NEW x \in Nat \ {0}, x = e.delay
             PROVE  \E left2, most2 : /\ Sums(r, left2, most2)
                                      /\ LinkedSums(q, left, most, n, e, left2, most2)
  BY DEF Entries
<1>1. /\ Len(q) \in Nat
      /\ \A i \in 1 .. Len(q) : q[i].delay \in Nat /\ Most(q[i].delay) \in Nat
      /\ Most(x) \in Nat
  <2>1. Len(q) \in Nat /\ \A i \in 1 .. Len(q) : q[i] \in Entries
    BY DEF QueueTyped
  <2>2. \A i \in 1 .. Len(q) : q[i].delay \in Nat
    BY <2>1 DEF Entries
  <2>. QED  BY <2>1, <2>2, MostBounds
<1>2. /\ left \in [0 .. Len(q) -> Nat] /\ most \in [0 .. Len(q) -> Nat]
      /\ left[0] = 0 /\ most[0] = 0
      /\ \A i \in 1 .. Len(q) : /\ left[i] = left[i - 1] + q[i].delay
                                /\ most[i] = most[i - 1] + Most(q[i].delay)
      /\ \A i, j \in 0 .. Len(q) : i <= j => left[i] <= left[j] /\ most[i] <= most[j]
  BY DEF Sums
<1>3. PICK g \in Nat :
        n < Len(q) => /\ Most(q[n + 1].delay) = Most(x) + Most(q[n + 1].delay - x) + g
                      /\ x < q[n + 1].delay => g >= 2 * q[n + 1].delay
  <2>1. CASE n < Len(q)
    <3>1. PICK h \in Nat : h = q[n + 1].delay
      BY <1>1, <2>1
    <3>2. x <= h
      BY <2>1, <3>1
    <3>3. CASE x = h
      <4>1. Most(h) = Most(x) + Most(h - x) + 0
        BY <3>3, MostBounds DEF Most
      <4>. QED  BY <3>1, <3>3, <4>1
    <3>4. CASE x < h
      <4>1. h - x \in Nat \ {0} /\ x + (h - x) = h
        BY <3>4
      <4>2. /\ Most(h) = Most(x) + Most(h - x) + 2 * (x * (h - x)) + 2
            /\ x * (h - x) >= h - 1 /\ x * (h - x) \in Nat
        <5>1. /\ Most(x + (h - x)) = Most(x) + Most(h - x) + 2 * (x * (h - x)) + 2
              /\ x * (h - x) >= x + (h - x) - 1
              /\ x * (h - x) \in Nat
          BY <4>1, MostSplit
        <5>. QED  BY <4>1, <5>1
      <4>3. PICK y \in Nat : y = x * (h - x)
        BY <4>2
      <4>4. Most(h) \in Nat /\ Most(h - x) \in Nat
        BY <4>1, MostBounds
      <4>5. Most(h) = Most(x) + Most(h - x) + (2 * y + 2) /\ 2 * y + 2 >= 2 * h
        <5>1. Most(h) = Most(x) + Most(h - x) + 2 * y + 2 /\ y >= h - 1
          BY <4>2, <4>3
        <5>. QED  BY <1>1, <4>4, <5>1
      <4>6. 2 * y + 2 \in Nat
        OBVIOUS
      <4>. QED  BY <3>1, <4>5, <4>6
    <3>. QED  BY <3>2, <3>3, <3>4, <3>1
  <2>. QED  BY <2>1
<1> DEFINE left2 == [i \in 0 .. Len(q) + 1 |->
                       IF i <= n THEN left[i]
                       ELSE IF i = n + 1 THEN left[n] + x ELSE left[i - 1]]
           most2 == [i \in 0 .. Len(q) + 1 |->
                       IF i <= n THEN most[i]
                       ELSE IF i = n + 1 THEN most[n] + Most(x) ELSE most[i - 1] - g]
<1>4. \A i \in n + 1 .. Len(q) : /\ i \in 0 .. Len(q) /\ most[i] - g \in Nat
  <2> TAKE i \in n + 1 .. Len(q)
  <2>1. n < Len(q) /\ i \in 0 .. Len(q) /\ n + 1 \in 1 .. Len(q) /\ n + 1 <= i
        /\ n + 1 - 1 = n /\ n + 1 \in 0 .. Len(q)
    BY <1>1
  <2>2. most[n + 1] = most[n] + Most(q[n + 1].delay) /\ most[n + 1] <= most[i]
    BY <1>2, <2>1
  <2>3. Most(q[n + 1].delay) >= g
    <3>1. q[n + 1].delay - x \in Nat
      BY <1>1, <2>1
    <3>2. Most(q[n + 1].delay - x) \in Nat
      BY <3>1, MostBounds
    <3>. QED  BY <1>1, <1>3, <2>1, <3>2
  <2>4. most[n] \in Nat /\ most[n + 1] \in Nat /\ most[i] \in Nat
    BY <1>2, <2>1
  <2>5. Most(q[n + 1].delay) \in Nat
    BY <1>1, <2>1
  <2>. QED  BY <2>1, <2>2, <2>3, <2>4, <2>5
<1>5. left2 \in [0 .. Len(q) + 1 -> Nat] /\ most2 \in [0 .. Len(q) + 1 -> Nat]
  <2> SUFFICES ASSUME NEW i \in 0 .. Len(q) + 1
               PROVE  left2[i] \in Nat /\ most2[i] \in Nat
    OBVIOUS
  <2>1. CASE i <= n
    BY <1>1, <1>2, <2>1
  <2>2. CASE i = n + 1
    <3>1. n \in 0 .. Len(q) /\ ~(i <= n)
      BY <2>2
    <3>2. left[n] \in Nat /\ most[n] \in Nat
      BY <1>2, <3>1
    <3>3. left2[i] = left[n] + x /\ most2[i] = most[n] + Most(x)
      BY <2>2, <3>1
    <3>4. left[n] + x \in Nat /\ most[n] + Most(x) \in Nat
      <4>1. x \in Nat /\ Most(x) \in Nat
        BY <1>1
      <4>. QED  BY <3>2, <4>1
    <3>. QED  BY <3>3, <3>4
  <2>3. CASE i > n + 1
    <3>1. i - 1 \in n + 1 .. Len(q)
      BY <1>1, <2>3
    <3>2. left[i - 1] \in Nat /\ most[i - 1] - g \in Nat
      BY <1>2, <1>4, <3>1
    <3>. QED  BY <2>3, <3>2
  <2>. QED  BY <2>1, <2>2, <2>3
<1>6. /\ \A i \in 0 .. n : left2[i] = left[i] /\ most2[i] = most[i]
      /\ left2[n + 1] = left[n] + x /\ most2[n + 1] = most[n] + Most(x)
      /\ \A i \in n + 1 .. Len(q) : left2[i + 1] = left[i] /\ most2[i + 1] = most[i] - g
  BY <1>1
<1>. HIDE DEF left2, most2
<1>7. /\ r \in Seq(Entries) /\ Len(r) = Len(q) + 1
      /\ \A i \in 1 .. n : r[i] = q[i]
      /\ r[n + 1] = e
      /\ \A i \in n + 1 .. Len(q) :
            r[i + 1].delay = IF i = n + 1 THEN q[i].delay - x ELSE q[i].delay
  BY DEF LinkedAt
<1>8. ASSUME NEW i \in 1 .. Len(r)
      PROVE  /\ left2[i] = left2[i - 1] + r[i].delay
             /\ most2[i] = most2[i - 1] + Most(r[i].delay)
  <2>1. i \in 1 .. Len(q) + 1
    BY <1>7
  <2>2. CASE i <= n
    <3>1. i \in 1 .. n /\ i \in 0 .. n /\ i - 1 \in 0 .. n /\ i \in 1 .. Len(q)
      BY <1>1, <2>1, <2>2
    <3>. QED  BY <1>2, <1>6, <1>7, <3>1
  <2>3. CASE i = n + 1
    <3>1. n \in 0 .. n /\ n + 1 - 1 = n
      OBVIOUS
    <3>. QED  BY <1>6, <1>7, <2>3, <3>1
  <2>4. CASE i = n + 2
    <3>1. n + 1 \in n + 1 .. Len(q) /\ n + 1 + 1 = i /\ i - 1 = n + 1 /\ n < Len(q)
          /\ n + 1 \in 1 .. Len(q) /\ n + 1 - 1 = n
      BY <1>1, <2>1, <2>4
    <3>2. PICK h \in Nat : h = q[n + 1].delay
      BY <1>1, <3>1
    <3>3. r[i].delay = h - x /\ x <= h /\ h - x \in Nat
      <4>1. r[n + 1 + 1].delay = q[n + 1].delay - x
        BY <1>7, <3>1
      <4>2. x <= h
        BY <3>1, <3>2
      <4>. QED  BY <3>1, <3>2, <4>1, <4>2
    <3>4. left2[i] = left[n] + h /\ most2[i] = most[n] + Most(h) - g
      <4>1. left2[n + 1 + 1] = left[n + 1] /\ most2[n + 1 + 1] = most[n + 1] - g
        BY <1>6, <3>1
      <4>2. /\ left[n + 1] = left[n + 1 - 1] + q[n + 1].delay
            /\ most[n + 1] = most[n + 1 - 1] + Most(q[n + 1].delay)
        BY <1>2, <3>1
      <4>3. left2[i] = left[n + 1] /\ most2[i] = most[n + 1] - g
        BY <3>1, <4>1
      <4>4. left[n + 1] = left[n] + h /\ most[n + 1] = most[n] + Most(h)
        BY <3>1, <3>2, <4>2
      <4>5. /\ left[n] \in Nat /\ most[n] \in Nat /\ Most(h) \in Nat
        BY <1>2, MostBounds
      <4>. QED  BY <4>3, <4>4, <4>5
    <3>5. left2[i - 1] = left[n] + x /\ most2[i - 1] = most[n] + Most(x)
      BY <1>6, <3>1
    <3>6. Most(h) = Most(x) + Most(h - x) + g
      BY <1>3, <3>1, <3>2
    <3>7. /\ left[n] \in Nat /\ most[n] \in Nat /\ Most(h) \in Nat /\ Most(h - x) \in Nat
      BY <1>2, <3>3, MostBounds
    <3>8. left2[i] = left2[i - 1] + (h - x)
      BY <3>4, <3>5, <3>7
    <3>9. most2[i] = most2[i - 1] + Most(h - x)
      BY <1>1, <3>4, <3>5, <3>6, <3>7
    <3>. QED  BY <3>3, <3>8, <3>9
  <2>5. CASE i > n + 2
    <3>1. PICK j \in n + 2 .. Len(q) : i = j + 1
      BY <1>1, <2>1, <2>5
    <3>0. n \in Int /\ n >= 0 /\ j \in Int /\ j >= n + 2 /\ j <= Len(q) /\ Len(q) \in Int
      BY <1>1, <3>1
    <3>2. /\ j \in n + 1 .. Len(q) /\ j - 1 \in n + 1 .. Len(q) /\ j - 1 + 1 = j
          /\ i - 1 = j /\ j # n + 1 /\ j \in 1 .. Len(q) /\ j - 1 \in 0 .. Len(q)
      <4>1. j \in n + 1 .. Len(q) /\ j - 1 \in n + 1 .. Len(q) /\ j - 1 + 1 = j
        BY <3>0
      <4>2. j # n + 1 /\ j \in 1 .. Len(q) /\ j - 1 \in 0 .. Len(q)
        BY <3>0
      <4>. QED  BY <3>0, <3>1, <4>1, <4>2
    <3>3. /\ left2[i] = left[j] /\ most2[i] = most[j] - g
          /\ left2[i - 1] = left[j - 1] /\ most2[i - 1] = most[j - 1] - g
          /\ r[i].delay = q[j].delay
      BY <1>6, <1>7, <3>1, <3>2
    <3>4. /\ left[j] = left[j - 1] + q[j].delay
          /\ most[j] = most[j - 1] + Most(q[j].delay)
          /\ most[j - 1] \in Nat /\ Most(q[j].delay) \in Nat
      BY <1>1, <1>2, <3>2
    <3>. QED  BY <3>3, <3>4
  <2>. QED  BY <2>1, <2>2, <2>3, <2>4, <2>5
<1>9. Sums(r, left2, most2)
  <2>1. left2[0] = 0 /\ most2[0] = 0 /\ Len(r) = Len(q) + 1
    BY <1>2, <1>6, <1>7
  <2>2. left2 \in [0 .. Len(r) -> Nat] /\ most2 \in [0 .. Len(r) -> Nat]
    BY <1>5, <1>7
  <2>. QED  BY <1>7, <1>8, <2>1, <2>2, SumsHold
<1>10. ASSUME NEW i \in n + 1 .. Len(q)
       PROVE  /\ most2[i + 1] <= most[i]
              /\ n = 0 /\ x < q[1].delay => most2[i + 1] + 2 * q[1].delay <= most[i]
  <2>1. most2[i + 1] = most[i] - g /\ most[i] \in Nat
    BY <1>2, <1>4, <1>6
  <2>2. n = 0 /\ x < q[1].delay => g >= 2 * q[1].delay /\ q[1].delay \in Nat
    <3>1. n < Len(q)
      BY <1>1
    <3>2. n = 0 => n + 1 = 1 /\ 1 \in 1 .. Len(q)
      BY <1>1
    <3>. QED  BY <1>1, <1>3, <3>1, <3>2
  <2>. QED  BY <2>1, <2>2
<1>11. LinkedSums(q, left, most, n, e, left2, most2)
  BY <1>6, <1>10 DEF LinkedSums
<1>. QED  BY <1>9, <1>11

\* The entries that are due.
LEMMA DueAre ==
    ASSUME QueueTyped(delayed_send_queue)
    PROVE  /\ due \in 0 .. Len(delayed_send_queue)
           /\ due = 0 => \/ delayed_send_queue = << >>
                         \/ delayed_send_queue[1].delay # counted
           /\ due > 0 => /\ delayed_send_queue[1].delay = counted
                         /\ \A i \in 2 .. due : delayed_send_queue[i].delay = 0
                         /\ due < Len(delayed_send_queue) =>
                               delayed_send_queue[due + 1].delay # 0
<1> DEFINE q == delayed_send_queue
           Last(n) == n < Len(q) => q[n + 1].delay # 0
<1>1. q \in Seq(Entries) /\ Len(q) \in Nat /\ DOMAIN q = 1 .. Len(q)
      /\ (q = << >> <=> Len(q) = 0)
      /\ (q # << >> => Head(q) = q[1])
  BY DEF QueueTyped
<1>2. Positions = 1 .. Len(q)
  BY <1>1 DEF Positions
<1>3. CASE q = << >> \/ Head(q).delay # counted
  BY <1>1, <1>3 DEF due
<1>4. CASE ~(q = << >> \/ Head(q).delay # counted)
  <2> HIDE DEF q
  <2>1. \E n \in 1 .. Len(q) : (\A i \in 2 .. n : q[i].delay = 0) /\ Last(n)
    <3>1. {n \in 1 .. Len(q) : Last(n)} \in SUBSET Nat /\ Len(q) \in {n \in 1 .. Len(q) : Last(n)}
      BY <1>1, <1>4
    <3>2. PICK n \in {n \in 1 .. Len(q) : Last(n)} :
             \A j \in {j \in 1 .. Len(q) : Last(j)} : n <= j
      BY <3>1, Least
    <3>3. ASSUME NEW i \in 2 .. n PROVE q[i].delay = 0
      <4>1. i - 1 \in 1 .. Len(q) /\ ~(n <= i - 1) /\ i - 1 + 1 = i
        BY <1>1, <3>2
      <4>2. ~Last(i - 1)
        BY <3>2, <4>1
      <4>. QED  BY <4>1, <4>2
    <3>. QED  BY <3>2, <3>3
  <2>2. due = CHOOSE n \in 1 .. Len(q) : (\A i \in 2 .. n : q[i].delay = 0) /\ Last(n)
    BY <1>2, <1>4 DEF due, q
  <2>3. due \in 1 .. Len(q) /\ (\A i \in 2 .. due : q[i].delay = 0) /\ Last(due)
    BY <2>1, <2>2
  <2>. QED  BY <1>1, <1>4, <2>3 DEF q
<1>. QED  BY <1>3, <1>4

\* r is q without its first k entries.
Dropped(q, k, r) ==
    /\ r \in Seq(Entries) /\ Len(r) = Len(q) - k
    /\ \A i \in 1 .. Len(q) - k : r[i] = q[k + i]

\* The tick takes the first k entries off the queue.
LEMMA Dropping ==
    ASSUME NEW q \in Seq(Entries), NEW k \in 0 .. Len(q)
    PROVE  Dropped(q, k, SubSeq(q, k + 1, Len(q)))
  BY DEF Dropped

\* The sums of r, when the k entries store h ticks.
DroppedSums(r, left, most, k, h, left2, most2) ==
    \A i \in 1 .. Len(r) : left2[i] = left[k + i] - h /\ most2[i] = most[k + i] - Most(h)

\* The sums after the first entry and the ones due with it are sent.
LEMMA DropSums ==
    ASSUME NEW q, QueueTyped(q), NEW left, NEW most, Sums(q, left, most),
           NEW k \in 1 .. Len(q), \A i \in 2 .. k : q[i].delay = 0,
           NEW h, h = q[1].delay, NEW r, Dropped(q, k, r)
    PROVE  /\ \A i \in 1 .. k : left[i] = h
           /\ \E left2, most2 :
                 /\ Sums(r, left2, most2)
                 /\ DroppedSums(r, left, most, k, h, left2, most2)
<1>1. /\ q \in Seq(Entries) /\ Len(q) \in Nat /\ 1 \in 1 .. Len(q)
      /\ \A i \in 1 .. Len(q) : q[i].delay \in Nat
      /\ h \in Nat /\ Most(h) \in Nat
  <2>1. q \in Seq(Entries) /\ Len(q) \in Nat /\ \A i \in 1 .. Len(q) : q[i] \in Entries
    BY DEF QueueTyped
  <2>2. \A i \in 1 .. Len(q) : q[i].delay \in Nat
    BY <2>1 DEF Entries
  <2>3. 1 \in 1 .. Len(q)
    BY <2>1
  <2>4. h \in Nat
    BY <2>2, <2>3
  <2>5. Most(h) \in Nat
    BY <2>4, MostBounds
  <2>. QED  BY <2>1, <2>2, <2>3, <2>4, <2>5
<1>2. /\ left \in [0 .. Len(q) -> Nat] /\ most \in [0 .. Len(q) -> Nat]
      /\ left[0] = 0 /\ most[0] = 0
      /\ \A i \in 1 .. Len(q) : /\ left[i] = left[i - 1] + q[i].delay
                                /\ most[i] = most[i - 1] + Most(q[i].delay)
      /\ \A i, j \in 0 .. Len(q) : i <= j => left[i] <= left[j] /\ most[i] <= most[j]
  BY DEF Sums
<1>3. left[1] = h /\ most[1] = Most(h)
  <2>1. 1 \in 1 .. Len(q) /\ 1 - 1 = 0
    BY <1>1
  <2>2. left[1] = 0 + h /\ most[1] = 0 + Most(h)
    BY <1>2, <2>1
  <2>. QED  BY <1>1, <2>2
<1>4. \A i \in 1 .. k : left[i] = h /\ most[i] = Most(h)
  <2> DEFINE Others == {i \in 1 .. k : ~(left[i] = h /\ most[i] = Most(h))}
  <2>1. Others # {} => FALSE
    <3> SUFFICES ASSUME Others # {} PROVE FALSE
      OBVIOUS
    <3>1. PICK i \in Others : \A j \in Others : i <= j
      <4>1. Others \in SUBSET Nat
        OBVIOUS
      <4>. QED  BY <4>1, Least
    <3>2. i # 1
      BY <1>3, <3>1
    <3>3. i \in 2 .. k /\ i - 1 \in 1 .. k /\ ~(i <= i - 1) /\ i \in 1 .. Len(q)
      BY <3>1, <3>2
    <3>4. left[i - 1] = h /\ most[i - 1] = Most(h)
      BY <3>1, <3>3
    <3>5. q[i].delay = 0 /\ Most(0) = 0
      BY <3>3 DEF Most
    <3>6. left[i] = h + 0 /\ most[i] = Most(h) + 0
      BY <1>2, <3>3, <3>4, <3>5
    <3>. QED  BY <1>1, <3>1, <3>6
  <2>. QED  BY <2>1
<1>5. /\ r \in Seq(Entries) /\ Len(r) = Len(q) - k
      /\ \A i \in 1 .. Len(q) - k : r[i] = q[k + i]
  BY DEF Dropped
<1> DEFINE left2 == [i \in 0 .. Len(q) - k |-> left[k + i] - h]
           most2 == [i \in 0 .. Len(q) - k |-> most[k + i] - Most(h)]
<1>6. \A i \in 0 .. Len(q) - k : left[k + i] - h \in Nat /\ most[k + i] - Most(h) \in Nat
  <2> TAKE i \in 0 .. Len(q) - k
  <2>1. k \in 0 .. Len(q) /\ k + i \in 0 .. Len(q) /\ k <= k + i /\ k \in 1 .. k
    BY <1>1
  <2>2. /\ left[k] <= left[k + i] /\ most[k] <= most[k + i]
        /\ left[k + i] \in Nat /\ most[k + i] \in Nat
        /\ left[k] \in Nat /\ most[k] \in Nat
    BY <1>2, <2>1
  <2>3. left[k] = h /\ most[k] = Most(h)
    BY <1>4, <2>1
  <2>4. left[k + i] - left[k] \in Nat /\ most[k + i] - most[k] \in Nat
    <3>1. PICK a \in Nat, b \in Nat, c \in Nat, d \in Nat :
            a = left[k] /\ b = left[k + i] /\ c = most[k] /\ d = most[k + i]
      BY <2>2
    <3>2. a <= b /\ c <= d
      BY <2>2, <3>1
    <3>3. b - a \in Nat /\ d - c \in Nat
      BY <3>2
    <3>. QED  BY <3>1, <3>3
  <2>. QED  BY <2>3, <2>4
<1>7. left2 \in [0 .. Len(q) - k -> Nat] /\ most2 \in [0 .. Len(q) - k -> Nat]
  BY <1>6
<1>8. \A i \in 0 .. Len(q) - k : /\ left2[i] = left[k + i] - h
                                 /\ most2[i] = most[k + i] - Most(h)
  OBVIOUS
<1> HIDE DEF left2, most2
<1>9. ASSUME NEW i \in 1 .. Len(q) - k
      PROVE  /\ left2[i] = left2[i - 1] + r[i].delay
             /\ most2[i] = most2[i - 1] + Most(r[i].delay)
  <2>1. /\ i \in 0 .. Len(q) - k /\ i - 1 \in 0 .. Len(q) - k
        /\ k + i \in 1 .. Len(q) /\ k + i - 1 = k + (i - 1) /\ k + (i - 1) \in 0 .. Len(q)
    BY <1>1
  <2>2. /\ left2[i] = left[k + i] - h /\ left2[i - 1] = left[k + (i - 1)] - h
        /\ most2[i] = most[k + i] - Most(h) /\ most2[i - 1] = most[k + (i - 1)] - Most(h)
        /\ r[i] = q[k + i]
    BY <1>5, <1>8, <2>1
  <2>3. /\ left[k + i] = left[k + (i - 1)] + q[k + i].delay
        /\ most[k + i] = most[k + (i - 1)] + Most(q[k + i].delay)
    <3>1. PICK j \in 1 .. Len(q) : j = k + i
      BY <2>1
    <3>2. j - 1 = k + (i - 1)
      BY <2>1, <3>1
    <3>3. left[j] = left[j - 1] + q[j].delay /\ most[j] = most[j - 1] + Most(q[j].delay)
      BY <1>2
    <3>. QED  BY <3>1, <3>2, <3>3
  <2>4. /\ left[k + (i - 1)] \in Nat /\ most[k + (i - 1)] \in Nat
        /\ q[k + i].delay \in Nat
    BY <1>1, <1>2, <2>1
  <2>5. Most(q[k + i].delay) \in Nat
    BY <2>4, MostBounds
  <2>6. \A a, b, c \in Nat : (a + b) - c = (a - c) + b
    OBVIOUS
  <2>7. left2[i] = left2[i - 1] + q[k + i].delay
    <3>1. PICK a \in Nat, b \in Nat : a = left[k + (i - 1)] /\ b = q[k + i].delay
      BY <2>4
    <3>2. (a + b) - h = (a - h) + b
      BY <1>1, <2>6
    <3>. QED  BY <2>2, <2>3, <3>1, <3>2
  <2>8. most2[i] = most2[i - 1] + Most(q[k + i].delay)
    BY <1>1, <2>2, <2>3, <2>4, <2>5, <2>6
  <2>. QED  BY <2>2, <2>7, <2>8
<1>10. left2[0] = 0 /\ most2[0] = 0
  <2>1. 0 \in 0 .. Len(q) - k /\ k + 0 = k /\ k \in 1 .. k
    BY <1>1
  <2>2. left2[0] = left[k] - h /\ most2[0] = most[k] - Most(h)
    BY <1>8, <2>1
  <2>3. left[k] = h /\ most[k] = Most(h)
    BY <1>4, <2>1
  <2>4. \A a \in Nat : a - a = 0
    OBVIOUS
  <2>. QED  BY <1>1, <2>2, <2>3, <2>4
<1>11. Sums(r, left2, most2)
  BY <1>5, <1>7, <1>9, <1>10, SumsHold
<1>12. DroppedSums(r, left, most, k, h, left2, most2)
  BY <1>5, <1>8 DEF DroppedSums
<1>. QED  BY <1>4, <1>11, <1>12
-----------------------------------------------------------------------------
(* The steps.                                                                  *)

\* The empty queue satisfies the invariant.
LEMMA InitInv == Init => Inv
<1> SUFFICES ASSUME Init PROVE Inv
  OBVIOUS
<1>1. QueueTyped(delayed_send_queue) /\ Len(delayed_send_queue) = 0
  BY DEF Init, QueueTyped
<1>2. HistoryTyped
  BY DelayAssumption DEF Init, HistoryTyped
<1> DEFINE none == [i \in 0 .. Len(delayed_send_queue) |-> 0]
<1>3. Sums(delayed_send_queue, none, none)
  BY <1>1 DEF QueueTyped, Sums, Most
<1>4. Accounts(delayed_send_queue, none, none)
  BY <1>1, <1>3 DEF Accounts, InStep, Early, Late
<1>. QED  BY <1>1, <1>2, <1>4 DEF Inv

\* The message that is linked in comes behind those with no longer a delay and in
\* front of those with no shorter one; for the others nothing changes but that
\* they may have lost some of what they could wait.
LEMMA LinkKeeps ==
    ASSUME Inv, NEW m \in Messages, NEW d \in 1 .. MaxDelay, kernel_delayed_send(m, d)
    PROVE  Inv'
<1> SUFFICES ASSUME NEW q, q = delayed_send_queue, NEW r, r = linked(m, d),
                    NEW c, c = timer_count
             PROVE  Inv'
  OBVIOUS
<1>1. PICK left, most : Accounts(q, left, most)
  BY DEF Inv
<1>2. /\ QueueTyped(q) /\ HistoryTyped /\ Sums(q, left, most)
      /\ Len(q) \in Nat /\ d \in Nat \ {0} /\ d <= MaxDelay /\ c \in Nat
  BY <1>1, DelayAssumption DEF Inv, Accounts, QueueTyped, HistoryTyped
<1>3. PICK n \in 0 .. Len(q) :
        passed(d) = n /\ (n > 0 => left[n] < d) /\ (n < Len(q) => d <= left[n + 1])
  BY <1>2, PassedAre
<1>4. PICK x \in Nat \ {0} : x = d - left[n]
  BY <1>2, <1>3, LinkedIs
<1> DEFINE e == [mess |-> m, delay |-> x]
<1>5. LinkedAt(q, n, e, r) /\ (n < Len(q) => x <= q[n + 1].delay)
  BY <1>2, <1>3, <1>4, LinkedIs
<1>6. e \in Entries /\ e.delay = x /\ e.mess = m
  BY DEF Entries
<1> HIDE DEF e
<1>7. PICK left2, most2 :
        Sums(r, left2, most2) /\ LinkedSums(q, left, most, n, e, left2, most2)
  BY <1>2, <1>5, <1>6, LinkSums
<1>8. /\ delayed_send_queue' = r /\ timer_count' = c
      /\ asked' = [asked EXCEPT ![m] = d]
      /\ waited' = [waited EXCEPT ![m] = 0]
      /\ counted_then' = [counted_then EXCEPT ![m] = c]
      /\ \A i \in 1 .. Len(q) : q[i].mess # m
  <2>1. \A i \in 1 .. Len(q) : q[i].mess \in Queued
    BY <1>2 DEF QueueTyped, Queued, Positions
  <2>. QED  BY <2>1 DEF kernel_delayed_send
<1>9. HistoryTyped'
  BY <1>2, <1>8 DEF HistoryTyped
<1> DEFINE Old(i) == IF i <= n THEN i ELSE i - 1
<1>10. r[n + 1] = e /\ Len(r) = Len(q) + 1 /\ r \in Seq(Entries) /\ n + 1 \in 1 .. Len(r)
  BY <1>2, <1>5 DEF LinkedAt
<1>11. ASSUME NEW i \in 1 .. Len(r), i # n + 1
       PROVE  /\ Old(i) \in 1 .. Len(q) /\ r[i].mess = q[Old(i)].mess
              /\ left2[i] = left[Old(i)] /\ most2[i] <= most[Old(i)]
              /\ n = 0 /\ x < q[1].delay => most2[i] + 2 * q[1].delay <= most[Old(i)]
              /\ left2[i] \in Nat /\ most2[i] \in Nat /\ most[Old(i)] \in Nat
  <2>1. most2[i] \in Nat /\ left2[i] \in Nat
    BY <1>7 DEF Sums
  <2>2. CASE i <= n
    <3>1. i \in 1 .. n /\ i \in 0 .. n /\ i \in 1 .. Len(q) /\ n # 0 /\ Old(i) = i
      BY <1>2, <2>2
    <3>2. r[i] = q[i] /\ left2[i] = left[i] /\ most2[i] = most[i]
      BY <1>5, <1>7, <3>1 DEF LinkedAt, LinkedSums
    <3>. QED  BY <2>1, <3>1, <3>2
  <2>3. CASE ~(i <= n)
    <3>1. PICK j \in n + 1 .. Len(q) : i = j + 1
      BY <1>2, <1>10, <1>11, <2>3
    <3>2. j \in 1 .. Len(q) /\ Old(i) = j /\ j \in 0 .. Len(q)
      BY <1>2, <2>3, <3>1
    <3>3. /\ r[i].mess = q[j].mess /\ left2[i] = left[j] /\ most2[i] <= most[j]
          /\ n = 0 /\ x < q[1].delay => most2[i] + 2 * q[1].delay <= most[j]
      BY <1>5, <1>6, <1>7, <3>1 DEF LinkedAt, LinkedSums
    <3>4. most[j] \in Nat
      BY <1>2, <3>2 DEF Sums
    <3>. QED  BY <2>1, <3>2, <3>3, <3>4
  <2>. QED  BY <2>2, <2>3
<1>12. \A i, j \in 1 .. Len(r) : i # n + 1 /\ j # n + 1 /\ i # j => Old(i) # Old(j)
  BY <1>2, <1>10
<1> HIDE DEF Old
<1>13. left2[n + 1] = d /\ most2[n + 1] <= Most(d)
  <2>1. left2[n + 1] = left[n] + x /\ left[n] \in Nat
    BY <1>2, <1>6, <1>7 DEF LinkedSums, Sums
  <2>2. left2[n + 1] = d
    BY <1>2, <1>4, <2>1
  <2>. QED  BY <1>7, <1>10, <2>2 DEF Sums
<1>14. \A p \in Messages : /\ asked[p] \in Nat /\ waited[p] \in Nat
                           /\ counted_then[p] \in Nat /\ Most(asked[p]) \in Nat
  <2>1. \A p \in Messages : /\ asked[p] \in Nat /\ waited[p] \in Nat
                            /\ counted_then[p] \in Nat
    BY <1>2, DelayAssumption DEF HistoryTyped
  <2>. QED  BY <2>1, MostBounds
<1>15. asked'[m] = d /\ waited'[m] = 0 /\ counted_then'[m] = c
  BY <1>2, <1>8 DEF HistoryTyped
<1>16. ASSUME NEW i \in 1 .. Len(r), i # n + 1
       PROVE  LET p == q[Old(i)].mess
              IN  /\ p \in Messages /\ p # m
                  /\ asked'[p] = asked[p] /\ waited'[p] = waited[p]
                  /\ counted_then'[p] = counted_then[p]
  <2>1. Old(i) \in 1 .. Len(q)
    BY <1>11, <1>16
  <2>2. q[Old(i)] \in Entries
    BY <1>2, <2>1 DEF QueueTyped
  <2>3. q[Old(i)].mess \in Messages
    BY <2>2 DEF Entries
  <2>. QED  BY <1>2, <1>8, <2>1, <2>3 DEF HistoryTyped
<1>17. QueueTyped(r)
  <2>1. ASSUME NEW i \in 1 .. Len(r), NEW j \in 1 .. Len(r), r[i].mess = r[j].mess
        PROVE  i = j
    <3>1. CASE i # n + 1 /\ j # n + 1
      <4>1. Old(i) \in 1 .. Len(q) /\ Old(j) \in 1 .. Len(q)
            /\ q[Old(i)].mess = q[Old(j)].mess
        BY <1>11, <2>1, <3>1
      <4>2. Old(i) = Old(j)
        BY <1>2, <4>1 DEF QueueTyped
      <4>. QED  BY <1>12, <3>1, <4>2
    <3>2. CASE i = n + 1 /\ j # n + 1
      BY <1>6, <1>10, <1>11, <1>16, <2>1, <3>2
    <3>3. CASE i # n + 1 /\ j = n + 1
      BY <1>6, <1>10, <1>11, <1>16, <2>1, <3>3
    <3>. QED  BY <3>1, <3>2, <3>3
  <2>2. r[1].delay > 0
    <3>1. CASE n = 0
      BY <1>6, <1>10, <3>1
    <3>2. CASE n # 0
      <4>1. 1 \in 1 .. n /\ Len(q) > 0
        BY <1>2, <3>2
      <4>. QED  BY <1>2, <1>5, <4>1 DEF LinkedAt, QueueTyped
    <3>. QED  BY <3>1, <3>2
  <2>. QED  BY <1>10, <2>1, <2>2 DEF QueueTyped
<1>18. InStep(r, left2)'
  <2>1. InStep(q, left)
    BY <1>1 DEF Accounts
  <2>2. ASSUME NEW i \in 1 .. Len(r)
        PROVE  /\ left2[i] <= MaxDelay
               /\ waited'[r[i].mess] = 0 => asked'[r[i].mess] = left2[i]
    <3>1. CASE i = n + 1
      <4>1. r[i].mess = m /\ left2[i] = d
        BY <1>6, <1>10, <1>13, <3>1
      <4>. QED  BY <1>2, <1>15, <4>1
    <3>2. CASE i # n + 1
      <4>1. PICK j \in 1 .. Len(q) :
              /\ j = Old(i) /\ r[i].mess = q[j].mess /\ left2[i] = left[j]
        BY <1>11, <3>2
      <4>2. /\ asked'[q[j].mess] = asked[q[j].mess]
            /\ waited'[q[j].mess] = waited[q[j].mess]
        BY <1>16, <3>2, <4>1
      <4>3. left[j] <= MaxDelay /\ (waited[q[j].mess] = 0 => asked[q[j].mess] = left[j])
        BY <2>1 DEF InStep
      <4>. QED  BY <4>1, <4>2, <4>3
    <3>. QED  BY <3>1, <3>2
  <2>3. ASSUME NEW i \in 1 .. Len(r), NEW j \in 1 .. Len(r),
               waited'[r[i].mess] = waited'[r[j].mess]
        PROVE  asked'[r[i].mess] - left2[i] = asked'[r[j].mess] - left2[j]
    <3>1. CASE waited'[r[i].mess] = 0
      <4>1. asked'[r[i].mess] = left2[i] /\ asked'[r[j].mess] = left2[j]
        BY <2>2, <2>3, <3>1
      <4>2. left2 \in [0 .. Len(r) -> Nat] /\ i \in 0 .. Len(r) /\ j \in 0 .. Len(r)
        BY <1>7 DEF Sums
      <4>3. left2[i] \in Nat /\ left2[j] \in Nat
        BY <4>2
      <4>. QED  BY <4>1, <4>3
    <3>2. CASE waited'[r[i].mess] # 0
      <4>0. r[n + 1].mess = m /\ waited'[m] = 0
        BY <1>6, <1>10, <1>15
      <4>1. i # n + 1 /\ j # n + 1
        BY <2>3, <3>2, <4>0
      <4>2. PICK a \in 1 .. Len(q) :
              a = Old(i) /\ r[i].mess = q[a].mess /\ left2[i] = left[a]
        BY <1>11, <4>1
      <4>3. PICK b \in 1 .. Len(q) :
              b = Old(j) /\ r[j].mess = q[b].mess /\ left2[j] = left[b]
        BY <1>11, <4>1
      <4>4. asked'[q[a].mess] = asked[q[a].mess] /\ waited'[q[a].mess] = waited[q[a].mess]
        BY <1>16, <4>1, <4>2
      <4>5. asked'[q[b].mess] = asked[q[b].mess] /\ waited'[q[b].mess] = waited[q[b].mess]
        BY <1>16, <4>1, <4>3
      <4>6. waited[q[a].mess] = waited[q[b].mess]
        BY <2>3, <4>2, <4>3, <4>4, <4>5
      <4>7. asked[q[a].mess] - left[a] = asked[q[b].mess] - left[b]
        BY <2>1, <4>6 DEF InStep
      <4>. QED  BY <4>2, <4>3, <4>4, <4>5, <4>7
    <3>. QED  BY <3>1, <3>2
  <2>. QED  BY <2>2, <2>3 DEF InStep
<1>19. Early(r, left2)'
  <2>1. Early(q, left)
    BY <1>1 DEF Accounts
  <2>2. ASSUME NEW i \in 1 .. Len(r)
        PROVE  waited'[r[i].mess] + left2[i] - c >= asked'[r[i].mess] - counted_then'[r[i].mess]
    <3>1. CASE i = n + 1
      BY <1>2, <1>6, <1>10, <1>13, <1>15, <3>1
    <3>2. CASE i # n + 1
      <4>1. PICK a \in 1 .. Len(q) :
              a = Old(i) /\ r[i].mess = q[a].mess /\ left2[i] = left[a]
        BY <1>11, <3>2
      <4>2. /\ asked'[q[a].mess] = asked[q[a].mess] /\ waited'[q[a].mess] = waited[q[a].mess]
            /\ counted_then'[q[a].mess] = counted_then[q[a].mess]
        BY <1>16, <3>2, <4>1
      <4>3. waited[q[a].mess] + left[a] - timer_count >= asked[q[a].mess] - counted_then[q[a].mess]
        BY <2>1 DEF Early
      <4>. QED  BY <4>1, <4>2, <4>3
    <3>. QED  BY <3>1, <3>2
  <2>. QED  BY <1>8, <2>2 DEF Early
<1>20. Late(r, most2)'
  <2>1. Late(q, most)
    BY <1>1 DEF Accounts
  <2>2. ASSUME NEW i \in 1 .. Len(r)
        PROVE  IF c < r[1].delay
               THEN 2 * waited'[r[i].mess] + most2[i] - 2 * c <= Most(asked'[r[i].mess]) + 2
               ELSE 2 * waited'[r[i].mess] + most2[i] <= Most(asked'[r[i].mess])
    <3>1. CASE i = n + 1
      <4>1. /\ waited'[r[i].mess] = 0 /\ asked'[r[i].mess] = d
            /\ most2[i] <= Most(d)
        BY <1>6, <1>10, <1>13, <1>15, <3>1
      <4>2. most2[i] \in Nat /\ Most(d) \in Nat
        <5>1. d \in Nat /\ most2[i] \in Nat
          BY <1>2, <1>7 DEF Sums
        <5>. QED  BY <5>1, MostBounds
      <4>3. PICK s \in Nat, a \in Nat : s = most2[i] /\ a = Most(d)
        BY <4>2
      <4>4. 2 * 0 + s - 2 * c <= a + 2 /\ 2 * 0 + s <= a
        BY <1>2, <4>1, <4>3
      <4>. QED  BY <4>1, <4>3, <4>4
    <3>2. CASE i # n + 1
      <4>1. PICK j \in 1 .. Len(q) : j = Old(i)
        BY <1>11, <3>2
      <4> DEFINE p == q[j].mess
      <4>2. /\ p \in Messages /\ r[i].mess = p
            /\ asked'[p] = asked[p] /\ waited'[p] = waited[p]
        BY <1>11, <1>16, <3>2, <4>1
      <4>3. PICK w \in Nat, a \in Nat, s \in Nat, t \in Nat :
              /\ w = waited[p] /\ a = Most(asked[p])
              /\ s = most[j] /\ t = most2[i]
              /\ t <= s /\ (n = 0 /\ x < q[1].delay => t + 2 * q[1].delay <= s)
        BY <1>11, <1>14, <3>2, <4>1, <4>2
      <4>4. IF c < q[1].delay THEN 2 * w + s - 2 * c <= a + 2 ELSE 2 * w + s <= a
        BY <2>1, <4>1, <4>3 DEF Late
      <4> HIDE DEF p
      <4>5. PICK h \in Nat : h = q[1].delay /\ (n = 0 => x <= h)
        <5>1. 1 \in 1 .. Len(q) /\ 0 < Len(q)
          BY <1>2, <4>1
        <5>2. q[1] \in Entries
          BY <1>2, <5>1 DEF QueueTyped
        <5>. QED  BY <1>5, <5>1, <5>2 DEF Entries
      <4>6. r[1].delay = IF n = 0 THEN x ELSE h
        <5>1. CASE n = 0
          BY <1>6, <1>10, <5>1
        <5>2. CASE n # 0
          <6>1. 1 \in 1 .. n
            BY <5>2
          <6>. QED  BY <1>5, <4>5, <5>2, <6>1 DEF LinkedAt
        <5>. QED  BY <5>1, <5>2
      <4>7. IF c < r[1].delay THEN 2 * w + t - 2 * c <= a + 2 ELSE 2 * w + t <= a
        <5>1. c \in Nat /\ t <= s
          BY <1>2, <4>3
        <5>2. IF c < h THEN 2 * w + s - 2 * c <= a + 2 ELSE 2 * w + s <= a
          BY <4>4, <4>5
        <5>3. CASE n = 0 /\ x < h
          <6>1. t + 2 * h <= s /\ r[1].delay = x
            BY <4>3, <4>5, <4>6, <5>3
          <6>2. 2 * w + t <= a /\ 2 * w + t - 2 * c <= a + 2
            BY <5>1, <5>2, <6>1
          <6>. QED  BY <6>2
        <5>4. CASE ~(n = 0 /\ x < h)
          <6>1. r[1].delay = h
            BY <4>5, <4>6, <5>4
          <6>2. IF c < h THEN 2 * w + t - 2 * c <= a + 2 ELSE 2 * w + t <= a
            BY <5>1, <5>2
          <6>. QED  BY <6>1, <6>2
        <5>. QED  BY <5>3, <5>4
      <4>. QED  BY <4>2, <4>3, <4>7
    <3>. QED  BY <3>1, <3>2
  <2>. QED  BY <1>8, <2>2 DEF Late
<1>21. Accounts(r, left2, most2)'
  BY <1>7, <1>18, <1>19, <1>20 DEF Accounts
<1>22. (\E left3, most3 : Accounts(delayed_send_queue, left3, most3))'
  BY <1>8, <1>21
<1>. QED  BY <1>8, <1>9, <1>17, <1>22 DEF Inv

\* The count after a tick: it is one more, or it is given up because it had
\* reached the delay of the first entry before.
LEMMA CountedIs ==
    ASSUME HistoryTyped, QueueTyped(delayed_send_queue)
    PROVE  /\ counted \in 0 .. MaxDelay + 1
           /\ Len(delayed_send_queue) > 0 /\ delayed_send_queue[1].delay <= MaxDelay =>
                 IF timer_count < delayed_send_queue[1].delay
                 THEN counted = timer_count + 1 ELSE counted = 0
<1>1. /\ timer_count \in 0 .. MaxDelay + 1 /\ MaxDelay \in Nat
      /\ (delayed_send_queue = << >> <=> Len(delayed_send_queue) = 0)
      /\ Len(delayed_send_queue) > 0 =>
            Head(delayed_send_queue).delay = delayed_send_queue[1].delay
  BY DelayAssumption DEF HistoryTyped, QueueTyped
<1> DEFINE next == IF timer_count > MaxDelay THEN timer_count ELSE timer_count + 1
<1>2. /\ next \in 0 .. MaxDelay + 1
      /\ timer_count <= MaxDelay => next = timer_count + 1
      /\ ~(timer_count <= MaxDelay) => next = timer_count
  BY <1>1
<1>3. counted = IF delayed_send_queue # << >> /\ next > Head(delayed_send_queue).delay
                THEN 0 ELSE next
  BY DEF counted
<1> HIDE DEF next
<1>4. counted \in 0 .. MaxDelay + 1
  BY <1>1, <1>2, <1>3
<1>5. ASSUME Len(delayed_send_queue) > 0, NEW h \in 0 .. MaxDelay,
             h = delayed_send_queue[1].delay
      PROVE  IF timer_count < h THEN counted = timer_count + 1 ELSE counted = 0
  <2>1. counted = IF next > h THEN 0 ELSE next
    BY <1>1, <1>3, <1>5
  <2>. QED  BY <1>1, <1>2, <2>1
<1>6. ASSUME Len(delayed_send_queue) > 0 PROVE delayed_send_queue[1].delay \in Nat
  <2>1. delayed_send_queue[1] \in Entries
    BY <1>6 DEF QueueTyped
  <2>. QED  BY <2>1 DEF Entries
<1>7. ASSUME Len(delayed_send_queue) > 0, delayed_send_queue[1].delay <= MaxDelay
      PROVE  IF timer_count < delayed_send_queue[1].delay
             THEN counted = timer_count + 1 ELSE counted = 0
  <2>1. delayed_send_queue[1].delay \in 0 .. MaxDelay
    BY <1>1, <1>6, <1>7
  <2>. QED  BY <1>5, <1>7, <2>1
<1>. QED  BY <1>4, <1>7

\* A tick: everybody has waited for one tick more.
LEMMA TickKeeps ==
    ASSUME Inv, timer_i_process
    PROVE  Inv'
<1> SUFFICES ASSUME NEW q, q = delayed_send_queue, NEW c, c = timer_count,
                    NEW k, k = due, NEW r, r = delayed_send_queue'
             PROVE  Inv'
  OBVIOUS
<1>1. PICK left, most : Accounts(q, left, most)
  BY DEF Inv
<1>2. /\ QueueTyped(q) /\ HistoryTyped /\ Sums(q, left, most)
      /\ InStep(q, left) /\ Early(q, left) /\ Late(q, most)
      /\ q \in Seq(Entries) /\ Len(q) \in Nat /\ c \in Nat
  BY <1>1, DelayAssumption DEF Inv, Accounts, QueueTyped, HistoryTyped
<1>3. /\ k \in 0 .. Len(q)
      /\ k = 0 => Len(q) = 0 \/ q[1].delay # counted
      /\ k > 0 => /\ q[1].delay = counted
                  /\ \A i \in 2 .. k : q[i].delay = 0
                  /\ k < Len(q) => q[k + 1].delay # 0
  <2>1. q = << >> => Len(q) = 0
    OBVIOUS
  <2>. QED  BY <1>2, <2>1, DueAre
<1>4. /\ Dropped(q, k, r)
      /\ r \in Seq(Entries) /\ Len(r) = Len(q) - k /\ \A i \in 1 .. Len(r) : r[i] = q[k + i]
  <2>1. r = SubSeq(q, k + 1, Len(q))
    BY DEF timer_i_process
  <2>2. Dropped(q, k, r)
    BY <1>2, <1>3, <2>1, Dropping
  <2>. QED  BY <2>2 DEF Dropped
<1>5. /\ timer_count' = IF k > 0 THEN 0 ELSE counted
      /\ waited' = [p \in Messages |-> IF p \in Queued' THEN waited[p] + 1 ELSE 0]
      /\ asked' = [p \in Messages |-> IF p \in Queued' THEN asked[p] ELSE 0]
      /\ counted_then' = [p \in Messages |-> IF p \in Queued' THEN counted_then[p] ELSE 0]
  BY DEF timer_i_process
<1>6. HistoryTyped'
  <2>1. timer_count' \in 0 .. MaxDelay + 1
    <3>1. counted \in 0 .. MaxDelay + 1
      BY <1>2, CountedIs
    <3>2. 0 \in 0 .. MaxDelay + 1
      BY DelayAssumption
    <3>. QED  BY <1>5, <3>1, <3>2
  <2>2. asked' \in [Messages -> 0 .. MaxDelay]
    BY <1>2, <1>5, DelayAssumption DEF HistoryTyped
  <2>3. waited' \in [Messages -> Nat]
    BY <1>2, <1>5 DEF HistoryTyped
  <2>4. counted_then' \in [Messages -> 0 .. MaxDelay + 1]
    BY <1>2, <1>5, DelayAssumption DEF HistoryTyped
  <2>. QED  BY <2>1, <2>2, <2>3, <2>4 DEF HistoryTyped
<1>7. ASSUME NEW i \in 1 .. Len(r)
      PROVE  LET p == r[i].mess
             IN  /\ p \in Messages /\ k + i \in 1 .. Len(q) /\ p = q[k + i].mess
                 /\ asked'[p] = asked[p] /\ waited'[p] = waited[p] + 1
                 /\ counted_then'[p] = counted_then[p]
                 /\ asked[p] \in Nat /\ waited[p] \in Nat /\ counted_then[p] \in Nat
  <2>1. r[i] \in Entries
    BY <1>4
  <2>2. r[i].mess \in Messages
    BY <2>1 DEF Entries
  <2>3. r[i].mess \in Queued'
    BY <1>4, <1>5 DEF Queued, Positions
  <2>4. k + i \in 1 .. Len(q) /\ r[i].mess = q[k + i].mess
    BY <1>2, <1>3, <1>4
  <2>5. /\ asked[r[i].mess] \in Nat /\ waited[r[i].mess] \in Nat
        /\ counted_then[r[i].mess] \in Nat
    BY <1>2, <2>2, DelayAssumption DEF HistoryTyped
  <2>. QED  BY <1>5, <2>2, <2>3, <2>4, <2>5
<1>8. QueueTyped(r)
  <2>1. ASSUME NEW i \in 1 .. Len(r), NEW j \in 1 .. Len(r), r[i].mess = r[j].mess
        PROVE  i = j
    <3>1. k + i \in 1 .. Len(q) /\ k + j \in 1 .. Len(q) /\ q[k + i].mess = q[k + j].mess
      BY <1>7, <2>1
    <3>2. k + i = k + j
      BY <1>2, <3>1 DEF QueueTyped
    <3>. QED  BY <1>3, <3>2
  <2>2. ASSUME Len(r) > 0 PROVE r[1].delay > 0
    <3>1. 1 \in 1 .. Len(r) /\ k < Len(q)
      BY <1>2, <1>3, <1>4, <2>2
    <3>2. r[1] = q[k + 1] /\ r[1] \in Entries
      BY <1>4, <3>1
    <3>3. CASE k = 0
      BY <1>2, <3>1, <3>2, <3>3 DEF QueueTyped
    <3>4. CASE k > 0
      BY <1>3, <3>1, <3>2, <3>4 DEF Entries
    <3>. QED  BY <1>3, <3>3, <3>4
  <2>. QED  BY <1>4, <2>1, <2>2 DEF QueueTyped
<1>9. Len(q) > 0 => /\ q[1].delay \in Nat \ {0} /\ q[1].delay = left[1]
                    /\ IF c < q[1].delay THEN counted = c + 1 ELSE counted = 0
  <2> SUFFICES ASSUME Len(q) > 0
               PROVE  /\ q[1].delay \in Nat \ {0} /\ q[1].delay = left[1]
                      /\ IF c < q[1].delay THEN counted = c + 1 ELSE counted = 0
    OBVIOUS
  <2>1. 1 \in 1 .. Len(q) /\ 1 - 1 = 0
    BY <1>2
  <2>2. q[1].delay \in Nat \ {0}
    <3>1. q[1] \in Entries /\ q[1].delay > 0
      BY <1>2, <2>1 DEF QueueTyped
    <3>. QED  BY <3>1 DEF Entries
  <2>3. left[1] = 0 + q[1].delay
    BY <1>2, <2>1 DEF Sums
  <2>4. left[1] <= MaxDelay
    BY <1>2, <2>1 DEF InStep
  <2>. QED  BY <1>2, <2>2, <2>3, <2>4, CountedIs
<1>10. \E left2, most2 :
         /\ Sums(r, left2, most2)
         /\ \A i \in 1 .. Len(r) :
              IF k = 0 THEN left2[i] = left[k + i] /\ most2[i] = most[k + i]
              ELSE left2[i] = left[k + i] - q[1].delay /\ most2[i] = most[k + i] - Most(q[1].delay)
  <2>1. CASE k = 0
    <3>1. \A i \in 1 .. Len(r) : k + i = i
      BY <2>1
    <3>2. r = q
      <4>1. Len(r) = Len(q) /\ \A i \in 1 .. Len(q) : r[i] = q[i]
        BY <1>2, <1>4, <2>1, <3>1
      <4>. QED  BY <1>2, <1>4, <4>1
    <3>. QED  BY <1>2, <2>1, <3>1, <3>2
  <2>2. CASE k > 0
    <3>1. k \in 1 .. Len(q) /\ \A i \in 2 .. k : q[i].delay = 0
      BY <1>3, <2>2
    <3>2. \E left2, most2 :
            /\ Sums(r, left2, most2)
            /\ \A i \in 1 .. Len(r) : /\ left2[i] = left[k + i] - q[1].delay
                                      /\ most2[i] = most[k + i] - Most(q[1].delay)
      <4>1. PICK h : h = q[1].delay
        OBVIOUS
      <4>2. Dropped(q, k, r) /\ QueueTyped(q) /\ Sums(q, left, most)
        BY <1>2, <1>4
      <4>3. \E left2, most2 :
              Sums(r, left2, most2) /\ DroppedSums(r, left, most, k, h, left2, most2)
        BY <3>1, <4>1, <4>2, DropSums
      <4>. QED  BY <4>1, <4>3 DEF DroppedSums
    <3>. QED  BY <2>2, <3>2
  <2>. QED  BY <1>3, <2>1, <2>2
<1>11. PICK left2, most2 :
         /\ Sums(r, left2, most2)
         /\ \A i \in 1 .. Len(r) :
              IF k = 0 THEN left2[i] = left[k + i] /\ most2[i] = most[k + i]
              ELSE left2[i] = left[k + i] - q[1].delay /\ most2[i] = most[k + i] - Most(q[1].delay)
  BY <1>10
<1>12. ASSUME NEW i \in 1 .. Len(r), NEW h \in Nat, h = q[1].delay
       PROVE  /\ left2[i] <= left[k + i]
              /\ k = 0 => left2[i] = left[k + i] /\ most2[i] = most[k + i]
              /\ k > 0 => left2[i] = left[k + i] - h /\ most2[i] = most[k + i] - Most(h)
              /\ left[k + i] \in Nat /\ most[k + i] \in Nat
  <2>1. k + i \in 1 .. Len(q)
    BY <1>7
  <2>2. left[k + i] \in Nat /\ most[k + i] \in Nat
    BY <1>2, <2>1 DEF Sums
  <2>3. CASE k = 0
    BY <1>11, <2>2, <2>3
  <2>4. CASE k > 0
    <3>1. left2[i] = left[k + i] - h /\ most2[i] = most[k + i] - Most(h)
      BY <1>11, <1>12, <2>4
    <3>. QED  BY <1>12, <2>2, <2>4, <3>1
  <2>. QED  BY <1>3, <2>3, <2>4
<1>13. ASSUME NEW i \in 1 .. Len(r)
       PROVE  Len(q) > 0 /\ k + i \in 1 .. Len(q)
  BY <1>2, <1>7
<1>14. InStep(r, left2)'
  <2>1. ASSUME NEW i \in 1 .. Len(r)
        PROVE  left2[i] <= MaxDelay /\ waited'[r[i].mess] # 0
    <3>1. PICK h \in Nat : h = q[1].delay
      BY <1>9, <1>13
    <3>2. left[k + i] <= MaxDelay
      BY <1>2, <1>13 DEF InStep
    <3>3. left2[i] \in Nat /\ left[k + i] \in Nat /\ left2[i] <= left[k + i]
      BY <1>11, <1>12, <3>1 DEF Sums
    <3>4. left2[i] <= MaxDelay
      BY <3>2, <3>3, DelayAssumption
    <3>. QED  BY <1>7, <3>4
  <2>2. ASSUME NEW i \in 1 .. Len(r), NEW j \in 1 .. Len(r),
               waited'[r[i].mess] = waited'[r[j].mess]
        PROVE  asked'[r[i].mess] - left2[i] = asked'[r[j].mess] - left2[j]
    <3>1. PICK h \in Nat : h = q[1].delay
      BY <1>9, <1>13
    <3>2. waited[q[k + i].mess] = waited[q[k + j].mess]
      <4>1. /\ r[i].mess = q[k + i].mess /\ r[j].mess = q[k + j].mess
            /\ waited[r[i].mess] \in Nat /\ waited[r[j].mess] \in Nat
            /\ waited'[r[i].mess] = waited[r[i].mess] + 1
            /\ waited'[r[j].mess] = waited[r[j].mess] + 1
        BY <1>7
      <4>. QED  BY <2>2, <4>1
    <3>3. asked[q[k + i].mess] - left[k + i] = asked[q[k + j].mess] - left[k + j]
      BY <1>2, <1>13, <3>2 DEF InStep
    <3>4. PICK a \in Nat, b \in Nat, s \in Nat, t \in Nat :
            /\ a = asked[r[i].mess] /\ b = asked[r[j].mess]
            /\ s = left[k + i] /\ t = left[k + j]
      BY <1>7, <1>12, <3>1
    <3>5. a - s = b - t
      BY <1>7, <3>3, <3>4
    <3>6. CASE k = 0
      <4>1. left2[i] = s /\ left2[j] = t
        BY <1>12, <3>1, <3>4, <3>6
      <4>. QED  BY <1>7, <3>4, <3>5, <4>1
    <3>7. CASE k > 0
      <4>1. left2[i] = s - h /\ left2[j] = t - h
        BY <1>12, <3>1, <3>4, <3>7
      <4>2. a - (s - h) = b - (t - h)
        BY <3>5
      <4>. QED  BY <1>7, <3>4, <4>1, <4>2
    <3>. QED  BY <1>3, <3>6, <3>7
  <2>. QED  BY <2>1, <2>2 DEF InStep
<1>15. Early(r, left2)'
  <2>1. ASSUME NEW i \in 1 .. Len(r)
        PROVE  waited'[r[i].mess] + left2[i] - timer_count'
                 >= asked'[r[i].mess] - counted_then'[r[i].mess]
    <3>1. PICK h \in Nat : h = q[1].delay
      BY <1>9, <1>13
    <3>2. PICK w \in Nat, a \in Nat, t \in Nat, s \in Nat :
            /\ w = waited[r[i].mess] /\ a = asked[r[i].mess]
            /\ t = counted_then[r[i].mess] /\ s = left[k + i]
      BY <1>7, <1>12, <3>1
    <3>3. w + s - c >= a - t
      BY <1>2, <1>7, <1>13, <3>2 DEF Early
    <3>4. CASE k = 0
      <4>1. left2[i] = s /\ timer_count' = counted
        BY <1>5, <1>12, <3>1, <3>2, <3>4
      <4>2. counted = c + 1 \/ counted = 0
        BY <1>9, <1>13
      <4>3. w + 1 + s - (c + 1) >= a - t /\ w + 1 + s - 0 >= a - t
        BY <1>2, <3>3
      <4>. QED  BY <1>7, <3>2, <4>1, <4>2, <4>3
    <3>5. CASE k > 0
      <4>1. left2[i] = s - h /\ timer_count' = 0
        BY <1>5, <1>12, <3>1, <3>2, <3>5
      <4>2. h = c + 1
        BY <1>3, <1>9, <1>13, <3>1, <3>5
      <4>3. w + 1 + (s - h) - 0 >= a - t
        BY <1>2, <3>3, <4>2
      <4>. QED  BY <1>7, <3>2, <4>1, <4>3
    <3>. QED  BY <1>3, <3>4, <3>5
  <2>. QED  BY <1>5, <2>1 DEF Early
<1>16. Late(r, most2)'
  <2>1. ASSUME NEW i \in 1 .. Len(r)
        PROVE  IF timer_count' < r[1].delay
               THEN 2 * waited'[r[i].mess] + most2[i] - 2 * timer_count'
                      <= Most(asked'[r[i].mess]) + 2
               ELSE 2 * waited'[r[i].mess] + most2[i] <= Most(asked'[r[i].mess])
    <3>1. PICK h \in Nat \ {0} : h = q[1].delay
      BY <1>9, <1>13
    <3>2. PICK w \in Nat, a \in Nat, s \in Nat :
            /\ w = waited[r[i].mess] /\ a = Most(asked[r[i].mess]) /\ s = most[k + i]
      BY <1>7, <1>12, <3>1, MostBounds
    <3>3. IF c < h THEN 2 * w + s - 2 * c <= a + 2 ELSE 2 * w + s <= a
      BY <1>2, <1>7, <1>13, <3>1, <3>2 DEF Late
    <3>4. CASE k = 0
      <4>1. most2[i] = s /\ timer_count' = counted
        BY <1>5, <1>12, <3>1, <3>2, <3>4
      <4>2. counted # h /\ (IF c < h THEN counted = c + 1 ELSE counted = 0)
        BY <1>3, <1>9, <1>13, <3>1, <3>4
      <4>3. 1 \in 1 .. Len(r) /\ k + 1 = 1
        BY <1>4, <3>4
      <4>4. r[1].delay = h
        BY <1>4, <3>1, <4>3
      <4>5. PICK g \in Nat : g = counted
        BY <1>2, <4>2
      <4>6. g < h /\ 2 * (w + 1) + s - 2 * g <= a + 2
        BY <1>2, <3>3, <4>2, <4>5
      <4>. QED  BY <1>7, <3>2, <4>1, <4>4, <4>5, <4>6
    <3>5. CASE k > 0
      <4>1. most2[i] = s - Most(h) /\ timer_count' = 0
        BY <1>5, <1>12, <3>1, <3>2, <3>5
      <4>2. h = c + 1
        BY <1>3, <1>9, <1>13, <3>1, <3>5
      <4>3. PICK x \in Nat : x = Most(h) /\ x >= 2 * h
        <5>1. h \in Nat /\ h > 0
          OBVIOUS
        <5>. QED  BY <5>1, MostBounds
      <4>4. 2 * (w + 1) + (s - x) - 2 * 0 <= a + 2
        BY <1>2, <3>3, <4>2, <4>3
      <4>5. 0 < r[1].delay
        BY <1>8, <1>4 DEF QueueTyped
      <4>. QED  BY <1>7, <3>2, <4>1, <4>3, <4>4, <4>5
    <3>. QED  BY <1>3, <3>4, <3>5
  <2>. QED  BY <1>5, <2>1 DEF Late
<1>17. Accounts(r, left2, most2)'
  BY <1>11, <1>14, <1>15, <1>16 DEF Accounts
<1>18. (\E left3, most3 : Accounts(delayed_send_queue, left3, most3))'
  BY <1>5, <1>17
<1>. QED  BY <1>5, <1>6, <1>8, <1>18 DEF Inv

\* Every step keeps the invariant.
LEMMA NextInv == Inv /\ [Next]_vars => Inv'
<1> SUFFICES ASSUME Inv, [Next]_vars PROVE Inv'
  OBVIOUS
<1>1. CASE timer_i_process
  BY <1>1, TickKeeps
<1>2. CASE \E m \in Messages, d \in 1 .. MaxDelay : kernel_delayed_send(m, d)
  BY <1>2, LinkKeeps
<1>3. CASE UNCHANGED vars
  BY <1>3 DEF vars, Inv, HistoryTyped, Accounts, InStep, Early, Late
<1>. QED  BY <1>1, <1>2, <1>3 DEF Next
-----------------------------------------------------------------------------
(* What follows.                                                               *)

\* The invariant holds for every delay and any number of messages and ticks.
LEMMA SpecInv == Spec => []Inv
  BY InitInv, NextInv, PTL DEF Spec

\* The stored delays never fall below 0 nor rise above the longest delay that is
\* asked for, and no message is queued twice.
THEOREM DelaysTyped == Spec => []TypeOK
<1>1. Inv => TypeOK
  <2> SUFFICES ASSUME Inv PROVE TypeOK
    OBVIOUS
  <2> DEFINE q == delayed_send_queue
  <2>1. PICK left, most : Sums(q, left, most) /\ InStep(q, left)
    BY DEF Inv, Accounts
  <2>2. QueueTyped(q) /\ HistoryTyped
    BY DEF Inv
  <2>3. ASSUME NEW i \in 1 .. Len(q)
        PROVE  q[i] \in [mess : Messages, delay : 0 .. MaxDelay]
    <3>1. q[i] \in Entries
      BY <2>2 DEF QueueTyped
    <3>2. left[i] = left[i - 1] + q[i].delay /\ left[i] <= MaxDelay
      BY <2>1 DEF Sums, InStep
    <3>3. left[i - 1] \in Nat
      <4>1. i - 1 \in 0 .. Len(q)
        BY <2>2 DEF QueueTyped
      <4>. QED  BY <2>1, <4>1 DEF Sums
    <3>4. q[i].delay \in Nat
      BY <3>1 DEF Entries
    <3>5. q[i].delay \in 0 .. MaxDelay
      BY <3>2, <3>3, <3>4, DelayAssumption
    <3>. QED  BY <3>1, <3>5 DEF Entries
  <2>4. q \in Seq([mess : Messages, delay : 0 .. MaxDelay]) /\ Len(q) \in Nat
    <3>1. q \in Seq(Entries)
      BY <2>2 DEF QueueTyped
    <3> HIDE DEF q
    <3>0. q \in [1 .. Len(q) -> Entries] /\ Len(q) \in Nat
      BY <3>1
    <3>2. q \in [1 .. Len(q) -> [mess : Messages, delay : 0 .. MaxDelay]] /\ Len(q) \in Nat
      <4> SUFFICES ASSUME NEW Short, Short = [mess : Messages, delay : 0 .. MaxDelay]
                   PROVE  q \in [1 .. Len(q) -> Short]
        BY <3>0
      <4>1. \A i \in 1 .. Len(q) : q[i] \in Short
        BY <2>3
      <4>. QED  BY <3>0, <4>1, Narrowed
    <3>. QED  BY <3>2, SeqDef
  <2>5. Cardinality(Queued) = Len(q)
    <3> DEFINE name == [i \in 1 .. Len(q) |-> q[i].mess]
    <3>1. Positions = 1 .. Len(q)
      BY <2>4 DEF Positions
    <3>2. Queued = {q[i].mess : i \in 1 .. Len(q)}
      BY <3>1 DEF Queued
    <3>3. name \in Bijection(1 .. Len(q), Queued)
      BY <2>2, <3>2 DEF Bijection, Injection, Surjection, IsInjective, QueueTyped
    <3>4. ExistsBijection(1 .. Len(q), Queued)
      BY <3>3 DEF ExistsBijection
    <3>. QED  BY <2>4, <3>4, FS_CountingElements
  <2>. QED  BY <2>2, <2>4, <2>5 DEF TypeOK, HistoryTyped
<1>. QED  BY <1>1, SpecInv, PTL

\* Of two messages handed over between the same two ticks the one with the shorter
\* delay is sent first, whatever was linked in before, between and after them.
THEOREM ShorterDelaysAreFirst == Spec => []ShorterDelayFirst
<1>1. Inv => ShorterDelayFirst
  <2> SUFFICES ASSUME Inv PROVE ShorterDelayFirst
    OBVIOUS
  <2> DEFINE q == delayed_send_queue
  <2>1. PICK left, most : Sums(q, left, most) /\ InStep(q, left)
    BY DEF Inv, Accounts
  <2>2. QueueTyped(q) /\ HistoryTyped /\ Len(q) \in Nat /\ Positions = 1 .. Len(q)
    BY DEF Inv, QueueTyped, Positions
  <2> HIDE DEF q
  <2>3. ASSUME NEW i \in 1 .. Len(q), NEW j \in 1 .. Len(q), i < j,
               waited[q[i].mess] = waited[q[j].mess]
        PROVE  asked[q[i].mess] <= asked[q[j].mess]
    <3>1. asked[q[i].mess] - left[i] = asked[q[j].mess] - left[j]
      BY <2>1, <2>3 DEF InStep
    <3>2. left[i] <= left[j] /\ left[i] \in Nat /\ left[j] \in Nat
      <4>1. i \in 0 .. Len(q) /\ j \in 0 .. Len(q) /\ i <= j
        BY <2>2, <2>3
      <4>. QED  BY <2>1, <4>1 DEF Sums
    <3>3. asked[q[i].mess] \in Nat /\ asked[q[j].mess] \in Nat
      <4>1. q[i] \in Entries /\ q[j] \in Entries
        BY <2>2 DEF QueueTyped
      <4>2. q[i].mess \in Messages /\ q[j].mess \in Messages
        BY <4>1 DEF Entries
      <4>. QED  BY <2>2, <4>2, DelayAssumption DEF HistoryTyped
    <3>. QED  BY <3>1, <3>2, <3>3
  <2>. QED  BY <2>2, <2>3 DEF ShorterDelayFirst, q
<1>. QED  BY <1>1, SpecInv, PTL

\* However many others are linked in while a message waits, it is late by no more
\* than about half the square of its delay.
THEOREM LatenessIsBounded == Spec => []NeverVeryLate
<1>1. Inv => NeverVeryLate
  <2> SUFFICES ASSUME Inv PROVE NeverVeryLate
    OBVIOUS
  <2> DEFINE q == delayed_send_queue
  <2>1. PICK left, most : Accounts(q, left, most)
    BY DEF Inv
  <2>2. /\ QueueTyped(q) /\ HistoryTyped /\ Len(q) \in Nat /\ Positions = 1 .. Len(q)
        /\ Sums(q, left, most) /\ Early(q, left) /\ Late(q, most)
    BY <2>1 DEF Inv, Accounts, QueueTyped, Positions
  <2>3. ASSUME NEW i \in 1 .. Len(q)
        PROVE  2 * waited[q[i].mess] < 2 * asked[q[i].mess]
                                         + asked[q[i].mess] * (asked[q[i].mess] + 1)
    <3>1. PICK w \in Nat, d \in Nat : w = waited[q[i].mess] /\ d = asked[q[i].mess]
      <4>1. q[i] \in Entries
        BY <2>2 DEF QueueTyped
      <4>2. q[i].mess \in Messages
        BY <4>1 DEF Entries
      <4>. QED  BY <2>2, <4>2, DelayAssumption DEF HistoryTyped
    <3>2. PICK h \in Nat : h = q[1].delay /\ h > 0
      <4>1. 1 \in 1 .. Len(q) /\ Len(q) > 0
        BY <2>2
      <4>2. q[1] \in Entries /\ q[1].delay > 0
        BY <2>2, <4>1 DEF QueueTyped
      <4>. QED  BY <4>2 DEF Entries
    <3>3. PICK s \in Nat : s = most[i] /\ s >= 2 * h
      <4>1. /\ 1 \in 0 .. Len(q) /\ i \in 0 .. Len(q) /\ 1 <= i
            /\ 1 \in 1 .. Len(q) /\ 1 - 1 = 0
        BY <2>2
      <4>2. most[1] <= most[i] /\ most[1] = 0 + Most(h) /\ most[i] \in Nat
        BY <2>2, <3>2, <4>1 DEF Sums
      <4>3. Most(h) >= 2 * h /\ Most(h) \in Nat
        BY <3>2, MostBounds
      <4>. QED  BY <4>2, <4>3
    <3>4. PICK c \in Nat, a \in Nat : c = timer_count /\ a = Most(d)
      <4>1. timer_count \in Nat
        BY <2>2, DelayAssumption DEF HistoryTyped
      <4>. QED  BY <4>1, MostBounds
    <3>5. IF c < h THEN 2 * w + s - 2 * c <= a + 2 ELSE 2 * w + s <= a
      BY <2>2, <3>1, <3>2, <3>3, <3>4 DEF Late
    <3>6. 2 * w <= a /\ (w > 0 => a > 0)
      <4>1. CASE c < h
        <5>1. c + 1 <= h /\ 2 * c + 2 <= 2 * h
          BY <4>1
        <5>2. 2 * c + 2 <= s
          BY <3>3, <5>1
        <5>3. 2 * w + s - 2 * c <= a + 2
          BY <3>5, <4>1
        <5>. QED  BY <5>2, <5>3
      <4>2. CASE ~(c < h)
        BY <3>2, <3>3, <3>5, <4>2
      <4>. QED  BY <4>1, <4>2
    <3>7. d > 0
      <4>1. CASE w = 0
        <5>1. d = left[i]
          BY <2>1, <3>1, <4>1 DEF Accounts, InStep
        <5>2. /\ 1 \in 0 .. Len(q) /\ i \in 0 .. Len(q) /\ 1 <= i
              /\ 1 \in 1 .. Len(q) /\ 1 - 1 = 0
          BY <2>2
        <5>3. left[1] <= left[i] /\ left[1] = 0 + h
          BY <2>2, <3>2, <5>2 DEF Sums
        <5>. QED  BY <3>2, <5>1, <5>3
      <4>2. CASE w > 0
        BY <3>4, <3>6, <4>2 DEF Most
      <4>. QED  BY <4>1, <4>2
    <3>8. Most(d) < 2 * d + d * (d + 1)
      BY <3>7, MostBounds
    <3>9. d * (d + 1) \in Nat
      OBVIOUS
    <3>10. PICK y \in Nat : y = d * (d + 1)
      BY <3>9
    <3>11. 2 * w < 2 * d + y
      BY <3>4, <3>6, <3>8, <3>10
    <3>. QED  BY <3>1, <3>10, <3>11
  <2>. QED  BY <2>2, <2>3 DEF NeverVeryLate
<1>. QED  BY <1>1, SpecInv, PTL

\* A message is never sent earlier than it was asked for, less the ticks that were
\* counted already when it was handed over.
THEOREM EarlinessIsBounded == Spec => EarlyByTicksCounted
<1>1. Inv /\ [Next]_vars =>
        [\A m \in Messages :
            m \in Queued /\ m \notin Queued' => waited[m] + 1 >= asked[m] - counted_then[m]]_vars
  <2> SUFFICES ASSUME Inv, Next, NEW m \in Messages, m \in Queued, m \notin Queued'
               PROVE  waited[m] + 1 >= asked[m] - counted_then[m]
    BY DEF vars
  <2> SUFFICES ASSUME NEW q, q = delayed_send_queue
               PROVE  waited[m] + 1 >= asked[m] - counted_then[m]
    OBVIOUS
  <2>1. PICK left, most : Accounts(q, left, most)
    BY DEF Inv
  <2>2. /\ QueueTyped(q) /\ HistoryTyped /\ q \in Seq(Entries) /\ Len(q) \in Nat
        /\ Sums(q, left, most) /\ Early(q, left)
    BY <2>1 DEF Inv, Accounts, QueueTyped
  <2>3. PICK i \in 1 .. Len(q) : q[i].mess = m
    BY <2>2 DEF Queued, Positions
  <2>4. CASE timer_i_process
    <3>1. PICK k \in 0 .. Len(q) : k = due
      BY <2>2, DueAre
    <3>2. PICK r : r = delayed_send_queue' /\ Dropped(q, k, r)
      BY <2>2, <2>4, <3>1, Dropping DEF timer_i_process
    <3>3. i <= k
      <4> SUFFICES ASSUME i > k PROVE FALSE
        OBVIOUS
      <4>1. r \in Seq(Entries) /\ Len(r) = Len(q) - k
            /\ \A j \in 1 .. Len(q) - k : r[j] = q[k + j]
        BY <3>2 DEF Dropped
      <4>2. i - k \in 1 .. Len(q) - k /\ k + (i - k) = i /\ i - k \in 1 .. Len(r)
        BY <2>2, <4>1
      <4>3. r[i - k].mess = m
        BY <2>3, <4>1, <4>2
      <4>4. Queued' = {r[j].mess : j \in 1 .. Len(r)}
        BY <3>2, <4>1 DEF Queued, Positions
      <4>. QED  BY <4>2, <4>3, <4>4
    <3>4. k > 0 /\ i \in 1 .. k
      BY <3>1, <3>3
    <3>5. PICK h \in Nat : h = q[1].delay /\ h > 0
      <4>1. 1 \in 1 .. Len(q) /\ Len(q) > 0
        BY <2>2
      <4>2. q[1] \in Entries /\ q[1].delay > 0
        BY <2>2, <4>1 DEF QueueTyped
      <4>. QED  BY <4>2 DEF Entries
    <3>6. h = counted /\ \A j \in 2 .. k : q[j].delay = 0
      BY <2>2, <3>1, <3>4, <3>5, DueAre
    <3>7. left[i] = h
      <4>1. k \in 1 .. Len(q) /\ Dropped(q, k, r) /\ \A j \in 2 .. k : q[j].delay = 0
        BY <3>1, <3>2, <3>4, <3>6
      <4>2. \A j \in 1 .. k : left[j] = h
        BY <2>2, <3>5, <4>1, DropSums
      <4>. QED  BY <3>4, <4>2
    <3>8. h <= MaxDelay
      BY <2>1, <3>7 DEF Accounts, InStep
    <3>9. h = timer_count + 1
      BY <2>2, <3>5, <3>6, <3>8, CountedIs
    <3>10. waited[m] + left[i] - timer_count >= asked[m] - counted_then[m]
      BY <2>2, <2>3 DEF Early
    <3>11. /\ waited[m] \in Nat /\ timer_count \in Nat
           /\ asked[m] \in Nat /\ counted_then[m] \in Nat
      BY <2>2, DelayAssumption DEF HistoryTyped
    <3>. QED  BY <3>7, <3>9, <3>10, <3>11
  <2>5. ASSUME NEW x \in Messages, NEW d \in 1 .. MaxDelay, kernel_delayed_send(x, d)
        PROVE  m \in Queued'
    <3>1. d \in Nat \ {0}
      OBVIOUS
    <3>2. PICK n \in 0 .. Len(q) :
            passed(d) = n /\ (n > 0 => left[n] < d) /\ (n < Len(q) => d <= left[n + 1])
      BY <2>2, <3>1, PassedAre
    <3>3. PICK r : /\ r = delayed_send_queue'
                   /\ LinkedAt(q, n, [mess |-> x, delay |-> d - left[n]], r)
      BY <2>2, <2>5, <3>1, <3>2, LinkedIs DEF kernel_delayed_send
    <3>4. /\ r \in Seq(Entries) /\ Len(r) = Len(q) + 1
          /\ \A j \in 1 .. n : r[j] = q[j]
          /\ \A j \in n + 1 .. Len(q) : r[j + 1].mess = q[j].mess
      BY <3>3 DEF LinkedAt
    <3>5. Queued' = {r[j].mess : j \in 1 .. Len(r)}
      BY <3>3, <3>4 DEF Queued, Positions
    <3>6. CASE i <= n
      <4>1. i \in 1 .. n /\ i \in 1 .. Len(r)
        BY <2>2, <3>4, <3>6
      <4>. QED  BY <2>3, <3>4, <3>5, <4>1
    <3>7. CASE ~(i <= n)
      <4>1. i \in n + 1 .. Len(q) /\ i + 1 \in 1 .. Len(r)
        BY <2>2, <3>4, <3>7
      <4>. QED  BY <2>3, <3>4, <3>5, <4>1
    <3>. QED  BY <3>6, <3>7
  <2>. QED  BY <2>4, <2>5 DEF Next
<1>. QED  BY <1>1, SpecInv, PTL DEF Spec, EarlyByTicksCounted
=============================================================================
