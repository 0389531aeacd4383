---------------------------- MODULE StressProofs ----------------------------
(* What holds of the stress processes for any number of A and B processes, of  *)
(* blocks, of reports and of commands, and however the B processes are wired.  *)
(* The invariant says where in its program every process is, with what its     *)
(* pointers hold there (AtWork), that a C process that hibernates has one      *)
(* WAKEUP10 on its way (WakesOnce), and how far the reports of every A process *)
(* have come in each of the queues on their way (Stages); the balance of the   *)
(* blocks at the end of the module rests on it.                                *)
EXTENDS Stress, SequenceTheorems, FiniteSetTheorems, TLAPS

\* The messages, by what they say.
Reports == [type : {"COUNT_REPORT"}, source : A, num : Nat]
ReportsOf(c) == {r \in Reports : to_c[to_b[r.source]] = c}
Commands == [type : {"COMMAND"}, own : BOOLEAN]

\* What the others send to process p.
Accepts(p) ==
    IF p \in A THEN Commands
    ELSE IF p \in B THEN {r \in Reports : to_b[r.source] = p}
    ELSE IF p \in C THEN ReportsOf(p) \cup {wakeup10}
    ELSE IF p = "KCD" THEN {registration}
    ELSE {text(0), text(1)}

Typed ==
    /\ free \in Nat /\ commands \in Nat /\ num \in [A -> Nat]
    /\ started \subseteq A /\ delayed \subseteq C /\ hibernates \subseteq C
    /\ DOMAIN mailbox = Pids /\ \A p \in Pids : mailbox[p] \in Seq(Accepts(p))
    /\ DOMAIN local = C /\ \A c \in C : local[c] \in Seq(ReportsOf(c))
    /\ DOMAIN handled = C /\ \A c \in C : handled[c] \in Seq(ReportsOf(c))
    /\ DOMAIN todo = Processes /\ DOMAIN hold = Processes

\* Where process p is in its program: the calls it still makes, the pointers it
\* has to blocks, and what it knows there.
at_a(a, n) ==
    LET first == send("command", "KCD", registration)
        later == send("p", to_b[a], report(a, num[a] - 1))
        at(calls, pointers) == todo[a] = calls /\ DOMAIN hold[a] = pointers
        registers == /\ num[a] = 0 /\ a \notin started
                     /\ \A w \in {"p"} \cap DOMAIN hold[a] : hold[a][w] = Blank
    IN  \/ n = 1 /\ at(<<request("p"), request("command"), first>>, {}) /\ registers
        \/ n = 2 /\ at(<<request("command"), first>>, {"p"}) /\ registers
        \/ n = 3 /\ at(<<first>>, {"p", "command"}) /\ registers
        \/ n = 4 /\ at(<< >>, {"p"}) /\ registers
        \/ n = 5 /\ at(<< >>, {}) /\ (a \in started \/ num[a] = 0)
        \/ n = 6 /\ at(<<release("p")>>, {"p"}) /\ num[a] = 0 /\ hold[a]["p"] # Blank
        \/ n = 7 /\ at(<<request("p"), later>>, {}) /\ a \in started /\ num[a] > 0
        \/ n = 8 /\ at(<<later>>, {"p"}) /\ a \in started /\ num[a] > 0

at_b(b, n) ==
    \/ n = 1 /\ todo[b] = << >> /\ DOMAIN hold[b] = {}
    \/ n = 2 /\ \E m \in Accepts(b) :
                   /\ todo[b] = <<send("mymess", to_c[b], m)>>
                   /\ DOMAIN hold[b] = {"mymess"}

at_c1(n) ==
    LET print == send("string", "CRT", text(1))
        at(calls, pointers) == todo[C1] = calls /\ DOMAIN hold[C1] \ {"q"} = pointers
        waits == C1 \in hibernates
    IN  \/ n = 1 /\ at(<< >>, {})
        \/ n = 2 /\ at(<<release("p")>>, {"p"}) /\ ~waits
        \/ n = 3 /\ at(<<request("q"), request("string"), print, delayed_send("p")>>, {"p"})
                 /\ waits
        \/ n = 4 /\ at(<<request("string"), print, delayed_send("p")>>, {"p"}) /\ waits
        \/ n = 5 /\ at(<<print, delayed_send("p")>>, {"p", "string"}) /\ waits
        \/ n = 6 /\ at(<<delayed_send("p")>>, {"p"}) /\ waits

at_c2(n) ==
    LET print == send("string", "CRT", text(0))
        at(calls, pointers) == todo[C2] = calls /\ DOMAIN hold[C2] = pointers
        waits == C2 \in hibernates
        twenty == hold[C2]["p"].num % TWENTY = 0
    IN  \/ n = 1 /\ at(<<request("q")>>, {}) /\ ~waits
        \/ n = 2 /\ at(<< >>, {"q"}) /\ ~waits
        \/ n = 3 /\ at(<< >>, {"p", "q"}) /\ ~waits /\ twenty
        \/ n = 4 /\ at(<< >>, {"p"}) /\ waits /\ twenty
        \/ n = 5 /\ at(<<release("p")>>, {"p", "q"}) /\ ~waits /\ ~twenty
        \/ n = 6 /\ at(<<request("string"), print, delayed_send("q")>>, {"p", "q"})
                 /\ waits /\ twenty
        \/ n = 7 /\ at(<<print, delayed_send("q")>>, {"p", "q", "string"}) /\ waits /\ twenty
        \/ n = 8 /\ at(<<delayed_send("q")>>, {"p", "q"}) /\ waits /\ twenty

AtWork ==
    /\ \A a \in A : \E n \in 1 .. 8 : at_a(a, n)
    /\ \A b \in B : \E n \in 1 .. 2 : at_b(b, n)
    /\ \E n \in 1 .. 6 : at_c1(n)
    /\ \E n \in 1 .. 8 : at_c2(n)

\* A C process that waits has one WAKEUP10 on its way, and no other one has any.
wakeups(c) == {i \in DOMAIN mailbox[c] : mailbox[c][i] = wakeup10}
WakesOnce(c) ==
    IF c \notin hibernates \/ todo[c] # << >> THEN c \notin delayed /\ wakeups(c) = {}
    ELSE IF c \in delayed THEN wakeups(c) = {} ELSE \E i \in Nat : wakeups(c) = {i}

\* The reports a process has sent to its B process.
passed(a) == IF todo[a] # << >> /\ num[a] > 0 THEN num[a] - 1 ELSE num[a]

\* The pipeline of A process a, cut between any two of the queues in it.
Stages(a) ==
    LET b == to_b[a]
        c == to_c[b]
    IN  \E h, l, m, s \in Nat :
          /\ h <= l /\ l <= m /\ m <= s /\ s <= passed(a)
          /\ in_order(a, handled[c], 0, h)
          /\ in_order(a, local[c], h, l)
          /\ in_order(a, mailbox[c], l, m)
          /\ in_order(a, to_send(b), m, s)
          /\ in_order(a, mailbox[b], s, passed(a))

-----------------------------------------------------------------------------
\* What a call leaves and what it changes.
LEMMA CallEffects ==
    ASSUME Typed, NEW p \in Processes, Steps(p)
    PROVE  /\ todo[p] # << >> /\ todo'[p] = Tail(todo[p])
           /\ DOMAIN todo' = Processes /\ DOMAIN hold' = Processes
           /\ \A q \in Processes \ {p} : todo'[q] = todo[q] /\ hold'[q] = hold[q]
           /\ UNCHANGED <<local, started, num, hibernates, handled, commands>>
           /\ Head(todo[p]).op = "request" =>
                 Request(p) /\ hold'[p] = with(hold[p], pointer(p), Blank)
           /\ Head(todo[p]).op # "request" => hold'[p] = without(hold[p], pointer(p))
           /\ Head(todo[p]).op = "send" => Send(p)
           /\ Head(todo[p]).op = "release" => Release(p)
           /\ Head(todo[p]).op = "delayed_send" => DelayedSend(p)
BY DEF Steps, Request, Send, Release, DelayedSend, Calls, Called, Typed, GivenAway

LEMMA Requests ==
    ASSUME Typed, NEW p \in Processes, Steps(p), NEW w, Head(todo[p]) = request(w)
    PROVE  /\ Request(p) /\ pointer(p) = w /\ todo'[p] = Tail(todo[p])
           /\ DOMAIN hold'[p] = DOMAIN hold[p] \cup {w} /\ hold'[p][w] = Blank
           /\ \A x \in DOMAIN hold[p] \ {w} : hold'[p][x] = hold[p][x]
           /\ num' = num /\ started' = started /\ hibernates' = hibernates
<1>1. Head(todo[p]).op = "request" /\ Head(todo[p]).what = w
  BY DEF request
<1>2. Request(p) /\ hold'[p] = with(hold[p], pointer(p), Blank)
  BY <1>1, CallEffects
<1>3. pointer(p) = w
  BY <1>1 DEF pointer
<1>4. todo'[p] = Tail(todo[p]) /\ num' = num /\ started' = started /\ hibernates' = hibernates
  BY CallEffects
<1>. QED  BY <1>2, <1>3, <1>4 DEF with

\* What a call that gives a block away leaves.
GaveAway(p, w) ==
    /\ pointer(p) = w /\ w \in DOMAIN hold[p] /\ todo'[p] = Tail(todo[p])
    /\ DOMAIN hold'[p] = DOMAIN hold[p] \ {w}
    /\ \A x \in DOMAIN hold[p] \ {w} : hold'[p][x] = hold[p][x]
    /\ num' = num /\ started' = started /\ hibernates' = hibernates

LEMMA GivesAway ==
    ASSUME Typed, NEW p \in Processes, Steps(p), Head(todo[p]).op # "request"
    PROVE  GaveAway(p, Head(todo[p]).what)
<1>1. hold'[p] = without(hold[p], pointer(p))
  BY CallEffects
<1>3. pointer(p) = Head(todo[p]).what
  BY DEF pointer
<1>4. todo'[p] = Tail(todo[p]) /\ num' = num /\ started' = started /\ hibernates' = hibernates
  BY CallEffects
<1>5. pointer(p) \in DOMAIN hold[p]
  BY DEF Steps, Request, Send, DelayedSend, Release, Owns, Calls
<1>. QED  BY <1>1, <1>3, <1>4, <1>5 DEF GaveAway, without

LEMMA Sends ==
    ASSUME Typed, NEW p \in Processes, Steps(p), NEW w, NEW d, NEW m,
           Head(todo[p]) = send(w, d, m)
    PROVE  Send(p) /\ GaveAway(p, w)
<1>1. Head(todo[p]).op = "send" /\ Head(todo[p]).what = w
  BY DEF send
<1>. QED  BY <1>1, CallEffects, GivesAway

LEMMA Releases ==
    ASSUME Typed, NEW p \in Processes, Steps(p), NEW w, Head(todo[p]) = release(w)
    PROVE  Release(p) /\ GaveAway(p, w)
<1>1. Head(todo[p]).op = "release" /\ Head(todo[p]).what = w
  BY DEF release
<1>. QED  BY <1>1, CallEffects, GivesAway

LEMMA DelayedSends ==
    ASSUME Typed, NEW p \in Processes, Steps(p), NEW w, Head(todo[p]) = delayed_send(w)
    PROVE  DelayedSend(p) /\ GaveAway(p, w)
<1>1. Head(todo[p]).op = "delayed_send" /\ Head(todo[p]).what = w
  BY DEF delayed_send
<1>. QED  BY <1>1, CallEffects, GivesAway

\* The calls of a process of each kind, and where it is after each of them.
LEMMA CallsOfA ==
    ASSUME Typed, NEW a \in A, NEW n \in 1 .. 8, at_a(a, n), Steps(a)
    PROVE  /\ n \in {1, 2, 7} => Request(a) /\ at_a(a, n + 1)'
                                 /\ pointer(a) = IF n = 2 THEN "command" ELSE "p"
           /\ n = 3 => Send(a) /\ at_a(a, 4)'
                       /\ Head(todo[a]) = send("command", "KCD", registration)
           /\ n = 8 => Send(a) /\ at_a(a, 5)'
                       /\ Head(todo[a]) = send("p", to_b[a], report(a, num[a] - 1))
           /\ n = 6 => Release(a) /\ at_a(a, 5)' /\ pointer(a) = "p"
           /\ n \in {1, 2, 3, 6, 7, 8}
<1> DEFINE x == request("p")
           y == request("command")
           z == send("command", "KCD", registration)
           u == send("p", to_b[a], report(a, num[a] - 1))
           v == release("p")
<1>0. a \in Processes
  BY DEF Processes
<1>1. CASE n = 1
  <2>1. todo[a] = <<x, y, z>> /\ DOMAIN hold[a] = {} /\ num[a] = 0 /\ a \notin started
    BY <1>1 DEF at_a
  <2>. HIDE DEF x, y, z
  <2>2. Head(todo[a]) = x /\ Tail(todo[a]) = <<y, z>>
    BY <2>1
  <2>3. Head(todo[a]) = request("p")
    BY <2>2 DEF x
  <2>4. /\ Request(a) /\ pointer(a) = "p" /\ todo'[a] = <<y, z>>
        /\ DOMAIN hold'[a] = {"p"} /\ hold'[a]["p"] = Blank
        /\ num'[a] = 0 /\ a \notin started'
    BY <1>0, <2>1, <2>2, <2>3, Requests
  <2>. QED  BY <1>1, <2>4 DEF at_a, y, z
<1>2. CASE n = 2
  <2>1. /\ todo[a] = <<y, z>> /\ DOMAIN hold[a] = {"p"} /\ num[a] = 0 /\ a \notin started
        /\ hold[a]["p"] = Blank
    BY <1>2 DEF at_a
  <2>. HIDE DEF y, z
  <2>2. Head(todo[a]) = y /\ Tail(todo[a]) = <<z>>
    BY <2>1
  <2>3. Head(todo[a]) = request("command")
    BY <2>2 DEF y
  <2>4. /\ Request(a) /\ pointer(a) = "command" /\ todo'[a] = <<z>>
        /\ DOMAIN hold'[a] = {"p", "command"} /\ hold'[a]["p"] = Blank
        /\ num'[a] = 0 /\ a \notin started'
    <3>1. /\ Request(a) /\ pointer(a) = "command" /\ todo'[a] = Tail(todo[a])
          /\ DOMAIN hold'[a] = DOMAIN hold[a] \cup {"command"} /\ num' = num /\ started' = started
          /\ \A w \in DOMAIN hold[a] \ {"command"} : hold'[a][w] = hold[a][w]
      BY <1>0, <2>3, Requests
    <3>. QED  BY <2>1, <2>2, <3>1
  <2>. QED  BY <1>2, <2>4 DEF at_a, z
<1>3. CASE n = 3
  <2>1. /\ todo[a] = <<z>> /\ DOMAIN hold[a] = {"p", "command"} /\ num[a] = 0
        /\ a \notin started /\ hold[a]["p"] = Blank
    BY <1>3 DEF at_a
  <2>. HIDE DEF z
  <2>2. Head(todo[a]) = z /\ Tail(todo[a]) = << >>
    BY <2>1
  <2>3. Head(todo[a]) = send("command", "KCD", registration)
    BY <2>2 DEF z
  <2>4. Send(a) /\ GaveAway(a, "command")
    BY <1>0, <2>3, Sends
  <2>5. at_a(a, 4)'
    BY <2>1, <2>2, <2>4 DEF GaveAway, at_a
  <2>. QED  BY <1>3, <2>3, <2>4, <2>5
<1>4. CASE n = 4 \/ n = 5
  <2>1. todo[a] = << >>
    BY <1>4 DEF at_a
  <2>. QED  BY <1>0, <2>1, CallEffects
<1>6. CASE n = 6
  <2>1. todo[a] = <<v>> /\ DOMAIN hold[a] = {"p"} /\ num[a] = 0
    BY <1>6 DEF at_a
  <2>. HIDE DEF v
  <2>2. Head(todo[a]) = v /\ Tail(todo[a]) = << >>
    BY <2>1
  <2>3. Head(todo[a]) = release("p")
    BY <2>2 DEF v
  <2>4. Release(a) /\ GaveAway(a, "p")
    BY <1>0, <2>3, Releases
  <2>5. at_a(a, 5)'
    BY <2>1, <2>2, <2>4 DEF GaveAway, at_a
  <2>. QED  BY <1>6, <2>4, <2>5 DEF GaveAway
<1>7. CASE n = 7
  <2>1. todo[a] = <<x, u>> /\ DOMAIN hold[a] = {} /\ num[a] > 0 /\ a \in started
    BY <1>7 DEF at_a
  <2>. HIDE DEF x, u
  <2>2. Head(todo[a]) = x /\ Tail(todo[a]) = <<u>>
    BY <2>1
  <2>3. Head(todo[a]) = request("p")
    BY <2>2 DEF x
  <2>4. /\ Request(a) /\ pointer(a) = "p" /\ todo'[a] = <<u>>
        /\ DOMAIN hold'[a] = {"p"} /\ num'[a] > 0 /\ num'[a] = num[a] /\ a \in started'
    BY <1>0, <2>1, <2>2, <2>3, Requests
  <2>. QED  BY <1>7, <2>4 DEF at_a, u
<1>8. CASE n = 8
  <2>1. todo[a] = <<u>> /\ DOMAIN hold[a] = {"p"} /\ a \in started
    BY <1>8 DEF at_a
  <2>. HIDE DEF u
  <2>2. Head(todo[a]) = u /\ Tail(todo[a]) = << >>
    BY <2>1
  <2>3. Head(todo[a]) = send("p", to_b[a], report(a, num[a] - 1))
    BY <2>2 DEF u
  <2>4. Send(a) /\ GaveAway(a, "p")
    BY <1>0, <2>3, Sends
  <2>5. at_a(a, 5)'
    BY <2>1, <2>2, <2>4 DEF GaveAway, at_a
  <2>. QED  BY <1>8, <2>3, <2>4, <2>5
<1>. QED  BY <1>1, <1>2, <1>3, <1>4, <1>6, <1>7, <1>8

LEMMA CallsOfB ==
    ASSUME Typed, NEW b \in B, NEW n \in 1 .. 2, at_b(b, n), Steps(b)
    PROVE  /\ n = 2 /\ Send(b) /\ at_b(b, 1)'
           /\ \E m \in Accepts(b) :
                 todo[b] = <<send("mymess", to_c[b], m)>> /\ pointer(b) = "mymess"
<1>0. b \in Processes
  BY DEF Processes
<1>1. CASE n = 1
  <2>1. todo[b] = << >>
    BY <1>1 DEF at_b
  <2>. QED  BY <1>0, <2>1, CallEffects
<1>2. CASE n = 2
  <2>1. PICK m \in Accepts(b) :
           todo[b] = <<send("mymess", to_c[b], m)>> /\ DOMAIN hold[b] = {"mymess"}
    BY <1>2 DEF at_b
  <2>2. Head(todo[b]) = send("mymess", to_c[b], m) /\ Tail(todo[b]) = << >>
    BY <2>1
  <2>3. Send(b) /\ GaveAway(b, "mymess")
    BY <1>0, <2>2, Sends
  <2>4. at_b(b, 1)'
    BY <2>1, <2>2, <2>3 DEF GaveAway, at_b
  <2>. QED  BY <1>2, <2>1, <2>3, <2>4 DEF GaveAway
<1>. QED  BY <1>1, <1>2

LEMMA CallsOfC1 ==
    ASSUME Typed, NEW n \in 1 .. 6, at_c1(n), Steps(C1)
    PROVE  /\ n \in {3, 4} => Request(C1) /\ at_c1(n + 1)'
                              /\ pointer(C1) = IF n = 3 THEN "q" ELSE "string"
           /\ n = 5 => Send(C1) /\ at_c1(6)'
                       /\ Head(todo[C1]) = send("string", "CRT", text(1))
           /\ n = 6 => DelayedSend(C1) /\ at_c1(1)' /\ pointer(C1) = "p"
           /\ n = 2 => Release(C1) /\ at_c1(1)' /\ pointer(C1) = "p"
           /\ n # 1
<1> DEFINE x == request("q")
           y == request("string")
           z == send("string", "CRT", text(1))
           u == delayed_send("p")
           v == release("p")
<1>0. C1 \in Processes
  BY DEF Processes, C
<1>1. CASE n = 1
  <2>1. todo[C1] = << >>
    BY <1>1 DEF at_c1
  <2>. QED  BY <1>0, <2>1, CallEffects
<1>2. CASE n = 2
  <2>1. todo[C1] = <<v>> /\ DOMAIN hold[C1] \ {"q"} = {"p"}
    BY <1>2 DEF at_c1
  <2>. HIDE DEF v
  <2>2. Head(todo[C1]) = v /\ Tail(todo[C1]) = << >>
    BY <2>1
  <2>3. Head(todo[C1]) = release("p")
    BY <2>2 DEF v
  <2>4. Release(C1) /\ GaveAway(C1, "p")
    BY <1>0, <2>3, Releases
  <2>5. at_c1(1)'
    BY <2>1, <2>2, <2>4 DEF GaveAway, at_c1
  <2>. QED  BY <1>2, <2>4, <2>5 DEF GaveAway
<1>3. CASE n = 3
  <2>1. todo[C1] = <<x, y, z, u>> /\ DOMAIN hold[C1] \ {"q"} = {"p"} /\ C1 \in hibernates
    BY <1>3 DEF at_c1
  <2>. HIDE DEF x, y, z, u
  <2>2. Head(todo[C1]) = x /\ Tail(todo[C1]) = <<y, z, u>>
    BY <2>1
  <2>3. Head(todo[C1]) = request("q")
    BY <2>2 DEF x
  <2>4. /\ Request(C1) /\ pointer(C1) = "q" /\ todo'[C1] = Tail(todo[C1])
        /\ DOMAIN hold'[C1] = DOMAIN hold[C1] \cup {"q"} /\ hibernates' = hibernates
    BY <1>0, <2>3, Requests
  <2>5. DOMAIN hold'[C1] \ {"q"} = {"p"} /\ todo'[C1] = <<y, z, u>> /\ C1 \in hibernates'
    BY <2>1, <2>2, <2>4
  <2>6. at_c1(4)'
    BY <2>5 DEF at_c1, y, z, u
  <2>. QED  BY <1>3, <2>4, <2>6
<1>4. CASE n = 4
  <2>1. todo[C1] = <<y, z, u>> /\ DOMAIN hold[C1] \ {"q"} = {"p"} /\ C1 \in hibernates
    BY <1>4 DEF at_c1
  <2>. HIDE DEF y, z, u
  <2>2. Head(todo[C1]) = y /\ Tail(todo[C1]) = <<z, u>>
    BY <2>1
  <2>3. Head(todo[C1]) = request("string")
    BY <2>2 DEF y
  <2>4. /\ Request(C1) /\ pointer(C1) = "string" /\ todo'[C1] = Tail(todo[C1])
        /\ DOMAIN hold'[C1] = DOMAIN hold[C1] \cup {"string"} /\ hibernates' = hibernates
    BY <1>0, <2>3, Requests
  <2>5. /\ DOMAIN hold'[C1] \ {"q"} = {"p", "string"} /\ todo'[C1] = <<z, u>>
        /\ C1 \in hibernates'
    BY <2>1, <2>2, <2>4
  <2>6. at_c1(5)'
    BY <2>5 DEF at_c1, z, u
  <2>. QED  BY <1>4, <2>4, <2>6
<1>5. CASE n = 5
  <2>1. todo[C1] = <<z, u>> /\ DOMAIN hold[C1] \ {"q"} = {"p", "string"} /\ C1 \in hibernates
    BY <1>5 DEF at_c1
  <2>. HIDE DEF z, u
  <2>2. Head(todo[C1]) = z /\ Tail(todo[C1]) = <<u>>
    BY <2>1
  <2>3. Head(todo[C1]) = send("string", "CRT", text(1))
    BY <2>2 DEF z
  <2>4. Send(C1) /\ GaveAway(C1, "string")
    BY <1>0, <2>3, Sends
  <2>5. DOMAIN hold'[C1] \ {"q"} = {"p"} /\ todo'[C1] = <<u>> /\ C1 \in hibernates'
    BY <2>1, <2>2, <2>4 DEF GaveAway
  <2>. QED  BY <1>5, <2>3, <2>4, <2>5 DEF at_c1, u
<1>6. CASE n = 6
  <2>1. todo[C1] = <<u>> /\ DOMAIN hold[C1] \ {"q"} = {"p"}
    BY <1>6 DEF at_c1
  <2>. HIDE DEF u
  <2>2. Head(todo[C1]) = u /\ Tail(todo[C1]) = << >>
    BY <2>1
  <2>3. Head(todo[C1]) = delayed_send("p")
    BY <2>2 DEF u
  <2>4. DelayedSend(C1) /\ GaveAway(C1, "p")
    BY <1>0, <2>3, DelayedSends
  <2>5. at_c1(1)'
    BY <2>1, <2>2, <2>4 DEF GaveAway, at_c1
  <2>. QED  BY <1>6, <2>4, <2>5 DEF GaveAway
<1>. QED  BY <1>1, <1>2, <1>3, <1>4, <1>5, <1>6

LEMMA CallsOfC2 ==
    ASSUME Typed, NEW n \in 1 .. 8, at_c2(n), Steps(C2)
    PROVE  /\ n = 1 => Request(C2) /\ at_c2(2)' /\ pointer(C2) = "q"
           /\ n = 5 => Release(C2) /\ at_c2(2)' /\ pointer(C2) = "p"
           /\ n = 6 => Request(C2) /\ at_c2(7)' /\ pointer(C2) = "string"
           /\ n = 7 => Send(C2) /\ at_c2(8)'
                       /\ Head(todo[C2]) = send("string", "CRT", text(0))
           /\ n = 8 => DelayedSend(C2) /\ at_c2(4)' /\ pointer(C2) = "q"
           /\ n \in {1, 5, 6, 7, 8}
<1> DEFINE x == request("q")
           y == request("string")
           z == send("string", "CRT", text(0))
           u == delayed_send("q")
           v == release("p")
           twenty == hold[C2]["p"].num % TWENTY = 0
<1>0. C2 \in Processes
  BY DEF Processes, C
<1>1. CASE n = 1
  <2>1. todo[C2] = <<x>> /\ DOMAIN hold[C2] = {} /\ C2 \notin hibernates
    BY <1>1 DEF at_c2
  <2>. HIDE DEF x
  <2>2. Head(todo[C2]) = x /\ Tail(todo[C2]) = << >>
    BY <2>1
  <2>3. Head(todo[C2]) = request("q")
    BY <2>2 DEF x
  <2>4. /\ Request(C2) /\ pointer(C2) = "q" /\ todo'[C2] = Tail(todo[C2])
        /\ DOMAIN hold'[C2] = DOMAIN hold[C2] \cup {"q"} /\ hibernates' = hibernates
    BY <1>0, <2>3, Requests
  <2>5. DOMAIN hold'[C2] = {"q"} /\ todo'[C2] = << >> /\ C2 \notin hibernates'
    BY <2>1, <2>2, <2>4
  <2>6. at_c2(2)'
    BY <2>5 DEF at_c2
  <2>. QED  BY <1>1, <2>4, <2>6
<1>2. CASE n \in {2, 3, 4}
  <2>1. todo[C2] = << >>
    BY <1>2 DEF at_c2
  <2>. QED  BY <1>0, <2>1, CallEffects
<1>5. CASE n = 5
  <2>1. todo[C2] = <<v>> /\ DOMAIN hold[C2] = {"p", "q"} /\ C2 \notin hibernates
    BY <1>5 DEF at_c2
  <2>. HIDE DEF v
  <2>2. Head(todo[C2]) = v /\ Tail(todo[C2]) = << >>
    BY <2>1
  <2>3. Head(todo[C2]) = release("p")
    BY <2>2 DEF v
  <2>4. Release(C2) /\ GaveAway(C2, "p")
    BY <1>0, <2>3, Releases
  <2>5. at_c2(2)'
    BY <2>1, <2>2, <2>4 DEF GaveAway, at_c2
  <2>. QED  BY <1>5, <2>4, <2>5 DEF GaveAway
<1>6. CASE n = 6
  <2>1. /\ todo[C2] = <<y, z, u>> /\ DOMAIN hold[C2] = {"p", "q"} /\ C2 \in hibernates
        /\ twenty
    BY <1>6 DEF at_c2
  <2>. HIDE DEF y, z, u
  <2>2. Head(todo[C2]) = y /\ Tail(todo[C2]) = <<z, u>>
    BY <2>1
  <2>3. Head(todo[C2]) = request("string")
    BY <2>2 DEF y
  <2>4. /\ Request(C2) /\ pointer(C2) = "string" /\ todo'[C2] = Tail(todo[C2])
        /\ DOMAIN hold'[C2] = DOMAIN hold[C2] \cup {"string"} /\ hibernates' = hibernates
        /\ \A w \in DOMAIN hold[C2] \ {"string"} : hold'[C2][w] = hold[C2][w]
    BY <1>0, <2>3, Requests
  <2>5. /\ DOMAIN hold'[C2] = {"p", "q", "string"} /\ todo'[C2] = <<z, u>>
        /\ C2 \in hibernates' /\ hold'[C2]["p"] = hold[C2]["p"]
    BY <2>1, <2>2, <2>4
  <2>. QED  BY <1>6, <2>1, <2>4, <2>5 DEF at_c2, z, u
<1>7. CASE n = 7
  <2>1. /\ todo[C2] = <<z, u>> /\ DOMAIN hold[C2] = {"p", "q", "string"}
        /\ C2 \in hibernates /\ twenty
    BY <1>7 DEF at_c2
  <2>. HIDE DEF z, u
  <2>2. Head(todo[C2]) = z /\ Tail(todo[C2]) = <<u>>
    BY <2>1
  <2>3. Head(todo[C2]) = send("string", "CRT", text(0))
    BY <2>2 DEF z
  <2>4. Send(C2) /\ GaveAway(C2, "string")
    BY <1>0, <2>3, Sends
  <2>5. /\ DOMAIN hold'[C2] = {"p", "q"} /\ todo'[C2] = <<u>> /\ C2 \in hibernates'
        /\ hold'[C2]["p"] = hold[C2]["p"]
    BY <2>1, <2>2, <2>4 DEF GaveAway
  <2>. QED  BY <1>7, <2>1, <2>3, <2>4, <2>5 DEF at_c2, u
<1>8. CASE n = 8
  <2>1. /\ todo[C2] = <<u>> /\ DOMAIN hold[C2] = {"p", "q"} /\ C2 \in hibernates
        /\ twenty
    BY <1>8 DEF at_c2
  <2>. HIDE DEF u
  <2>2. Head(todo[C2]) = u /\ Tail(todo[C2]) = << >>
    BY <2>1
  <2>3. Head(todo[C2]) = delayed_send("q")
    BY <2>2 DEF u
  <2>4. DelayedSend(C2) /\ GaveAway(C2, "q")
    BY <1>0, <2>3, DelayedSends
  <2>5. /\ DOMAIN hold'[C2] = {"p"} /\ todo'[C2] = << >> /\ C2 \in hibernates'
        /\ hold'[C2]["p"] = hold[C2]["p"]
    BY <2>1, <2>2, <2>4 DEF GaveAway
  <2>. QED  BY <1>8, <2>1, <2>4, <2>5 DEF at_c2, GaveAway
<1>. QED  BY <1>1, <1>2, <1>5, <1>6, <1>7, <1>8
-----------------------------------------------------------------------------
\* The calls of a process one by one.
LEMMA CallsInARow ==
    ASSUME NEW x, NEW y, NEW z, NEW u
    PROVE  /\ <<x>> \o <<y, z>> = <<x, y, z>>
           /\ <<y, z>> \o <<u>> = <<y, z, u>>
           /\ <<x>> \o <<y, z>> \o <<u>> = <<x, y, z, u>>
<1> DEFINE S == {x, y, z, u}
<1>1. /\ <<x>> \in Seq(S) /\ <<u>> \in Seq(S) /\ <<y, z>> \in Seq(S)
      /\ <<x, y, z>> \in Seq(S) /\ <<y, z, u>> \in Seq(S) /\ <<x, y, z, u>> \in Seq(S)
  OBVIOUS
<1>2. Len(<<x>>) = 1 /\ Len(<<u>>) = 1 /\ Len(<<y, z>>) = 2
      /\ Len(<<x, y, z>>) = 3 /\ Len(<<y, z, u>>) = 3 /\ Len(<<x, y, z, u>>) = 4
  OBVIOUS
<1>. HIDE DEF S
<1>3. <<x>> \o <<y, z>> = <<x, y, z>>
  <2> DEFINE s == <<x>> \o <<y, z>>
  <2>1. /\ s \in Seq(S) /\ Len(s) = 3
        /\ \A i \in 1 .. 3 : s[i] = IF i <= 1 THEN <<x>>[i] ELSE <<y, z>>[i - 1]
    BY <1>1, <1>2, ConcatProperties
  <2>. HIDE DEF s
  <2>2. s[1] = x /\ s[2] = y /\ s[3] = z
    BY <2>1
  <2>3. \A i \in 1 .. 3 : s[i] = <<x, y, z>>[i]
    BY <2>2
  <2>4. s = <<x, y, z>>
    BY <1>1, <1>2, <2>1, <2>3, SeqEqual
  <2>. QED  BY <2>4 DEF s
<1>4. <<y, z>> \o <<u>> = <<y, z, u>>
  <2> DEFINE s == <<y, z>> \o <<u>>
  <2>1. /\ s \in Seq(S) /\ Len(s) = 3
        /\ \A i \in 1 .. 3 : s[i] = IF i <= 2 THEN <<y, z>>[i] ELSE <<u>>[i - 2]
    BY <1>1, <1>2, ConcatProperties
  <2>. HIDE DEF s
  <2>2. s[1] = y /\ s[2] = z /\ s[3] = u
    BY <2>1
  <2>3. \A i \in 1 .. 3 : s[i] = <<y, z, u>>[i]
    BY <2>2
  <2>4. s = <<y, z, u>>
    BY <1>1, <1>2, <2>1, <2>3, SeqEqual
  <2>. QED  BY <2>4 DEF s
<1>5. <<x, y, z>> \o <<u>> = <<x, y, z, u>>
  <2> DEFINE s == <<x, y, z>> \o <<u>>
  <2>1. /\ s \in Seq(S) /\ Len(s) = 4
        /\ \A i \in 1 .. 4 : s[i] = IF i <= 3 THEN <<x, y, z>>[i] ELSE <<u>>[i - 3]
    BY <1>1, <1>2, ConcatProperties
  <2>. HIDE DEF s
  <2>2. s[1] = x /\ s[2] = y /\ s[3] = z /\ s[4] = u
    BY <2>1
  <2>3. \A i \in 1 .. 4 : s[i] = <<x, y, z, u>>[i]
    BY <2>2
  <2>4. s = <<x, y, z, u>>
    BY <1>1, <1>2, <2>1, <2>3, SeqEqual
  <2>. QED  BY <2>4 DEF s
<1>. QED  BY <1>3, <1>4, <1>5

\* What a process does when it has made its calls.
LEMMA LoopOfA ==
    ASSUME Typed, NEW a \in A, NEW n \in 1 .. 8, at_a(a, n)
    PROVE  /\ a_command(a) => n \in {4, 5} /\ at_a(a, 6)'
           /\ a_report(a) => n = 5 /\ at_a(a, 7)'
<1>0. a \in Processes /\ a \in Pids
  BY DEF Processes, Pids
<1>1. ASSUME idle(a), n \notin {4, 5} PROVE FALSE
  BY <1>1 DEF idle, at_a
<1>2. ASSUME a_command(a) PROVE n \in {4, 5} /\ at_a(a, 6)'
  <2>1. /\ n \in {4, 5} /\ a \notin started
    BY <1>1, <1>2 DEF a_command, has_message
  <2>2. num[a] = 0 /\ DOMAIN hold[a] \subseteq {"p"}
    BY <2>1 DEF at_a
  <2>3. received(a) \in Commands
    BY <1>0, <1>2, HeadTailProperties DEF Typed, Accepts, received, a_command, has_message
  <2>4. received(a) # Blank
    BY <2>3 DEF Commands, Blank
  <2>5. hold'[a] = with(hold[a], "p", received(a)) /\ todo'[a] = <<release("p")>> /\ num' = num
    BY <1>0, <1>2 DEF Typed, a_command, holds, does
  <2>6. DOMAIN hold'[a] = {"p"} /\ hold'[a]["p"] = received(a)
    BY <2>2, <2>5 DEF with
  <2>. QED  BY <2>1, <2>2, <2>4, <2>5, <2>6 DEF at_a
<1>3. ASSUME a_report(a) PROVE n = 5 /\ at_a(a, 7)'
  <2>1. n \in {4, 5} /\ a \in started
    BY <1>1, <1>3 DEF a_report
  <2>2. n = 5 /\ DOMAIN hold[a] = {}
    BY <2>1 DEF at_a
  <2>3. /\ todo'[a] = <<request("p"), send("p", to_b[a], report(a, num[a]))>>
        /\ num'[a] = num[a] + 1 /\ num[a] \in Nat /\ hold' = hold /\ started' = started
    BY <1>0, <1>3 DEF Typed, a_report, does
  <2>4. num'[a] - 1 = num[a] /\ num'[a] > 0
    BY <2>3
  <2>. QED  BY <2>1, <2>2, <2>3, <2>4 DEF at_a
<1>. QED  BY <1>2, <1>3

LEMMA LoopOfB ==
    ASSUME Typed, NEW b \in B, NEW n \in 1 .. 2, at_b(b, n), process_b(b)
    PROVE  n = 1 /\ at_b(b, 2)'
<1>0. b \in Processes /\ b \in Pids
  BY DEF Processes, Pids
<1>1. n = 1 /\ DOMAIN hold[b] = {}
  BY DEF process_b, has_message, idle, at_b
<1>2. received(b) \in Accepts(b)
  BY <1>0, HeadTailProperties DEF Typed, received, process_b, has_message
<1>3. /\ hold'[b] = with(hold[b], "mymess", received(b))
      /\ todo'[b] = <<send("mymess", to_c[b], received(b))>>
  BY <1>0 DEF Typed, process_b, holds, does
<1>4. DOMAIN hold'[b] = {"mymess"}
  BY <1>1, <1>3 DEF with
<1>. QED  BY <1>1, <1>2, <1>3, <1>4 DEF at_b

LEMMA Shorter ==
    ASSUME NEW S, NEW q \in Seq(S), q # << >>
    PROVE  Tail(q) # q
<1> DEFINE t == Tail(q)
<1>1. Len(q) \in Nat /\ Len(t) = Len(q) - 1
  BY HeadTailProperties, LenProperties
<1>. HIDE DEF t
<1>2. t # q
  BY <1>1
<1>. QED  BY <1>2 DEF t

\* The report a C process takes up is the oldest one of its local queue, or of its
\* mailbox if that is empty.
FromLocal(c) ==
    /\ local[c] # << >> /\ taken(c) = Head(local[c])
    /\ local' = [local EXCEPT ![c] = Tail(@)] /\ UNCHANGED mailbox
FromMailbox(c) ==
    /\ local[c] = << >> /\ mailbox[c] # << >> /\ taken(c) = Head(mailbox[c])
    /\ take(c) /\ UNCHANGED local

LEMMA Taken ==
    ASSUME Typed, NEW c \in C, WakesOnce(c), c_report(c)
    PROVE  (FromLocal(c) \/ FromMailbox(c)) /\ taken(c) \in ReportsOf(c)
<1>0. c \in Pids /\ c \notin A /\ c \notin B
  BY StressAssumption DEF Processes, Pids
<1>1. CASE local[c] # << >>
  <2>1. local[c] \in Seq(ReportsOf(c))
    BY DEF Typed
  <2>2. local' = [local EXCEPT ![c] = Tail(@)] /\ UNCHANGED mailbox
    BY <1>1 DEF c_report, next_report
  <2>3. local'[c] = Tail(local[c])
    BY <2>2 DEF Typed
  <2>4. taken(c) = Head(local[c])
    BY <1>1, <2>1, <2>3, Shorter DEF taken
  <2>. QED  BY <1>1, <2>1, <2>2, <2>4, HeadTailProperties DEF FromLocal
<1>2. CASE local[c] = << >>
  <2>1. mailbox[c] # << >> /\ take(c) /\ UNCHANGED local
    BY <1>2 DEF c_report, next_report
  <2>2. taken(c) = Head(mailbox[c])
    BY <2>1 DEF taken
  <2>3. mailbox[c] \in Seq(ReportsOf(c) \cup {wakeup10})
    BY <1>0 DEF Typed, Accepts
  <2>4. Len(mailbox[c]) \in Nat \ {0} /\ DOMAIN mailbox[c] = 1 .. Len(mailbox[c])
    BY <2>1, <2>3, EmptySeq, LenProperties
  <2>5. mailbox[c][1] # wakeup10
    BY <2>4 DEF c_report, WakesOnce, wakeups
  <2>6. Head(mailbox[c]) = mailbox[c][1]
    BY <2>1, <2>3
  <2>7. Head(mailbox[c]) \in ReportsOf(c) \cup {wakeup10}
    BY <2>1, <2>3, HeadTailProperties
  <2>. QED  BY <1>2, <2>1, <2>2, <2>5, <2>6, <2>7 DEF FromMailbox
<1>. QED  BY <1>1, <1>2

LEMMA Twentieths ==
    /\ twentieth(C1) = <<request("q"), request("string"), send("string", "CRT", text(1)),
                         delayed_send("p")>>
    /\ twentieth(C2) = <<request("string"), send("string", "CRT", text(0)), delayed_send("q")>>
<1>1. C1 # C2
  BY StressAssumption
<1>. QED  BY <1>1, CallsInARow DEF twentieth, uart_print_string

LEMMA LoopOfC1 ==
    ASSUME Typed, NEW n \in 1 .. 6, at_c1(n)
    PROVE  /\ c_report(C1) =>
                 n = 1 /\ IF taken(C1).num % TWENTY = 0 THEN at_c1(3)' ELSE at_c1(2)'
           /\ c_meanwhile(C1) =>
                 n = 1 /\ IF received(C1) = wakeup10 THEN at_c1(2)' ELSE at_c1(1)'
<1>0. C1 \in C /\ C1 \in Processes /\ C1 \in Pids /\ C1 \notin A \cup B
  BY StressAssumption DEF Processes, C, Pids
<1>1. ASSUME idle(C1) PROVE n = 1 /\ DOMAIN hold[C1] \ {"q"} = {}
  BY <1>1 DEF idle, at_c1
<1>2. ASSUME c_report(C1)
      PROVE  n = 1 /\ IF taken(C1).num % TWENTY = 0 THEN at_c1(3)' ELSE at_c1(2)'
  <2> DEFINE twenty == taken(C1).num % TWENTY = 0
  <2>1. n = 1 /\ DOMAIN hold[C1] \ {"q"} = {} /\ C1 \notin hibernates
    BY <1>1, <1>2 DEF c_report
  <2>2. /\ hold'[C1] = with(hold[C1], "p", taken(C1))
        /\ todo'[C1] = IF twenty THEN twentieth(C1) ELSE ordinary
        /\ hibernates' = IF twenty THEN hibernates \cup {C1} ELSE hibernates
    BY <1>0, <1>2 DEF Typed, c_report, holds, does
  <2>. HIDE DEF twenty
  <2>3. DOMAIN hold'[C1] \ {"q"} = {"p"}
    BY <2>1, <2>2 DEF with
  <2>4. CASE twenty
    BY <2>1, <2>2, <2>3, <2>4, Twentieths DEF at_c1, twenty
  <2>5. CASE ~twenty
    BY <2>1, <2>2, <2>3, <2>5 DEF at_c1, ordinary, twenty
  <2>. QED  BY <2>4, <2>5
<1>3. ASSUME c_meanwhile(C1)
      PROVE  n = 1 /\ IF received(C1) = wakeup10 THEN at_c1(2)' ELSE at_c1(1)'
  <2>1. n = 1 /\ DOMAIN hold[C1] \ {"q"} = {}
    BY <1>1, <1>3 DEF c_meanwhile, has_message
  <2>2. received(C1) \in ReportsOf(C1) \cup {wakeup10}
    BY <1>0, <1>3, HeadTailProperties DEF Typed, Accepts, received, c_meanwhile, has_message
  <2>3. received(C1).type = "WAKEUP10" <=> received(C1) = wakeup10
    BY <2>2 DEF ReportsOf, Reports, wakeup10
  <2>4. CASE received(C1) = wakeup10
    <3>1. /\ hold'[C1] = with(hold[C1], "p", received(C1)) /\ todo'[C1] = <<release("p")>>
          /\ hibernates' = hibernates \ {C1}
      BY <1>0, <1>3, <2>3, <2>4 DEF Typed, c_meanwhile, holds, does, wakeup_pointer
    <3>2. DOMAIN hold'[C1] \ {"q"} = {"p"}
      BY <2>1, <3>1 DEF with
    <3>. QED  BY <2>1, <2>4, <3>1, <3>2 DEF at_c1
  <2>5. CASE received(C1) # wakeup10
    <3>1. hold' = hold /\ todo' = todo
      BY <1>3, <2>3, <2>5 DEF c_meanwhile
    <3>. QED  BY <2>1, <2>5, <3>1 DEF at_c1
  <2>. QED  BY <2>1, <2>4, <2>5
<1>. QED  BY <1>2, <1>3

LEMMA LoopOfC2 ==
    ASSUME Typed, NEW n \in 1 .. 8, at_c2(n)
    PROVE  /\ c_report(C2) =>
                 /\ n \in {2, 3} /\ hold'[C2]["p"] = taken(C2)
                 /\ IF taken(C2).num % TWENTY = 0 THEN at_c2(6)' ELSE at_c2(5)'
           /\ c_meanwhile(C2) =>
                 n = 4 /\ IF received(C2) = wakeup10 THEN at_c2(3)' ELSE at_c2(4)'
<1>0. C2 \in C /\ C2 \in Processes /\ C2 \in Pids /\ C2 \notin A \cup B /\ C1 # C2
  BY StressAssumption DEF Processes, C, Pids
<1>1. ASSUME idle(C2)
      PROVE  /\ C2 \notin hibernates => n \in {2, 3} /\ DOMAIN hold[C2] \cup {"p"} = {"p", "q"}
             /\ C2 \in hibernates => n = 4
  BY <1>1 DEF idle, at_c2
<1>2. ASSUME c_report(C2)
      PROVE  /\ n \in {2, 3} /\ hold'[C2]["p"] = taken(C2)
             /\ IF taken(C2).num % TWENTY = 0 THEN at_c2(6)' ELSE at_c2(5)'
  <2> DEFINE twenty == taken(C2).num % TWENTY = 0
  <2>1. n \in {2, 3} /\ DOMAIN hold[C2] \cup {"p"} = {"p", "q"} /\ C2 \notin hibernates
    BY <1>1, <1>2 DEF c_report
  <2>2. /\ hold'[C2] = with(hold[C2], "p", taken(C2))
        /\ todo'[C2] = IF twenty THEN twentieth(C2) ELSE ordinary
        /\ hibernates' = IF twenty THEN hibernates \cup {C2} ELSE hibernates
    BY <1>0, <1>2 DEF Typed, c_report, holds, does
  <2>3. DOMAIN hold'[C2] = {"p", "q"} /\ hold'[C2]["p"] = taken(C2)
    BY <2>1, <2>2 DEF with
  <2>6. twenty <=> hold'[C2]["p"].num % TWENTY = 0
    BY <2>3
  <2>. HIDE DEF twenty
  <2>4. CASE twenty
    <3>1. at_c2(6)'
      BY <2>1, <2>2, <2>3, <2>4, <2>6, Twentieths DEF at_c2
    <3>. QED  BY <2>1, <2>3, <2>4, <3>1 DEF twenty
  <2>5. CASE ~twenty
    <3>1. at_c2(5)'
      BY <2>1, <2>2, <2>3, <2>5, <2>6 DEF at_c2, ordinary
    <3>. QED  BY <2>1, <2>3, <2>5, <3>1 DEF twenty
  <2>. QED  BY <2>4, <2>5
<1>3. ASSUME c_meanwhile(C2)
      PROVE  n = 4 /\ IF received(C2) = wakeup10 THEN at_c2(3)' ELSE at_c2(4)'
  <2>1. n = 4
    BY <1>1, <1>3 DEF c_meanwhile, has_message
  <2>6. DOMAIN hold[C2] = {"p"} /\ hold[C2]["p"].num % TWENTY = 0 /\ todo[C2] = << >>
    BY <2>1 DEF at_c2
  <2>2. received(C2) \in ReportsOf(C2) \cup {wakeup10}
    BY <1>0, <1>3, HeadTailProperties DEF Typed, Accepts, received, c_meanwhile, has_message
  <2>3. received(C2).type = "WAKEUP10" <=> received(C2) = wakeup10
    BY <2>2 DEF ReportsOf, Reports, wakeup10
  <2>4. CASE received(C2) = wakeup10
    <3>1. /\ hold'[C2] = with(hold[C2], "q", received(C2)) /\ todo'[C2] = << >>
          /\ hibernates' = hibernates \ {C2}
      BY <1>0, <1>3, <2>3, <2>4 DEF Typed, c_meanwhile, holds, does, wakeup_pointer
    <3>2. DOMAIN hold'[C2] = {"p", "q"} /\ hold'[C2]["p"] = hold[C2]["p"]
      BY <2>6, <3>1 DEF with
    <3>3. at_c2(3)'
      BY <2>6, <3>1, <3>2 DEF at_c2
    <3>. QED  BY <2>1, <2>4, <3>3
  <2>5. CASE received(C2) # wakeup10
    <3>1. hold' = hold /\ todo' = todo /\ hibernates' = hibernates
      BY <1>3, <2>3, <2>5 DEF c_meanwhile
    <3>2. at_c2(4)'
      BY <2>1, <3>1 DEF at_c2
    <3>. QED  BY <2>1, <2>5, <3>2
  <2>. QED  BY <2>1, <2>4, <2>5
<1>. QED  BY <1>2, <1>3
-----------------------------------------------------------------------------
\* A step of process p leaves every other process where it is in its program.
OnlyMoves(p) ==
    /\ \A q \in Processes \ {p} : todo'[q] = todo[q] /\ hold'[q] = hold[q]
    /\ \A a \in A \ {p} : num'[a] = num[a] /\ (a \in started' <=> a \in started)
    /\ \A c \in C \ {p} : c \in hibernates' <=> c \in hibernates

LEMMA OthersStay ==
    ASSUME Typed, AtWork, NEW p \in Pids, OnlyMoves(p),
           p \in A => \E n \in 1 .. 8 : at_a(p, n)',
           p \in B => \E n \in 1 .. 2 : at_b(p, n)',
           p = C1 => \E n \in 1 .. 6 : at_c1(n)',
           p = C2 => \E n \in 1 .. 8 : at_c2(n)'
    PROVE  AtWork'
<1>1. ASSUME NEW a \in A PROVE \E n \in 1 .. 8 : at_a(a, n)'
  <2>1. CASE a # p
    <3>1. /\ todo'[a] = todo[a] /\ hold'[a] = hold[a] /\ num'[a] = num[a]
          /\ a \in started' <=> a \in started
      BY <2>1 DEF OnlyMoves, Processes
    <3>2. PICK n \in 1 .. 8 : at_a(a, n)
      BY DEF AtWork
    <3>3. at_a(a, n)'
      BY <3>1, <3>2 DEF at_a
    <3>. QED  BY <3>3
  <2>. QED  BY <2>1
<1>2. ASSUME NEW b \in B PROVE \E n \in 1 .. 2 : at_b(b, n)'
  <2>1. CASE b # p
    <3>1. todo'[b] = todo[b] /\ hold'[b] = hold[b]
      BY <2>1 DEF OnlyMoves, Processes
    <3>2. PICK n \in 1 .. 2 : at_b(b, n)
      BY DEF AtWork
    <3>3. at_b(b, n)'
      BY <3>1, <3>2 DEF at_b
    <3>. QED  BY <3>3
  <2>. QED  BY <2>1
<1>3. \E n \in 1 .. 6 : at_c1(n)'
  <2>1. CASE C1 # p
    <3>1. /\ todo'[C1] = todo[C1] /\ hold'[C1] = hold[C1]
          /\ (C1 \in hibernates' <=> C1 \in hibernates)
      BY <2>1 DEF OnlyMoves, Processes, C
    <3>2. PICK n \in 1 .. 6 : at_c1(n)
      BY DEF AtWork
    <3>3. at_c1(n)'
      BY <3>1, <3>2 DEF at_c1
    <3>. QED  BY <3>3
  <2>. QED  BY <2>1
<1>4. \E n \in 1 .. 8 : at_c2(n)'
  <2>1. CASE C2 # p
    <3>1. /\ todo'[C2] = todo[C2] /\ hold'[C2] = hold[C2]
          /\ (C2 \in hibernates' <=> C2 \in hibernates)
      BY <2>1 DEF OnlyMoves, Processes, C
    <3>2. PICK n \in 1 .. 8 : at_c2(n)
      BY DEF AtWork
    <3>3. at_c2(n)'
      BY <3>1, <3>2 DEF at_c2
    <3>. QED  BY <3>3
  <2>. QED  BY <2>1
<1>. QED  BY <1>1, <1>2, <1>3, <1>4 DEF AtWork

LEMMA CallsAtWork ==
    ASSUME Typed, AtWork, NEW p \in Processes, Steps(p)
    PROVE  AtWork'
<1>1. OnlyMoves(p)
  BY CallEffects DEF OnlyMoves
<1>2. p \in Pids
  BY DEF Pids
<1>3. p \in A => \E n \in 1 .. 8 : at_a(p, n)'
  <2>1. SUFFICES ASSUME p \in A PROVE \E n \in 1 .. 8 : at_a(p, n)'
    OBVIOUS
  <2>2. PICK n \in 1 .. 8 : at_a(p, n)
    BY <2>1 DEF AtWork
  <2>3. \/ n \in {1, 2, 7} /\ at_a(p, n + 1)'
        \/ at_a(p, 4)' \/ at_a(p, 5)'
    BY <2>1, <2>2, CallsOfA
  <2>. QED  BY <2>3
<1>4. p \in B => \E n \in 1 .. 2 : at_b(p, n)'
  <2>1. SUFFICES ASSUME p \in B PROVE \E n \in 1 .. 2 : at_b(p, n)'
    OBVIOUS
  <2>2. PICK n \in 1 .. 2 : at_b(p, n)
    BY <2>1 DEF AtWork
  <2>3. at_b(p, 1)'
    BY <2>1, <2>2, CallsOfB
  <2>. QED  BY <2>3
<1>5. p = C1 => \E n \in 1 .. 6 : at_c1(n)'
  <2>1. SUFFICES ASSUME p = C1 PROVE \E n \in 1 .. 6 : at_c1(n)'
    OBVIOUS
  <2>2. PICK n \in 1 .. 6 : at_c1(n)
    BY <2>1 DEF AtWork
  <2>4. Steps(C1)
    BY <2>1
  <2>3. (n \in {3, 4} /\ at_c1(n + 1)') \/ at_c1(6)' \/ at_c1(1)'
    BY <2>2, <2>4, CallsOfC1
  <2>. QED  BY <2>3
<1>6. p = C2 => \E n \in 1 .. 8 : at_c2(n)'
  <2>1. SUFFICES ASSUME p = C2 PROVE \E n \in 1 .. 8 : at_c2(n)'
    OBVIOUS
  <2>2. PICK n \in 1 .. 8 : at_c2(n)
    BY <2>1 DEF AtWork
  <2>4. Steps(C2)
    BY <2>1
  <2>3. at_c2(2)' \/ at_c2(7)' \/ at_c2(8)' \/ at_c2(4)'
    BY <2>2, <2>4, CallsOfC2
  <2>. QED  BY <2>3
<1>. QED  BY <1>1, <1>2, <1>3, <1>4, <1>5, <1>6, OthersStay

LEMMA LoopsAtWork ==
    ASSUME Typed, AtWork
    PROVE  /\ \A a \in A : a_command(a) \/ a_report(a) => AtWork'
           /\ \A b \in B : process_b(b) => AtWork'
           /\ \A c \in C : c_report(c) \/ c_meanwhile(c) => AtWork'
<1>0. /\ \A p \in Processes : p \in Pids
      /\ \A p \in A : p \in Processes /\ p \notin B /\ p \notin C
      /\ \A p \in B : p \in Processes /\ p \notin A /\ p \notin C
      /\ \A p \in C : p \in Processes /\ p \notin A /\ p \notin B
      /\ C1 \in C /\ C2 \in C /\ C1 # C2
  BY StressAssumption DEF Processes, Pids, C
<1>1. ASSUME NEW a \in A, a_command(a) \/ a_report(a) PROVE AtWork'
  <2>1. OnlyMoves(a)
    BY <1>0, <1>1 DEF Typed, a_command, a_report, does, holds, OnlyMoves
  <2>2. PICK n \in 1 .. 8 : at_a(a, n)
    BY DEF AtWork
  <2>3. at_a(a, 6)' \/ at_a(a, 7)'
    BY <1>1, <2>2, LoopOfA
  <2>4. \E k \in 1 .. 8 : at_a(a, k)'
    BY <2>3
  <2>. QED  BY <1>0, <2>1, <2>4, OthersStay
<1>2. ASSUME NEW b \in B, process_b(b) PROVE AtWork'
  <2>1. OnlyMoves(b)
    BY <1>0, <1>2 DEF Typed, process_b, does, holds, OnlyMoves
  <2>2. PICK n \in 1 .. 2 : at_b(b, n)
    BY DEF AtWork
  <2>3. at_b(b, 2)'
    BY <1>2, <2>2, LoopOfB
  <2>4. \E k \in 1 .. 2 : at_b(b, k)'
    BY <2>3
  <2>. QED  BY <1>0, <2>1, <2>4, OthersStay
<1>3. ASSUME NEW c \in C, c_report(c) \/ c_meanwhile(c) PROVE AtWork'
  <2>1. OnlyMoves(c)
    <3>1. CASE c_report(c)
      BY <1>0, <3>1 DEF Typed, c_report, does, holds, OnlyMoves
    <3>2. CASE c_meanwhile(c)
      BY <1>0, <3>2 DEF Typed, c_meanwhile, does, holds, OnlyMoves
    <3>. QED  BY <1>3, <3>1, <3>2
  <2>2. CASE c = C1
    <3>1. PICK n \in 1 .. 6 : at_c1(n)
      BY DEF AtWork
    <3>2. c_report(C1) \/ c_meanwhile(C1)
      BY <1>3, <2>2
    <3>3. at_c1(1)' \/ at_c1(2)' \/ at_c1(3)'
      BY <3>1, <3>2, LoopOfC1
    <3>4. \E k \in 1 .. 6 : at_c1(k)'
      BY <3>3
    <3>. QED  BY <1>0, <2>1, <2>2, <3>4, OthersStay
  <2>3. CASE c = C2
    <3>1. PICK n \in 1 .. 8 : at_c2(n)
      BY DEF AtWork
    <3>2. c_report(C2) \/ c_meanwhile(C2)
      BY <1>3, <2>3
    <3>3. at_c2(3)' \/ at_c2(4)' \/ at_c2(5)' \/ at_c2(6)'
      BY <3>1, <3>2, LoopOfC2
    <3>4. \E k \in 1 .. 8 : at_c2(k)'
      BY <3>3
    <3>. QED  BY <1>0, <2>1, <2>3, <3>4, OthersStay
  <2>. QED  BY <2>2, <2>3 DEF C
<1>. QED  BY <1>1, <1>2, <1>3
-----------------------------------------------------------------------------
MailTyped == DOMAIN mailbox = Pids /\ \A p \in Pids : mailbox[p] \in Seq(Accepts(p))

LEMMA MailSent ==
    ASSUME Typed, NEW d \in Pids, NEW m \in Accepts(d),
           mailbox' = [mailbox EXCEPT ![d] = Append(@, m)]
    PROVE  MailTyped'
<1>1. Append(mailbox[d], m) \in Seq(Accepts(d))
  BY AppendProperties DEF Typed
<1>. QED  BY <1>1 DEF Typed, MailTyped

LEMMA MailTaken ==
    ASSUME Typed, NEW p \in Pids, mailbox[p] # << >>, take(p)
    PROVE  MailTyped' /\ Head(mailbox[p]) \in Accepts(p)
<1>1. Tail(mailbox[p]) \in Seq(Accepts(p)) /\ Head(mailbox[p]) \in Accepts(p)
  BY HeadTailProperties DEF Typed
<1>. QED  BY <1>1 DEF Typed, MailTyped, take

\* A message goes where its kind is expected.
LEMMA SentTo ==
    ASSUME Typed, AtWork, NEW p \in Processes, Send(p)
    PROVE  /\ Head(todo[p]).to \in Pids /\ Head(todo[p]).as \in Accepts(Head(todo[p]).to)
           /\ p \in A => \/ /\ Head(todo[p]) = send("command", "KCD", registration)
                            /\ at_a(p, 3) /\ at_a(p, 4)'
                         \/ /\ Head(todo[p]) = send("p", to_b[p], report(p, num[p] - 1))
                            /\ at_a(p, 8) /\ at_a(p, 5)'
           /\ p \in B => \E m \in Accepts(p) : Head(todo[p]) = send("mymess", to_c[p], m)
           /\ p = C1 => Head(todo[p]) = send("string", "CRT", text(1)) /\ at_c1(5) /\ at_c1(6)'
           /\ p = C2 => Head(todo[p]) = send("string", "CRT", text(0)) /\ at_c2(7) /\ at_c2(8)'
<1>0. /\ "KCD" \in Pids /\ "CRT" \in Pids /\ C1 # C2
      /\ \A q \in A \cup B \cup C : q \in Pids /\ q # "KCD" /\ q # "CRT"
      /\ \A q \in A : q \notin B /\ q \notin C
      /\ \A q \in B : q \notin A /\ q \notin C
      /\ \A q \in C : q \notin A /\ q \notin B
      /\ C1 \in C /\ C2 \in C
  BY StressAssumption DEF Processes, Pids, C
<1>1. Steps(p) /\ Head(todo[p]).op = "send"
  BY DEF Steps, Send, Calls
<1>2. CASE p \in A
  <2>1. PICK n \in 1 .. 8 : at_a(p, n)
    BY <1>2 DEF AtWork
  <2>2. n \in {3, 8}
    <3>1. Request(p) \/ Release(p) => FALSE
      BY <1>1 DEF Request, Release, Calls
    <3>2. n \notin {1, 2, 7} /\ n # 6 /\ n \in {1, 2, 3, 6, 7, 8}
      BY <1>1, <1>2, <2>1, <3>1, CallsOfA
    <3>. QED  BY <3>2
  <2>3. CASE n = 3
    <3>1. Head(todo[p]) = send("command", "KCD", registration) /\ at_a(p, 4)' /\ at_a(p, 3)
      BY <1>1, <1>2, <2>1, <2>3, CallsOfA
    <3>2. registration \in Accepts("KCD")
      BY <1>0 DEF Accepts
    <3>. QED  BY <1>0, <1>2, <3>1, <3>2 DEF send
  <2>4. CASE n = 8
    <3>1. /\ Head(todo[p]) = send("p", to_b[p], report(p, num[p] - 1)) /\ at_a(p, 5)'
          /\ at_a(p, 8)
      BY <1>1, <1>2, <2>1, <2>4, CallsOfA
    <3>2. num[p] > 0 /\ num[p] \in Nat
      BY <1>2, <3>1 DEF at_a, Typed
    <3>3. report(p, num[p] - 1) \in Reports /\ report(p, num[p] - 1).source = p
      BY <1>2, <3>2 DEF report, Reports
    <3>4. to_b[p] \in B
      BY <1>2, StressAssumption
    <3>5. report(p, num[p] - 1) \in Accepts(to_b[p])
      BY <1>0, <3>3, <3>4 DEF Accepts
    <3>6. /\ Head(todo[p]).to = to_b[p]
          /\ Head(todo[p]).as = report(p, num[p] - 1)
      BY <3>1 DEF send
    <3>. QED  BY <1>0, <1>2, <3>1, <3>4, <3>5, <3>6
  <2>. QED  BY <2>2, <2>3, <2>4
<1>3. CASE p \in B
  <2>1. PICK n \in 1 .. 2 : at_b(p, n)
    BY <1>3 DEF AtWork
  <2>2. PICK m \in Accepts(p) : todo[p] = <<send("mymess", to_c[p], m)>>
    BY <1>1, <1>3, <2>1, CallsOfB
  <2>3. Head(todo[p]) = send("mymess", to_c[p], m)
    BY <2>2
  <2>4. to_c[p] \in C
    BY <1>3, StressAssumption
  <2>5. m \in Reports /\ to_c[to_b[m.source]] = to_c[p]
    BY <1>0, <1>3 DEF Accepts
  <2>6. m \in Accepts(to_c[p])
    BY <1>0, <2>4, <2>5 DEF Accepts, ReportsOf
  <2>7. Head(todo[p]).to = to_c[p] /\ Head(todo[p]).as = m
    BY <2>3 DEF send
  <2>. QED  BY <1>0, <1>3, <2>3, <2>4, <2>6, <2>7
<1>4. CASE p = C1
  <2>1. PICK n \in 1 .. 6 : at_c1(n)
    BY DEF AtWork
  <2>2. Steps(C1) /\ Head(todo[C1]).op = "send"
    BY <1>1, <1>4
  <2>3. n = 5
    <3>1. Request(C1) \/ Release(C1) \/ DelayedSend(C1) => FALSE
      BY <2>2 DEF Request, Release, DelayedSend, Calls
    <3>2. n \notin {3, 4} /\ n # 6 /\ n # 2 /\ n # 1
      BY <2>1, <2>2, <3>1, CallsOfC1
    <3>. QED  BY <3>2
  <2>4. Head(todo[C1]) = send("string", "CRT", text(1)) /\ at_c1(6)' /\ at_c1(5)
    BY <2>1, <2>2, <2>3, CallsOfC1
  <2>5. text(1) \in Accepts("CRT")
    BY <1>0 DEF Accepts
  <2>6. Head(todo[C1]).to = "CRT" /\ Head(todo[C1]).as = text(1)
    BY <2>4 DEF send
  <2>. QED  BY <1>0, <1>4, <2>4, <2>5, <2>6
<1>5. CASE p = C2
  <2>1. PICK n \in 1 .. 8 : at_c2(n)
    BY DEF AtWork
  <2>2. Steps(C2) /\ Head(todo[C2]).op = "send"
    BY <1>1, <1>5
  <2>3. n = 7
    <3>1. Request(C2) \/ Release(C2) \/ DelayedSend(C2) => FALSE
      BY <2>2 DEF Request, Release, DelayedSend, Calls
    <3>2. n # 1 /\ n # 5 /\ n # 6 /\ n # 8 /\ n \in {1, 5, 6, 7, 8}
      BY <2>1, <2>2, <3>1, CallsOfC2
    <3>. QED  BY <3>2
  <2>4. Head(todo[C2]) = send("string", "CRT", text(0)) /\ at_c2(8)' /\ at_c2(7)
    BY <2>1, <2>2, <2>3, CallsOfC2
  <2>5. text(0) \in Accepts("CRT")
    BY <1>0 DEF Accepts
  <2>6. Head(todo[C2]).to = "CRT" /\ Head(todo[C2]).as = text(0)
    BY <2>4 DEF send
  <2>. QED  BY <1>0, <1>5, <2>4, <2>5, <2>6
<1>. QED  BY <1>2, <1>3, <1>4, <1>5 DEF Processes, C

LEMMA CallsTyped ==
    ASSUME Typed, AtWork, NEW p \in Processes, Steps(p), p \notin C => ~DelayedSend(p)
    PROVE  Typed'
<1>1. /\ UNCHANGED <<local, started, num, hibernates, handled, commands>>
      /\ DOMAIN todo' = Processes /\ DOMAIN hold' = Processes
  BY CallEffects
<1>2. free' \in Nat
  <2>1. free' = free \/ (free > 0 /\ free' = free - 1) \/ free' = free + 1
    BY DEF Steps, Request, Send, DelayedSend, Release
  <2>. QED  BY <2>1 DEF Typed
<1>3. MailTyped'
  <2>1. CASE Send(p)
    <3>1. /\ mailbox' = [mailbox EXCEPT ![Head(todo[p]).to] = Append(@, Head(todo[p]).as)]
      BY <2>1 DEF Send
    <3>2. Head(todo[p]).to \in Pids /\ Head(todo[p]).as \in Accepts(Head(todo[p]).to)
      BY <2>1, SentTo
    <3>. QED  BY <3>1, <3>2, MailSent
  <2>2. CASE mailbox' = mailbox
    BY <2>2 DEF Typed, MailTyped
  <2>. QED  BY <2>1, <2>2 DEF Steps, Request, DelayedSend, Release
<1>4. delayed' \subseteq C
  BY DEF Steps, Request, Send, DelayedSend, Release, Typed
<1>. QED  BY <1>1, <1>2, <1>3, <1>4 DEF Typed, MailTyped

LEMMA NoDelayedSend ==
    ASSUME Typed, AtWork, NEW p \in Processes, p \notin C, DelayedSend(p)
    PROVE  FALSE
<1>1. Steps(p) /\ Head(todo[p]).op = "delayed_send"
  BY DEF Steps, DelayedSend, Calls
<1>2. ~Request(p) /\ ~Send(p) /\ ~Release(p)
  BY <1>1 DEF Request, Send, Release, Calls
<1>3. CASE p \in A
  <2>1. PICK n \in 1 .. 8 : at_a(p, n)
    BY <1>3 DEF AtWork
  <2>2. n \notin {1, 2, 7} /\ n # 3 /\ n # 8 /\ n # 6 /\ n \in {1, 2, 3, 6, 7, 8}
    BY <1>1, <1>2, <1>3, <2>1, CallsOfA
  <2>. QED  BY <2>2
<1>4. CASE p \in B
  <2>1. PICK n \in 1 .. 2 : at_b(p, n)
    BY <1>4 DEF AtWork
  <2>. QED  BY <1>1, <1>2, <1>4, <2>1, CallsOfB
<1>. QED  BY <1>3, <1>4 DEF Processes

LEMMA OtherStepsTyped ==
    ASSUME Typed, AtWork, \A c \in C : WakesOnce(c)
    PROVE  /\ \A a \in A : a_command(a) \/ a_report(a) => Typed'
           /\ \A b \in B : process_b(b) => Typed'
           /\ \A c \in C : c_report(c) \/ c_meanwhile(c) \/ timer_expire(c) => Typed'
           /\ kcd_process \/ crt_process => Typed'
           /\ \A a \in A, own \in BOOLEAN : command(a, own) => Typed'
<1>0. /\ "KCD" \in Pids /\ "CRT" \in Pids /\ "KCD" # "CRT"
      /\ \A q \in A \cup B \cup C : q \in Pids /\ q \in Processes /\ q # "KCD" /\ q # "CRT"
      /\ "KCD" \notin A \cup B \cup C /\ "CRT" \notin A \cup B \cup C
      /\ \A q \in C : q \notin A /\ q \notin B
  BY StressAssumption DEF Processes, Pids
<1>1. ASSUME NEW a \in A, a_command(a) PROVE Typed'
  <2>1. MailTyped'
    BY <1>0, <1>1, MailTaken DEF a_command, has_message
  <2>. QED  BY <1>1, <2>1 DEF Typed, MailTyped, a_command, holds, does
<1>2. ASSUME NEW a \in A, a_report(a) PROVE Typed'
  BY <1>2 DEF Typed, a_report, does
<1>3. ASSUME NEW b \in B, process_b(b) PROVE Typed'
  <2>1. MailTyped'
    BY <1>0, <1>3, MailTaken DEF process_b, has_message
  <2>. QED  BY <1>3, <2>1 DEF Typed, MailTyped, process_b, holds, does
<1>4. ASSUME NEW c \in C, c_report(c) PROVE Typed'
  <2>1. (FromLocal(c) \/ FromMailbox(c)) /\ taken(c) \in ReportsOf(c)
    BY <1>4, Taken
  <2>2. MailTyped'
    <3>1. CASE FromLocal(c)
      BY <3>1 DEF FromLocal, Typed, MailTyped
    <3>2. CASE FromMailbox(c)
      BY <1>0, <3>2, MailTaken DEF FromMailbox
    <3>. QED  BY <2>1, <3>1, <3>2
  <2>3. DOMAIN local' = C /\ \A d \in C : local'[d] \in Seq(ReportsOf(d))
    <3>1. CASE FromLocal(c)
      <4>1. Tail(local[c]) \in Seq(ReportsOf(c))
        BY <3>1, HeadTailProperties DEF FromLocal, Typed
      <4>. QED  BY <3>1, <4>1 DEF FromLocal, Typed
    <3>2. CASE FromMailbox(c)
      BY <3>2 DEF FromMailbox, Typed
    <3>. QED  BY <2>1, <3>1, <3>2
  <2>4. DOMAIN handled' = C /\ \A d \in C : handled'[d] \in Seq(ReportsOf(d))
    <3>1. handled' = [handled EXCEPT ![c] = Append(@, taken(c))]
      BY <1>4 DEF c_report
    <3>2. Append(handled[c], taken(c)) \in Seq(ReportsOf(c))
      BY <2>1, AppendProperties DEF Typed
    <3>. QED  BY <3>1, <3>2 DEF Typed
  <2>5. /\ UNCHANGED <<free, delayed, started, num, commands>> /\ hibernates' \subseteq C
        /\ DOMAIN todo' = Processes /\ DOMAIN hold' = Processes
    BY <1>4 DEF c_report, holds, does, Typed
  <2>. QED  BY <2>2, <2>3, <2>4, <2>5 DEF Typed, MailTyped
<1>5. ASSUME NEW c \in C, c_meanwhile(c) PROVE Typed'
  <2>1. MailTyped' /\ received(c) \in Accepts(c)
    BY <1>0, <1>5, MailTaken DEF c_meanwhile, has_message, received
  <2>2. received(c) \in ReportsOf(c) \cup {wakeup10}
    BY <1>0, <2>1 DEF Accepts
  <2>3. DOMAIN local' = C /\ \A d \in C : local'[d] \in Seq(ReportsOf(d))
    <3>1. CASE received(c).type = "WAKEUP10"
      BY <1>5, <3>1 DEF c_meanwhile, Typed
    <3>2. CASE received(c).type # "WAKEUP10"
      <4>1. received(c) \in ReportsOf(c)
        BY <2>2, <3>2 DEF wakeup10
      <4>2. Append(local[c], received(c)) \in Seq(ReportsOf(c))
        BY <4>1, AppendProperties DEF Typed
      <4>3. local' = [local EXCEPT ![c] = Append(@, received(c))]
        BY <1>5, <3>2 DEF c_meanwhile
      <4>. QED  BY <4>2, <4>3 DEF Typed
    <3>. QED  BY <3>1, <3>2
  <2>4. /\ UNCHANGED <<free, delayed, started, num, handled, commands>> /\ hibernates' \subseteq C
        /\ DOMAIN todo' = Processes /\ DOMAIN hold' = Processes
    BY <1>5 DEF c_meanwhile, holds, does, Typed
  <2>. QED  BY <2>1, <2>3, <2>4 DEF Typed, MailTyped
<1>6. ASSUME NEW c \in C, timer_expire(c) PROVE Typed'
  <2>1. wakeup10 \in Accepts(c)
    BY <1>0 DEF Accepts
  <2>2. MailTyped'
    BY <1>0, <1>6, <2>1, MailSent DEF timer_expire
  <2>. QED  BY <1>6, <2>2 DEF Typed, MailTyped, timer_expire, others
<1>7. ASSUME kcd_process PROVE Typed'
  <2>1. /\ Tail(mailbox["KCD"]) \in Seq(Accepts("KCD"))
        /\ Append(mailbox["CRT"], text(0)) \in Seq(Accepts("CRT"))
    <3>1. text(0) \in Accepts("CRT")
      BY <1>0 DEF Accepts
    <3>. QED  BY <1>0, <1>7, <3>1, HeadTailProperties, AppendProperties DEF Typed, kcd_process
  <2>2. /\ DOMAIN mailbox' = Pids /\ mailbox'["KCD"] = Tail(mailbox["KCD"])
        /\ mailbox'["CRT"] = Append(mailbox["CRT"], text(0))
        /\ \A p \in Pids \ {"KCD", "CRT"} : mailbox'[p] = mailbox[p]
    BY <1>0, <1>7 DEF kcd_process, Typed
  <2>3. MailTyped'
    BY <2>1, <2>2 DEF Typed, MailTyped
  <2>. QED  BY <1>7, <2>3 DEF Typed, MailTyped, kcd_process, others
<1>8. ASSUME crt_process PROVE Typed'
  <2>1. MailTyped' /\ Head(mailbox["CRT"]) \in Accepts("CRT")
    BY <1>0, <1>8, MailTaken DEF crt_process, take
  <2>2. Head(mailbox["CRT"]).returns \in {0, 1}
    BY <1>0, <2>1 DEF Accepts, text
  <2>3. free' \in Nat
    BY <1>8, <2>2 DEF crt_process, Typed
  <2>. QED  BY <1>8, <2>1, <2>3 DEF Typed, MailTyped, crt_process, others
<1>9. ASSUME NEW a \in A, NEW own \in BOOLEAN, command(a, own) PROVE Typed'
  <2> DEFINE m == [type |-> "COMMAND", own |-> own]
  <2>1. /\ Append(mailbox[a], m) \in Seq(Accepts(a))
        /\ Append(mailbox["CRT"], text(1)) \in Seq(Accepts("CRT"))
    <3>1. m \in Accepts(a) /\ text(1) \in Accepts("CRT")
      BY <1>0 DEF Accepts, Commands
    <3>. QED  BY <1>0, <3>1, AppendProperties DEF Typed
  <2>2. MailTyped'
    <3>1. /\ a # "CRT" /\ DOMAIN mailbox' = Pids /\ mailbox'[a] = Append(mailbox[a], m)
          /\ mailbox'["CRT"] = Append(mailbox["CRT"], text(1))
          /\ \A p \in Pids \ {a, "CRT"} : mailbox'[p] = mailbox[p]
      BY <1>0, <1>9 DEF command, Typed
    <3>. QED  BY <2>1, <3>1 DEF Typed, MailTyped
  <2>3. free' \in Nat /\ commands' \in Nat
    BY <1>9 DEF command, Typed
  <2>. QED  BY <1>9, <2>2, <2>3 DEF Typed, MailTyped, command, others
<1>. QED  BY <1>1, <1>2, <1>3, <1>4, <1>5, <1>6, <1>7, <1>8, <1>9
-----------------------------------------------------------------------------
\* The places in q of the messages of M, and how many there are.
marks(q, M) == {i \in DOMAIN q : q[i] \in M}

LEMMA MarksAppend ==
    ASSUME NEW S, NEW q \in Seq(S), NEW m \in S, NEW M
    PROVE  marks(Append(q, m), M)
             = IF m \in M THEN marks(q, M) \cup {Len(q) + 1} ELSE marks(q, M)
<1> DEFINE r == Append(q, m)
<1>1. Len(q) \in Nat /\ DOMAIN q = 1 .. Len(q)
  BY LenProperties
<1>2. /\ r \in Seq(S) /\ Len(r) = Len(q) + 1 /\ r[Len(q) + 1] = m
      /\ \A i \in 1 .. Len(q) : r[i] = q[i]
  BY AppendProperties
<1>3. DOMAIN r = 1 .. Len(r)
  BY <1>2, LenProperties
<1>. HIDE DEF r
<1>4. \A i : i \in marks(r, M) <=> i \in marks(q, M) \/ (i = Len(q) + 1 /\ m \in M)
  BY <1>1, <1>2, <1>3 DEF marks
<1>5. marks(r, M) = IF m \in M THEN marks(q, M) \cup {Len(q) + 1} ELSE marks(q, M)
  BY <1>4
<1>. QED  BY <1>5 DEF r

LEMMA MarksTail ==
    ASSUME NEW S, NEW q \in Seq(S), q # << >>, NEW M
    PROVE  /\ \A i : i \in marks(Tail(q), M) <=> i \in Nat \ {0} /\ i + 1 \in marks(q, M)
           /\ 1 \in marks(q, M) <=> Head(q) \in M
           /\ marks(q, M) \subseteq Nat \ {0}
<1> DEFINE r == Tail(q)
<1>1. Len(q) \in Nat \ {0} /\ DOMAIN q = 1 .. Len(q)
  BY EmptySeq, LenProperties
<1>2. /\ r \in Seq(S) /\ Len(r) = Len(q) - 1
      /\ \A i \in 1 .. Len(r) : r[i] = q[i + 1]
  BY HeadTailProperties
<1>3. DOMAIN r = 1 .. Len(r)
  BY <1>2, LenProperties
<1>4. Head(q) = q[1]
  OBVIOUS
<1>. HIDE DEF r
<1>5. ASSUME NEW i PROVE i \in marks(r, M) <=> i \in Nat \ {0} /\ i + 1 \in marks(q, M)
  <2>1. CASE i \in Nat
    BY <1>1, <1>2, <1>3, <2>1 DEF marks
  <2>2. CASE i \notin Nat
    BY <1>1, <1>2, <1>3, <2>2 DEF marks
  <2>. QED  BY <2>1, <2>2
<1>6. 1 \in marks(q, M) <=> Head(q) \in M
  BY <1>1, <1>4 DEF marks
<1>7. marks(q, M) \subseteq Nat \ {0}
  BY <1>1 DEF marks
<1>. QED  BY <1>5, <1>6, <1>7 DEF r

LEMMA MarksCount ==
    ASSUME NEW S, NEW q \in Seq(S), NEW M
    PROVE  /\ IsFiniteSet(marks(q, M)) /\ Cardinality(marks(q, M)) \in Nat
           /\ \A m \in S : Cardinality(marks(Append(q, m), M))
                             = Cardinality(marks(q, M)) + one_if(m \in M)
           /\ q # << >> => Cardinality(marks(Tail(q), M))
                             = Cardinality(marks(q, M)) - one_if(Head(q) \in M)
<1>1. Len(q) \in Nat /\ DOMAIN q = 1 .. Len(q)
  BY LenProperties
<1>2. IsFiniteSet(marks(q, M)) /\ Cardinality(marks(q, M)) \in Nat
  <2>1. IsFiniteSet(1 .. Len(q))
    BY <1>1, FS_Interval
  <2>2. marks(q, M) \in SUBSET (1 .. Len(q))
    BY <1>1 DEF marks
  <2>. QED  BY <2>1, <2>2, FS_Subset, FS_CardinalityType
<1>3. ASSUME NEW m \in S
      PROVE  Cardinality(marks(Append(q, m), M)) = Cardinality(marks(q, M)) + one_if(m \in M)
  <2>1. CASE m \in M
    <3>1. marks(Append(q, m), M) = marks(q, M) \cup {Len(q) + 1}
      BY <2>1, MarksAppend
    <3>2. Len(q) + 1 \notin marks(q, M)
      BY <1>1 DEF marks
    <3>3. Cardinality(marks(q, M) \cup {Len(q) + 1}) = Cardinality(marks(q, M)) + 1
      BY <1>2, <3>2, FS_AddElement
    <3>. QED  BY <2>1, <3>1, <3>3 DEF one_if
  <2>2. CASE m \notin M
    <3>1. marks(Append(q, m), M) = marks(q, M)
      BY <2>2, MarksAppend
    <3>. QED  BY <1>2, <2>2, <3>1 DEF one_if
  <2>. QED  BY <2>1, <2>2
<1>4. ASSUME q # << >>
      PROVE  Cardinality(marks(Tail(q), M)) = Cardinality(marks(q, M)) - one_if(Head(q) \in M)
  <2> DEFINE K == marks(q, M)
             T == marks(Tail(q), M)
             f == [i \in T |-> i + 1]
  <2>1. /\ \A i : i \in T <=> i \in Nat \ {0} /\ i + 1 \in K
        /\ 1 \in K <=> Head(q) \in M
        /\ K \subseteq Nat \ {0}
    BY <1>4, MarksTail
  <2>2. IsFiniteSet(K) /\ Cardinality(K) \in Nat
    BY <1>2
  <2>3. IsFiniteSet(T)
    <3>1. Tail(q) \in Seq(S)
      BY <1>4, HeadTailProperties
    <3>2. Len(Tail(q)) \in Nat /\ DOMAIN Tail(q) = 1 .. Len(Tail(q))
      BY <3>1, LenProperties
    <3>3. IsFiniteSet(1 .. Len(Tail(q)))
      BY <3>2, FS_Interval
    <3>4. T \in SUBSET (1 .. Len(Tail(q)))
      BY <3>2 DEF marks
    <3>. QED  BY <3>3, <3>4, FS_Subset
  <2>. HIDE DEF K, T
  <2>4. f \in Bijection(T, K \ {1})
    <3>1. f \in [T -> K \ {1}]
      BY <2>1
    <3>2. \A i, j \in T : f[i] = f[j] => i = j
      BY <2>1
    <3>3. ASSUME NEW k \in K \ {1} PROVE \E i \in T : f[i] = k
      <4>1. k - 1 \in Nat \ {0} /\ (k - 1) + 1 = k
        BY <2>1
      <4>2. k - 1 \in T
        BY <2>1, <4>1
      <4>. QED  BY <4>1, <4>2
    <3>. QED  BY <3>1, <3>2, <3>3 DEF Bijection, Injection, Surjection, IsInjective
  <2>5. Cardinality(T) = Cardinality(K \ {1})
    BY <2>3, <2>4, FS_Bijection DEF ExistsBijection
  <2>6. Cardinality(K \ {1}) = IF 1 \in K THEN Cardinality(K) - 1 ELSE Cardinality(K)
    BY <2>2, FS_RemoveElement
  <2>7. Cardinality(T) = Cardinality(K) - one_if(Head(q) \in M)
    <3>1. CASE Head(q) \in M
      BY <2>1, <2>2, <2>5, <2>6, <3>1 DEF one_if
    <3>2. CASE Head(q) \notin M
      BY <2>1, <2>2, <2>5, <2>6, <3>2 DEF one_if
    <3>. QED  BY <3>1, <3>2
  <2>. QED  BY <2>7 DEF K, T
<1>. QED  BY <1>2, <1>3, <1>4
-----------------------------------------------------------------------------
\* How the WAKEUP10 on its way gets on.
LEMMA Wakeups ==
    ASSUME Typed, NEW c \in C
    PROVE  wakeups(c) = marks(mailbox[c], {wakeup10})
BY DEF wakeups, marks

WakesAsBefore(c) ==
    /\ c \in hibernates' <=> c \in hibernates
    /\ c \in delayed' <=> c \in delayed
    /\ todo'[c] = todo[c]

LEMMA StillWakes ==
    ASSUME Typed, NEW c \in C, WakesOnce(c), WakesAsBefore(c), wakeups(c)' = wakeups(c)
    PROVE  WakesOnce(c)'
BY DEF WakesOnce, WakesAsBefore

LEMMA CallsWake ==
    ASSUME Typed, AtWork, NEW p \in Processes, Steps(p), NEW c \in C, WakesOnce(c)
    PROVE  WakesOnce(c)'
<1>0. /\ c \in Pids /\ c \in Processes /\ c \notin A /\ c \notin B /\ C1 # C2
      /\ c # "CRT" /\ c # "KCD"
  BY StressAssumption DEF Processes, Pids, C
<1>1. /\ todo[p] # << >> /\ hibernates' = hibernates
      /\ \A q \in Processes \ {p} : todo'[q] = todo[q]
  BY CallEffects
<1>2. wakeups(c)' = wakeups(c)
  <2>1. CASE Send(p)
    <3> DEFINE d == Head(todo[p]).to
               m == Head(todo[p]).as
    <3>1. mailbox' = [mailbox EXCEPT ![d] = Append(@, m)] /\ d \in Pids /\ m \in Accepts(d)
      BY <2>1, SentTo DEF Send
    <3>2. CASE d # c
      BY <1>0, <3>1, <3>2 DEF wakeups, Typed
    <3>3. CASE d = c
      <4>1. p \notin A
        <5>1. ASSUME p \in A PROVE FALSE
          <6>1. d = "KCD" \/ d = to_b[p]
            <7>1. \/ Head(todo[p]) = send("command", "KCD", registration)
                  \/ Head(todo[p]) = send("p", to_b[p], report(p, num[p] - 1))
              BY <2>1, <5>1, SentTo
            <7>. QED  BY <7>1 DEF send
          <6>2. to_b[p] \in B
            BY <5>1, StressAssumption
          <6>. QED  BY <1>0, <3>3, <6>1, <6>2
        <5>. QED  BY <5>1
      <4>2. p # C1 /\ p # C2
        <5>1. p = C1 \/ p = C2 => \E n \in {0, 1} : Head(todo[p]) = send("string", "CRT", text(n))
          BY <2>1, SentTo
        <5>2. p = C1 \/ p = C2 => d = "CRT"
          BY <5>1 DEF send
        <5>. QED  BY <1>0, <3>3, <5>2
      <4>3. p \in B
        BY <4>1, <4>2 DEF Processes, C
      <4>4. m \in Accepts(p)
        <5>1. PICK x \in Accepts(p) : Head(todo[p]) = send("mymess", to_c[p], x)
          BY <2>1, <4>3, SentTo
        <5>. QED  BY <5>1 DEF send
      <4>5. m # wakeup10
        BY <4>1, <4>3, <4>4 DEF Accepts, Reports, wakeup10
      <4>6. mailbox'[c] = Append(mailbox[c], m) /\ mailbox[c] \in Seq(Accepts(c)) /\ m \in Accepts(c)
        BY <1>0, <3>1, <3>3 DEF Typed
      <4>7. marks(mailbox'[c], {wakeup10}) = marks(mailbox[c], {wakeup10})
        BY <4>5, <4>6, MarksAppend
      <4>. QED  BY <4>7 DEF wakeups, marks
    <3>. QED  BY <3>2, <3>3
  <2>2. CASE mailbox' = mailbox
    BY <2>2 DEF wakeups
  <2>. QED  BY <2>1, <2>2 DEF Steps, Request, DelayedSend, Release
<1>3. CASE p # c
  <2>1. delayed' = delayed \/ delayed' = delayed \cup {p}
    BY DEF Steps, Request, Send, DelayedSend, Release
  <2>2. WakesAsBefore(c)
    BY <1>0, <1>1, <1>3, <2>1 DEF WakesAsBefore
  <2>. QED  BY <1>2, <2>2, StillWakes
<1>4. CASE p = c
  <2>1. c \notin delayed /\ wakeups(c) = {}
    BY <1>1, <1>4 DEF WakesOnce
  <2>2. CASE DelayedSend(c)
    <3>1. Head(todo[c]).op = "delayed_send"
      BY <2>2 DEF DelayedSend, Calls
    <3>2. ~Request(c) /\ ~Send(c) /\ ~Release(c)
      BY <3>1 DEF Request, Send, Release, Calls
    <3>3. todo'[c] = << >> /\ c \in hibernates'
      <4>1. CASE c = C1
        <5>1. PICK n \in 1 .. 6 : at_c1(n)
          BY DEF AtWork
        <5>2. Steps(C1) /\ ~Request(C1) /\ ~Send(C1) /\ ~Release(C1)
          BY <1>4, <3>2, <4>1
        <5>3. n = 6 /\ at_c1(1)'
          <6>1. n \notin {3, 4} /\ n # 5 /\ n # 2 /\ n # 1
            BY <5>1, <5>2, CallsOfC1
          <6>2. n = 6
            BY <6>1
          <6>. QED  BY <5>1, <5>2, <6>2, CallsOfC1
        <5>4. todo'[C1] = << >> /\ C1 \in hibernates
          BY <5>1, <5>3 DEF at_c1
        <5>. QED  BY <1>1, <4>1, <5>4
      <4>2. CASE c = C2
        <5>1. PICK n \in 1 .. 8 : at_c2(n)
          BY DEF AtWork
        <5>2. Steps(C2) /\ ~Request(C2) /\ ~Send(C2) /\ ~Release(C2)
          BY <1>4, <3>2, <4>2
        <5>3. n = 8 /\ at_c2(4)'
          <6>1. n # 1 /\ n # 5 /\ n # 6 /\ n # 7 /\ n \in {1, 5, 6, 7, 8}
            BY <5>1, <5>2, CallsOfC2
          <6>2. n = 8
            BY <6>1
          <6>. QED  BY <5>1, <5>2, <6>2, CallsOfC2
        <5>4. todo'[C2] = << >> /\ C2 \in hibernates
          BY <5>1, <5>3 DEF at_c2
        <5>. QED  BY <1>1, <4>2, <5>4
      <4>. QED  BY <4>1, <4>2 DEF C
    <3>4. c \in delayed'
      BY <2>2 DEF DelayedSend
    <3>. QED  BY <1>2, <2>1, <3>3, <3>4 DEF WakesOnce
  <2>3. CASE ~DelayedSend(c)
    <3>1. delayed' = delayed
      BY <1>4, <2>3 DEF Steps, Request, Send, Release
    <3>2. c \notin hibernates' \/ todo'[c] # << >>
      <4>1. CASE c = C1
        <5>1. PICK n \in 1 .. 6 : at_c1(n)
          BY DEF AtWork
        <5>2. Steps(C1) /\ ~DelayedSend(C1)
          BY <1>4, <2>3, <4>1
        <5>3. at_c1(4)' \/ at_c1(5)' \/ at_c1(6)' \/ n = 2
          <6>1. n \in {3, 4} => at_c1(n + 1)'
            BY <5>1, <5>2, CallsOfC1
          <6>2. n = 5 => at_c1(6)'
            BY <5>1, <5>2, CallsOfC1
          <6>3. n # 6 /\ n # 1
            BY <5>1, <5>2, CallsOfC1
          <6>. QED  BY <6>1, <6>2, <6>3
        <5>4. at_c1(4)' \/ at_c1(5)' \/ at_c1(6)' => todo'[C1] # << >>
          <6>1. at_c1(4)' => todo'[C1] # << >>
            BY DEF at_c1
          <6>2. at_c1(5)' => todo'[C1] # << >>
            <7>1. at_c1(5)' => \E x, y : todo'[C1] = <<x, y>>
              BY DEF at_c1
            <7>2. \A x, y : <<x, y>> # << >>
              <8>1. \A x, y : Len(<<x, y>>) = 2 /\ Len(<< >>) = 0
                OBVIOUS
              <8>. QED  BY <8>1
            <7>. QED  BY <7>1, <7>2
          <6>3. at_c1(6)' => todo'[C1] # << >>
            BY DEF at_c1
          <6>. QED  BY <6>1, <6>2, <6>3
        <5>5. n = 2 => C1 \notin hibernates
          BY <5>1 DEF at_c1
        <5>. QED  BY <1>1, <4>1, <5>3, <5>4, <5>5
      <4>2. CASE c = C2
        <5>1. PICK n \in 1 .. 8 : at_c2(n)
          BY DEF AtWork
        <5>2. Steps(C2) /\ ~DelayedSend(C2)
          BY <1>4, <2>3, <4>2
        <5>3. at_c2(2)' \/ at_c2(7)' \/ at_c2(8)'
          BY <5>1, <5>2, CallsOfC2
        <5>4. at_c2(7)' \/ at_c2(8)' => todo'[C2] # << >>
          <6>1. at_c2(7)' => todo'[C2] # << >>
            <7>1. \A x, y : Len(<<x, y>>) = 2 /\ Len(<< >>) = 0
              OBVIOUS
            <7>2. at_c2(7)' => todo'[C2] = <<send("string", "CRT", text(0)), delayed_send("q")>>
              BY DEF at_c2
            <7>. QED  BY <7>1, <7>2
          <6>2. at_c2(8)' => todo'[C2] # << >>
            BY DEF at_c2
          <6>. QED  BY <6>1, <6>2
        <5>5. at_c2(2)' => C2 \notin hibernates'
          BY DEF at_c2
        <5>. QED  BY <4>2, <5>3, <5>4, <5>5
      <4>. QED  BY <4>1, <4>2 DEF C
    <3>. QED  BY <1>2, <2>1, <3>1, <3>2 DEF WakesOnce
  <2>. QED  BY <2>2, <2>3
<1>. QED  BY <1>3, <1>4

LEMMA OtherStepsWake ==
    ASSUME Typed, AtWork, \A c \in C : WakesOnce(c), NEW c \in C
    PROVE  /\ \A a \in A : a_command(a) \/ a_report(a) => WakesOnce(c)'
           /\ \A b \in B : process_b(b) => WakesOnce(c)'
           /\ \A d \in C : c_report(d) \/ c_meanwhile(d) \/ timer_expire(d) => WakesOnce(c)'
           /\ kcd_process \/ crt_process => WakesOnce(c)'
           /\ \A a \in A, own \in BOOLEAN : command(a, own) => WakesOnce(c)'
<1>0. /\ c # "KCD" /\ c # "CRT" /\ c \in Pids /\ c \in Processes
      /\ \A p \in C : p \notin A /\ p \notin B /\ p \in Pids /\ p \in Processes
  BY StressAssumption DEF Processes, Pids
<1>1. ASSUME mailbox'[c] = mailbox[c], WakesAsBefore(c) PROVE WakesOnce(c)'
  BY <1>1, StillWakes DEF wakeups
<1>2. ASSUME NEW a \in A, a_command(a) \/ a_report(a) PROVE WakesOnce(c)'
  BY <1>0, <1>1, <1>2 DEF a_command, a_report, take, does, WakesAsBefore, Typed
<1>3. ASSUME NEW b \in B, process_b(b) PROVE WakesOnce(c)'
  BY <1>0, <1>1, <1>3 DEF process_b, take, does, WakesAsBefore, Typed
<1>4. ASSUME NEW d \in C, c_report(d) PROVE WakesOnce(c)'
  <2>1. d \notin hibernates /\ d \notin delayed /\ wakeups(d) = {} /\ delayed' = delayed
    BY <1>4 DEF c_report, WakesOnce
  <2>2. FromLocal(d) \/ FromMailbox(d)
    BY <1>4, Taken
  <2>3. CASE c # d
    <3>1. mailbox'[c] = mailbox[c]
      BY <1>0, <2>2, <2>3 DEF FromLocal, FromMailbox, take, Typed
    <3>2. WakesAsBefore(c)
      BY <1>0, <1>4, <2>3 DEF c_report, does, WakesAsBefore, Typed
    <3>. QED  BY <1>1, <3>1, <3>2
  <2>4. CASE c = d
    <3>1. wakeups(c)' = {}
      <4>1. CASE FromLocal(d)
        BY <2>1, <2>4, <4>1 DEF FromLocal, wakeups
      <4>2. CASE FromMailbox(d)
        <5>1. mailbox[c] \in Seq(Accepts(c)) /\ mailbox[c] # << >> /\ mailbox'[c] = Tail(mailbox[c])
          BY <1>0, <2>4, <4>2 DEF FromMailbox, take, Typed
        <5>2. marks(mailbox[c], {wakeup10}) = {}
          BY <2>1, <2>4 DEF marks, wakeups
        <5>3. marks(mailbox'[c], {wakeup10}) = {}
          BY <5>1, <5>2, MarksTail
        <5>. QED  BY <5>3 DEF marks, wakeups
      <4>. QED  BY <2>2, <4>1, <4>2
    <3>2. c \notin hibernates' \/ todo'[c] # << >>
      <4>1. /\ hibernates' = IF taken(d).num % TWENTY = 0 THEN hibernates \cup {d}
                             ELSE hibernates
            /\ todo'[d] = IF taken(d).num % TWENTY = 0 THEN twentieth(d) ELSE ordinary
        BY <1>0, <1>4 DEF c_report, does, Typed
      <4>2. twentieth(C1) # << >> /\ twentieth(C2) # << >>
        BY Twentieths
      <4>. QED  BY <2>1, <2>4, <4>1, <4>2 DEF C
    <3>. QED  BY <2>1, <2>4, <3>1, <3>2 DEF WakesOnce
  <2>. QED  BY <2>3, <2>4
<1>5. ASSUME NEW d \in C, c_meanwhile(d) PROVE WakesOnce(c)'
  <2>1. /\ d \in hibernates /\ todo[d] = << >> /\ mailbox[d] # << >> /\ delayed' = delayed
        /\ mailbox' = [mailbox EXCEPT ![d] = Tail(@)] /\ received(d) = Head(mailbox[d])
    BY <1>5 DEF c_meanwhile, has_message, idle, take, received
  <2>2. CASE c # d
    <3>1. mailbox'[c] = mailbox[c]
      BY <1>0, <2>1, <2>2 DEF Typed
    <3>2. WakesAsBefore(c)
      BY <1>0, <1>5, <2>2 DEF c_meanwhile, does, WakesAsBefore, Typed
    <3>. QED  BY <1>1, <3>1, <3>2
  <2>3. CASE c = d
    <3>1. mailbox[c] \in Seq(Accepts(c)) /\ mailbox[c] # << >> /\ mailbox'[c] = Tail(mailbox[c])
      BY <1>0, <2>1, <2>3 DEF Typed
    <3> DEFINE K == marks(mailbox[c], {wakeup10})
               T == marks(mailbox'[c], {wakeup10})
    <3>2. /\ \A i : i \in T <=> i \in Nat \ {0} /\ i + 1 \in K
          /\ 1 \in K <=> received(c) = wakeup10
          /\ K \subseteq Nat \ {0}
      BY <2>1, <2>3, <3>1, MarksTail
    <3>3. wakeups(c) = K /\ wakeups(c)' = T
      BY DEF wakeups, marks
    <3>. HIDE DEF K, T
    <3>4. received(c) \in ReportsOf(c) \cup {wakeup10}
      BY <1>0, <2>1, <2>3, <3>1, HeadTailProperties DEF Accepts
    <3>5. received(c).type = "WAKEUP10" <=> received(c) = wakeup10
      BY <3>4 DEF ReportsOf, Reports, wakeup10
    <3>6. IF c \in delayed THEN K = {} ELSE \E i \in Nat : K = {i}
      BY <2>1, <2>3, <3>3 DEF WakesOnce
    <3>7. CASE received(c) = wakeup10
      <4>1. c \notin delayed /\ T = {}
        BY <3>2, <3>6, <3>7
      <4>2. c \notin hibernates'
        BY <1>5, <2>3, <3>5, <3>7 DEF c_meanwhile
      <4>. QED  BY <2>1, <3>3, <4>1, <4>2 DEF WakesOnce
    <3>8. CASE received(c) # wakeup10
      <4>1. hibernates' = hibernates /\ todo' = todo
        BY <1>5, <2>3, <3>5, <3>8 DEF c_meanwhile
      <4>2. CASE c \in delayed
        <5>1. T = {}
          BY <3>2, <3>6, <4>2
        <5>. QED  BY <2>1, <2>3, <3>3, <4>1, <4>2, <5>1 DEF WakesOnce
      <4>3. CASE c \notin delayed
        <5>1. PICK i \in Nat : K = {i}
          BY <3>6, <4>3
        <5>2. i # 1 /\ i # 0
          BY <3>2, <3>8, <5>1
        <5>3. i - 1 \in Nat \ {0} /\ \A j \in Nat : j + 1 = i <=> j = i - 1
          BY <5>2
        <5>4. T = {i - 1}
          BY <3>2, <5>1, <5>3
        <5>. QED  BY <2>1, <2>3, <3>3, <4>1, <4>3, <5>3, <5>4 DEF WakesOnce
      <4>. QED  BY <4>2, <4>3
    <3>. QED  BY <3>7, <3>8
  <2>. QED  BY <2>2, <2>3
<1>6. ASSUME NEW d \in C, timer_expire(d) PROVE WakesOnce(c)'
  <2>1. /\ d \in delayed /\ delayed' = delayed \ {d}
        /\ mailbox' = [mailbox EXCEPT ![d] = Append(@, wakeup10)]
        /\ hibernates' = hibernates /\ todo' = todo
    BY <1>6 DEF timer_expire, others
  <2>2. CASE c # d
    <3>1. mailbox'[c] = mailbox[c]
      BY <1>0, <2>1, <2>2 DEF Typed
    <3>2. WakesAsBefore(c)
      BY <2>1, <2>2 DEF WakesAsBefore
    <3>. QED  BY <1>1, <3>1, <3>2
  <2>3. CASE c = d
    <3>1. c \in hibernates /\ todo[c] = << >> /\ wakeups(c) = {}
      BY <2>1, <2>3 DEF WakesOnce
    <3>2. /\ mailbox[c] \in Seq(Accepts(c)) /\ wakeup10 \in Accepts(c)
          /\ mailbox'[c] = Append(mailbox[c], wakeup10)
      BY <1>0, <2>1, <2>3 DEF Typed, Accepts
    <3>3. marks(mailbox'[c], {wakeup10}) = marks(mailbox[c], {wakeup10}) \cup {Len(mailbox[c]) + 1}
      BY <3>2, MarksAppend
    <3>4. marks(mailbox[c], {wakeup10}) = {}
      BY <3>1 DEF marks, wakeups
    <3>5. wakeups(c)' = {Len(mailbox[c]) + 1}
      BY <3>3, <3>4 DEF marks, wakeups
    <3>6. Len(mailbox[c]) + 1 \in Nat
      BY <3>2, LenProperties
    <3>. QED  BY <2>1, <2>3, <3>1, <3>5, <3>6 DEF WakesOnce
  <2>. QED  BY <2>2, <2>3
<1>7. ASSUME kcd_process \/ crt_process PROVE WakesOnce(c)'
  BY <1>0, <1>1, <1>7 DEF kcd_process, crt_process, others, WakesAsBefore, Typed
<1>8. ASSUME NEW a \in A, NEW own \in BOOLEAN, command(a, own) PROVE WakesOnce(c)'
  BY <1>0, <1>1, <1>8 DEF command, others, WakesAsBefore, Typed
<1>. QED  BY <1>2, <1>3, <1>4, <1>5, <1>6, <1>7, <1>8
-----------------------------------------------------------------------------
\* What becomes of the order of the reports of a when messages are put at the end
\* of a queue and taken from its front.
made_by(a, m) == m.type = "COUNT_REPORT" /\ m.source = a

LEMMA ReportsAppended ==
    ASSUME NEW S, NEW q \in Seq(S), NEW m \in S, NEW a
    PROVE  /\ reports_of(a, Append(q, m))
                = IF made_by(a, m) THEN reports_of(a, q) \cup {Len(q) + 1} ELSE reports_of(a, q)
           /\ reports_of(a, q) \subseteq 1 .. Len(q) /\ Len(q) \in Nat
           /\ Append(q, m)[Len(q) + 1] = m /\ \A i \in 1 .. Len(q) : Append(q, m)[i] = q[i]
<1> DEFINE M == {x \in S : made_by(a, x)}
<1>1. /\ Append(q, m)[Len(q) + 1] = m /\ \A i \in 1 .. Len(q) : Append(q, m)[i] = q[i]
      /\ Append(q, m) \in Seq(S)
  BY AppendProperties
<1>2. \A r \in Seq(S) : reports_of(a, r) = marks(r, M)
  <2>. TAKE r \in Seq(S)
  <2>1. \A i \in DOMAIN r : r[i] \in S
    BY LenProperties, ElementOfSeq
  <2>. QED  BY <2>1 DEF reports_of, marks, made_by
<1>3. m \in M <=> made_by(a, m)
  OBVIOUS
<1>. HIDE DEF M
<1>4. marks(Append(q, m), M) = IF m \in M THEN marks(q, M) \cup {Len(q) + 1} ELSE marks(q, M)
  BY MarksAppend
<1>5. reports_of(a, q) \subseteq 1 .. Len(q) /\ Len(q) \in Nat
  BY LenProperties DEF reports_of
<1>6. reports_of(a, Append(q, m)) = marks(Append(q, m), M) /\ reports_of(a, q) = marks(q, M)
  BY <1>1, <1>2
<1>. QED  BY <1>1, <1>3, <1>4, <1>5, <1>6

LEMMA ReportsTail ==
    ASSUME NEW S, NEW q \in Seq(S), q # << >>, NEW a
    PROVE  /\ \A i : i \in reports_of(a, Tail(q)) <=> i \in Nat \ {0} /\ i + 1 \in reports_of(a, q)
           /\ 1 \in reports_of(a, q) <=> made_by(a, Head(q))
           /\ reports_of(a, q) \subseteq Nat \ {0} /\ Head(q) = q[1]
           /\ \A i \in reports_of(a, Tail(q)) : Tail(q)[i] = q[i + 1]
<1> DEFINE M == {x \in S : made_by(a, x)}
<1>1. Tail(q) \in Seq(S) /\ \A i \in 1 .. Len(Tail(q)) : Tail(q)[i] = q[i + 1]
  BY HeadTailProperties
<1>2. \A r \in Seq(S) : reports_of(a, r) = marks(r, M) /\ reports_of(a, r) \subseteq 1 .. Len(r)
  <2>. TAKE r \in Seq(S)
  <2>1. \A i \in DOMAIN r : r[i] \in S /\ i \in 1 .. Len(r)
    BY LenProperties, ElementOfSeq
  <2>. QED  BY <2>1 DEF reports_of, marks, made_by
<1>3. Head(q) \in M <=> made_by(a, Head(q))
  BY HeadTailProperties
<1>. HIDE DEF M
<1>4. /\ \A i : i \in marks(Tail(q), M) <=> i \in Nat \ {0} /\ i + 1 \in marks(q, M)
      /\ 1 \in marks(q, M) <=> Head(q) \in M
      /\ marks(q, M) \subseteq Nat \ {0}
  BY MarksTail
<1>5. Head(q) = q[1]
  OBVIOUS
<1>. QED  BY <1>1, <1>2, <1>3, <1>4, <1>5

LEMMA OrderedEmpty ==
    ASSUME NEW a, NEW lo \in Nat, NEW hi \in Nat
    PROVE  /\ in_order(a, << >>, lo, hi) => hi <= lo
           /\ in_order(a, << >>, lo, lo)
<1>1. reports_of(a, << >>) = {}
  BY DEF reports_of
<1>2. \A k : in_order(a, << >>, lo, k) <=> lo .. k - 1 = {}
  BY <1>1 DEF in_order
<1>3. lo .. lo - 1 = {}
  OBVIOUS
<1>4. lo .. hi - 1 = {} => hi <= lo
  <2>1. hi > lo => lo \in lo .. hi - 1
    OBVIOUS
  <2>. QED  BY <2>1
<1>. QED  BY <1>2, <1>3, <1>4

LEMMA OrderedAppend ==
    ASSUME NEW S, NEW q \in Seq(S), NEW m \in S, NEW a, NEW lo \in Nat, NEW hi \in Nat,
           lo <= hi, in_order(a, q, lo, hi)
    PROVE  /\ made_by(a, m) /\ m.num = hi => in_order(a, Append(q, m), lo, hi + 1)
           /\ ~made_by(a, m) => in_order(a, Append(q, m), lo, hi)
<1> DEFINE r == Append(q, m)
           K == reports_of(a, q)
           n == Len(q) + 1
<1>1. /\ reports_of(a, r) = IF made_by(a, m) THEN K \cup {n} ELSE K
      /\ K \subseteq 1 .. n - 1 /\ n \in Nat \ {0}
      /\ r[n] = m /\ \A i \in 1 .. n - 1 : r[i] = q[i]
  BY ReportsAppended
<1>2. {q[i].num : i \in K} = lo .. hi - 1 /\ \A i, j \in K : i < j => q[i].num < q[j].num
  BY DEF in_order
<1>. HIDE DEF r, K, n
<1>3. ASSUME made_by(a, m), m.num = hi PROVE in_order(a, r, lo, hi + 1)
  <2>1. reports_of(a, r) = K \cup {n}
    BY <1>1, <1>3
  <2>2. /\ \A i \in K : r[i].num = q[i].num /\ i < n /\ r[i].num \in lo .. hi - 1
        /\ r[n].num = hi
    BY <1>1, <1>2, <1>3
  <2>3. {r[i].num : i \in K \cup {n}} = lo .. hi
    <3>1. \A i \in K \cup {n} : r[i].num \in lo .. hi
      BY <2>2
    <3>2. ASSUME NEW k \in lo .. hi PROVE \E i \in K \cup {n} : r[i].num = k
      <4>1. CASE k = hi
        BY <2>2, <4>1
      <4>2. CASE k # hi
        <5>1. k \in lo .. hi - 1
          BY <4>2
        <5>. QED  BY <1>2, <2>2, <5>1
      <4>. QED  BY <4>1, <4>2
    <3>. QED  BY <3>1, <3>2
  <2>4. \A i, j \in K \cup {n} : i < j => r[i].num < r[j].num
    <3>. TAKE i, j \in K \cup {n}
    <3>. HAVE i < j
    <3>1. i \in K
      BY <2>2, <1>1
    <3>2. CASE j \in K
      BY <1>2, <2>2, <3>1, <3>2
    <3>3. CASE j = n
      BY <2>2, <3>1, <3>3
    <3>. QED  BY <3>2, <3>3
  <2>5. (hi + 1) - 1 = hi
    OBVIOUS
  <2>. QED  BY <2>1, <2>3, <2>4, <2>5 DEF in_order
<1>4. ASSUME ~made_by(a, m) PROVE in_order(a, r, lo, hi)
  <2>1. reports_of(a, r) = K /\ \A i \in K : r[i] = q[i]
    BY <1>1, <1>4
  <2>. QED  BY <1>2, <2>1 DEF in_order
<1>. QED  BY <1>3, <1>4 DEF r

LEMMA OrderedTail ==
    ASSUME NEW S, NEW q \in Seq(S), q # << >>, NEW a, NEW lo \in Nat, NEW hi \in Nat,
           in_order(a, q, lo, hi)
    PROVE  /\ made_by(a, Head(q)) => /\ Head(q).num = lo /\ lo < hi
                                     /\ in_order(a, Tail(q), lo + 1, hi)
           /\ ~made_by(a, Head(q)) => in_order(a, Tail(q), lo, hi)
<1> DEFINE r == Tail(q)
           K == reports_of(a, q)
           T == reports_of(a, r)
<1>1. /\ \A i : i \in T <=> i \in Nat \ {0} /\ i + 1 \in K
      /\ 1 \in K <=> made_by(a, Head(q))
      /\ K \subseteq Nat \ {0} /\ Head(q) = q[1]
      /\ \A i \in T : r[i] = q[i + 1]
  BY ReportsTail
<1>2. {q[i].num : i \in K} = lo .. hi - 1 /\ \A i, j \in K : i < j => q[i].num < q[j].num
  BY DEF in_order
<1>. HIDE DEF r, K, T
<1>3. \A i, j \in T : i < j => r[i].num < r[j].num
  <2>. TAKE i, j \in T
  <2>1. i + 1 \in K /\ j + 1 \in K /\ i \in Nat /\ j \in Nat /\ r[i] = q[i + 1] /\ r[j] = q[j + 1]
    BY <1>1
  <2>. QED  BY <1>2, <2>1
<1>4. \A k \in K : k # 1 => \E i \in T : i + 1 = k
  <2>. TAKE k \in K
  <2>. HAVE k # 1
  <2>1. k - 1 \in Nat \ {0} /\ (k - 1) + 1 = k
    BY <1>1
  <2>. QED  BY <1>1, <2>1
<1>5. ASSUME made_by(a, Head(q))
      PROVE  Head(q).num = lo /\ lo < hi /\ in_order(a, r, lo + 1, hi)
  <2>1. 1 \in K /\ q[1].num \in lo .. hi - 1
    BY <1>1, <1>2, <1>5
  <2>2. \A k \in K : k # 1 => q[k].num > q[1].num /\ q[k].num \in lo .. hi - 1
    BY <1>1, <1>2, <2>1
  <2>3. q[1].num = lo /\ lo < hi
    <3>1. lo \in lo .. hi - 1
      BY <2>1
    <3>2. PICK k \in K : q[k].num = lo
      BY <1>2, <3>1
    <3>. QED  BY <2>1, <2>2, <3>2
  <2>4. {r[i].num : i \in T} = lo + 1 .. hi - 1
    <3>1. \A i \in T : r[i].num \in lo + 1 .. hi - 1
      <4>. TAKE i \in T
      <4>1. i + 1 \in K /\ i + 1 # 1 /\ r[i] = q[i + 1]
        BY <1>1
      <4>. QED  BY <2>2, <2>3, <4>1
    <3>2. ASSUME NEW n \in lo + 1 .. hi - 1 PROVE \E i \in T : r[i].num = n
      <4>1. n \in lo .. hi - 1 /\ n # lo
        OBVIOUS
      <4>2. PICK k \in K : q[k].num = n
        BY <1>2, <4>1
      <4>3. PICK i \in T : i + 1 = k
        BY <1>4, <2>3, <4>1, <4>2
      <4>. QED  BY <1>1, <4>2, <4>3
    <3>. QED  BY <3>1, <3>2
  <2>. QED  BY <1>1, <1>3, <2>3, <2>4 DEF in_order, T
<1>6. ASSUME ~made_by(a, Head(q)) PROVE in_order(a, r, lo, hi)
  <2>1. 1 \notin K
    BY <1>1, <1>6
  <2>2. {r[i].num : i \in T} = {q[k].num : k \in K}
    <3>1. \A i \in T : i + 1 \in K /\ r[i].num = q[i + 1].num
      BY <1>1
    <3>2. \A k \in K : \E i \in T : r[i].num = q[k].num
      BY <1>1, <1>4, <2>1
    <3>. QED  BY <3>1, <3>2
  <2>. QED  BY <1>2, <1>3, <2>2 DEF in_order, T
<1>. QED  BY <1>5, <1>6 DEF r

LEMMA OrderedConcat ==
    ASSUME NEW S, NEW s \in Seq(S), NEW t \in Seq(S), NEW a,
           NEW lo \in Nat, NEW mid \in Nat, NEW hi \in Nat, lo <= mid, mid <= hi,
           in_order(a, s, lo, mid), in_order(a, t, mid, hi)
    PROVE  in_order(a, s \o t, lo, hi)
<1> DEFINE u == s \o t
           n == Len(s)
           k == Len(t)
           I == reports_of(a, s)
           J == reports_of(a, t)
           K == reports_of(a, u)
<1>1. n \in Nat /\ k \in Nat /\ DOMAIN s = 1 .. n /\ DOMAIN t = 1 .. k
  BY LenProperties
<1>2. /\ u \in Seq(S) /\ Len(u) = n + k
      /\ \A i \in 1 .. n + k : u[i] = IF i <= n THEN s[i] ELSE t[i - n]
  BY ConcatProperties
<1>3. DOMAIN u = 1 .. n + k
  BY <1>2, LenProperties
<1>4. /\ {s[i].num : i \in I} = lo .. mid - 1 /\ \A i, j \in I : i < j => s[i].num < s[j].num
      /\ {t[i].num : i \in J} = mid .. hi - 1 /\ \A i, j \in J : i < j => t[i].num < t[j].num
  BY DEF in_order
<1>5. /\ \A i \in I : i \in 1 .. n /\ s[i].type = "COUNT_REPORT" /\ s[i].source = a
      /\ \A i \in J : i \in 1 .. k /\ t[i].type = "COUNT_REPORT" /\ t[i].source = a
      /\ \A i \in 1 .. n : s[i].type = "COUNT_REPORT" /\ s[i].source = a => i \in I
      /\ \A i \in 1 .. k : t[i].type = "COUNT_REPORT" /\ t[i].source = a => i \in J
      /\ \A i \in K : i \in 1 .. n + k /\ u[i].type = "COUNT_REPORT" /\ u[i].source = a
      /\ \A i \in 1 .. n + k : u[i].type = "COUNT_REPORT" /\ u[i].source = a => i \in K
  BY <1>1, <1>3 DEF reports_of
<1>. HIDE DEF u, n, k, I, J, K
<1>6. \A i \in K : \/ i \in I /\ i <= n /\ u[i] = s[i]
                   \/ i - n \in J /\ i > n /\ u[i] = t[i - n]
  <2>. TAKE i \in K
  <2>0. i \in 1 .. n + k /\ u[i].type = "COUNT_REPORT" /\ u[i].source = a
    BY <1>5
  <2>1. CASE i <= n
    BY <1>1, <1>2, <1>5, <2>0, <2>1
  <2>2. CASE i > n
    <3>1. i - n \in 1 .. k /\ u[i] = t[i - n]
      BY <1>1, <1>2, <2>0, <2>2
    <3>. QED  BY <1>5, <2>0, <2>2, <3>1
  <2>. QED  BY <1>1, <2>0, <2>1, <2>2
<1>7. /\ \A i \in I : i \in K /\ u[i] = s[i]
      /\ \A j \in J : j + n \in K /\ u[j + n] = t[j]
  <2>1. ASSUME NEW i \in I PROVE i \in K /\ u[i] = s[i]
    <3>1. i \in 1 .. n + k /\ u[i] = s[i]
      BY <1>1, <1>2, <1>5
    <3>. QED  BY <1>5, <3>1
  <2>2. ASSUME NEW j \in J PROVE j + n \in K /\ u[j + n] = t[j]
    <3>1. j \in 1 .. k /\ j + n \in 1 .. n + k /\ ~(j + n <= n) /\ (j + n) - n = j
      BY <1>1, <1>5
    <3>2. u[j + n] = t[j]
      BY <1>2, <3>1
    <3>. QED  BY <1>5, <3>1, <3>2
  <2>. QED  BY <2>1, <2>2
<1>8. {u[i].num : i \in K} = lo .. hi - 1
  <2>1. ASSUME NEW i \in K PROVE u[i].num \in lo .. hi - 1
    <3>1. u[i].num \in lo .. mid - 1 \/ u[i].num \in mid .. hi - 1
      BY <1>4, <1>6
    <3>. QED  BY <3>1
  <2>2. ASSUME NEW x \in lo .. hi - 1 PROVE \E i \in K : u[i].num = x
    <3>1. CASE x \in lo .. mid - 1
      <4>1. PICK i \in I : s[i].num = x
        BY <1>4, <3>1
      <4>. QED  BY <1>7, <4>1
    <3>2. CASE x \in mid .. hi - 1
      <4>1. PICK j \in J : t[j].num = x
        BY <1>4, <3>2
      <4>. QED  BY <1>7, <4>1
    <3>. QED  BY <3>1, <3>2
  <2>. QED  BY <2>1, <2>2
<1>9. \A i, j \in K : i < j => u[i].num < u[j].num
  <2>. TAKE i, j \in K
  <2>. HAVE i < j
  <2>0. i \in Nat /\ j \in Nat
    BY <1>1, <1>5
  <2>1. CASE j <= n
    BY <1>1, <1>4, <1>6, <2>0, <2>1
  <2>2. CASE i <= n /\ j > n
    <3>1. u[i].num \in lo .. mid - 1 /\ u[j].num \in mid .. hi - 1
      BY <1>1, <1>4, <1>6, <2>0, <2>2
    <3>. QED  BY <3>1
  <2>3. CASE i > n
    <3>1. i - n \in J /\ j - n \in J /\ u[i] = t[i - n] /\ u[j] = t[j - n] /\ i - n < j - n
      BY <1>1, <1>6, <2>0, <2>3
    <3>. QED  BY <1>4, <3>1
  <2>. QED  BY <1>1, <2>0, <2>1, <2>2, <2>3
<1>10. in_order(a, u, lo, hi)
  BY <1>8, <1>9 DEF in_order, K
<1>. QED  BY <1>10 DEF u

\* The oldest message of t goes to the end of s.
LEMMA MovesOn ==
    ASSUME NEW S, NEW s \in Seq(S), NEW t \in Seq(S), t # << >>, NEW a,
           NEW lo \in Nat, NEW mid \in Nat, NEW hi \in Nat, lo <= mid, mid <= hi,
           in_order(a, s, lo, mid), in_order(a, t, mid, hi)
    PROVE  \E k \in Nat : /\ mid <= k /\ k <= hi
                          /\ in_order(a, Append(s, Head(t)), lo, k)
                          /\ in_order(a, Tail(t), k, hi)
<1>0. Head(t) \in S
  BY HeadTailProperties
<1>1. CASE made_by(a, Head(t))
  <2>1. Head(t).num = mid /\ mid < hi /\ in_order(a, Tail(t), mid + 1, hi)
    BY <1>1, OrderedTail
  <2>2. in_order(a, Append(s, Head(t)), lo, mid + 1)
    BY <1>0, <1>1, <2>1, OrderedAppend
  <2>3. mid + 1 \in Nat /\ mid <= mid + 1 /\ mid + 1 <= hi
    BY <2>1
  <2>. QED  BY <2>1, <2>2, <2>3
<1>2. CASE ~made_by(a, Head(t))
  <2>1. in_order(a, Tail(t), mid, hi) /\ in_order(a, Append(s, Head(t)), lo, mid)
    BY <1>0, <1>2, OrderedTail, OrderedAppend
  <2>. QED  BY <2>1
<1>. QED  BY <1>1, <1>2
-----------------------------------------------------------------------------
Messages == (UNION {Accepts(p) : p \in Pids}) \cup {Blank}

LEMMA QueuesOfMessages ==
    ASSUME Typed
    PROVE  /\ \A p \in Pids : mailbox[p] \in Seq(Messages) /\ Accepts(p) \subseteq Messages
           /\ \A c \in C : /\ local[c] \in Seq(Messages) /\ handled[c] \in Seq(Messages)
                           /\ ReportsOf(c) \subseteq Messages
<1>1. \A p \in Pids : Accepts(p) \subseteq Messages
  BY DEF Messages
<1>2. \A c \in C : c \in Pids /\ ReportsOf(c) \subseteq Accepts(c)
  BY StressAssumption DEF Accepts, Pids, Processes
<1>3. \A c \in C : ReportsOf(c) \subseteq Messages
  BY <1>1, <1>2
<1>4. \A p \in Pids : mailbox[p] \in Seq(Messages)
  BY <1>1, SeqMonotonic DEF Typed
<1>5. \A c \in C : local[c] \in Seq(Messages) /\ handled[c] \in Seq(Messages)
  BY <1>3, SeqMonotonic DEF Typed
<1>. QED  BY <1>1, <1>3, <1>4, <1>5

LEMMA Passed ==
    ASSUME Typed, NEW a \in A, NEW n \in 1 .. 8, at_a(a, n)
    PROVE  passed(a) = (IF n \in {7, 8} THEN num[a] - 1 ELSE num[a]) /\ passed(a) \in Nat
<1>1. num[a] \in Nat
  BY DEF Typed
<1>2. CASE n \in {7, 8}
  <2>1. todo[a] # << >> /\ num[a] > 0
    <3>2. num[a] > 0
      BY <1>2 DEF at_a
    <3>3. CASE n = 7
      <4>1. PICK x, y : todo[a] = <<x, y>>
        BY <3>3 DEF at_a
      <4>2. Len(todo[a]) = 2 /\ Len(<< >>) = 0
        BY <4>1
      <4>. QED  BY <3>2, <4>2
    <3>4. CASE n = 8
      <4>1. PICK x : todo[a] = <<x>>
        BY <3>4 DEF at_a
      <4>2. Len(todo[a]) = 1 /\ Len(<< >>) = 0
        BY <4>1
      <4>3. todo[a] # << >>
        BY <4>2
      <4>. QED  BY <3>2, <4>3
    <3>. QED  BY <1>2, <3>3, <3>4
  <2>. QED  BY <1>1, <1>2, <2>1 DEF passed
<1>3. CASE n \notin {7, 8}
  <2>1. todo[a] = << >> \/ num[a] = 0
    BY <1>3 DEF at_a
  <2>. QED  BY <1>1, <1>3, <2>1 DEF passed
<1>. QED  BY <1>2, <1>3

\* What a B process has in its hands.
LEMMA InHands ==
    ASSUME NEW b \in B
    PROVE  /\ todo[b] = << >> => to_send(b) = << >>
           /\ \A d, m : todo[b] = <<send("mymess", d, m)>> => to_send(b) = <<m>>
<1>1. ASSUME todo[b] = << >> PROVE to_send(b) = << >>
  BY <1>1 DEF to_send
<1>2. ASSUME NEW d, NEW m, todo[b] = <<send("mymess", d, m)>> PROVE to_send(b) = <<m>>
  <2>1. DOMAIN todo[b] = {1} /\ todo[b][1].op = "send" /\ todo[b][1].as = m
    BY <1>2 DEF send
  <2>2. to_send(b) = [i \in {1} |-> m]
    BY <2>1 DEF to_send
  <2>3. <<m>> = [i \in {1} |-> m]
    OBVIOUS
  <2>. QED  BY <2>2, <2>3
<1>. QED  BY <1>1, <1>2

SamePipe(a) ==
    LET b == to_b[a]
        c == to_c[b]
    IN  /\ handled'[c] = handled[c] /\ local'[c] = local[c] /\ mailbox'[c] = mailbox[c]
        /\ to_send(b)' = to_send(b) /\ mailbox'[b] = mailbox[b] /\ passed(a)' = passed(a)

LEMMA StagesKept ==
    ASSUME NEW a \in A, Stages(a), SamePipe(a)
    PROVE  Stages(a)'
BY DEF Stages, SamePipe

LEMMA CallsKeepStages ==
    ASSUME Typed, AtWork, NEW p \in Processes, Steps(p), NEW a \in A, Stages(a)
    PROVE  Stages(a)'
<1> DEFINE b == to_b[a]
           c == to_c[b]
<1>0. /\ b \in B /\ c \in C /\ c \in Pids /\ b \in Pids /\ b # c /\ a # b /\ a # c
      /\ c # "KCD" /\ c # "CRT" /\ b # "KCD" /\ b # "CRT" /\ a \in Processes /\ b \in Processes
      /\ \A q \in A : q \notin B /\ q \notin C
      /\ \A q \in B : q \notin A /\ q \notin C
      /\ \A q \in C : q \notin A /\ q \notin B
      /\ C1 \in C /\ C2 \in C
  BY StressAssumption DEF Processes, Pids, C
<1>1. /\ \A q \in Processes \ {p} : todo'[q] = todo[q]
      /\ local' = local /\ num' = num /\ handled' = handled
  BY CallEffects
<1>2. to_send(b)' = to_send(b) \/ p = b
  BY <1>0, <1>1 DEF to_send
<1>3. /\ mailbox[c] \in Seq(Messages) /\ mailbox[b] \in Seq(Messages)
      /\ Accepts(b) \subseteq Messages /\ Accepts(c) \subseteq Messages
  BY <1>0, QueuesOfMessages
<1>4. PICK na \in 1 .. 8 : at_a(a, na)
  BY DEF AtWork
<1>5. passed(a) = (IF na \in {7, 8} THEN num[a] - 1 ELSE num[a]) /\ passed(a) \in Nat
  BY <1>4, Passed
<1>6. PICK h \in Nat, l \in Nat, m \in Nat, s \in Nat :
          /\ h <= l /\ l <= m /\ m <= s /\ s <= passed(a)
          /\ in_order(a, handled[c], 0, h)
          /\ in_order(a, local[c], h, l)
          /\ in_order(a, mailbox[c], l, m)
          /\ in_order(a, to_send(b), m, s)
          /\ in_order(a, mailbox[b], s, passed(a))
  BY DEF Stages
<1>7. p # a => passed(a)' = passed(a)
  BY <1>0, <1>1 DEF passed
<1>. HIDE DEF b, c
<1>10. CASE p \in B
  <2>1. PICK n \in 1 .. 2 : at_b(p, n)
    BY <1>10 DEF AtWork
  <2>2. n = 2 /\ Send(p) /\ at_b(p, 1)'
    BY <1>10, <2>1, CallsOfB
  <2>3. PICK x \in Accepts(p) : todo[p] = <<send("mymess", to_c[p], x)>>
    BY <1>10, <2>1, CallsOfB
  <2>4. mailbox' = [mailbox EXCEPT ![to_c[p]] = Append(@, x)]
    <3>1. Head(todo[p]) = send("mymess", to_c[p], x)
      BY <2>3
    <3>2. Head(todo[p]).to = to_c[p] /\ Head(todo[p]).as = x
      BY <3>1 DEF send
    <3>. QED  BY <2>2, <3>2 DEF Send
  <2>5. to_c[p] \in C /\ x \in Reports /\ to_b[x.source] = p
    BY <1>0, <1>10, StressAssumption DEF Accepts
  <2>6. mailbox'[b] = mailbox[b] /\ p # a
    BY <1>0, <1>10, <2>4, <2>5 DEF Typed
  <2>7. CASE p = b
    <3>1. to_send(b) = <<x>> /\ to_send(b)' = << >>
      <4>1. to_send(b) = <<x>>
        BY <1>0, <2>3, <2>7, InHands
      <4>2. todo'[b] = << >>
        BY <2>2, <2>7 DEF at_b
      <4>. QED  BY <1>0, <4>1, <4>2 DEF to_send
    <3>2. to_c[p] = c /\ mailbox'[c] = Append(mailbox[c], x)
      BY <1>0, <2>4, <2>7 DEF Typed, c
    <3>3. x \in Messages /\ <<x>> \in Seq(Messages) /\ <<x>> # << >> /\ Head(<<x>>) = x
          /\ Tail(<<x>>) = << >>
      <4>1. x \in Messages
        BY <1>0, <1>3, <2>3, <2>7
      <4>. QED  BY <4>1
    <3>4. in_order(a, <<x>>, m, s)
      BY <1>6, <3>1
    <3>5. PICK k \in Nat : /\ m <= k /\ k <= s
                           /\ in_order(a, Append(mailbox[c], x), l, k)
                           /\ in_order(a, << >>, k, s)
      <4> DEFINE t == <<x>>
      <4>1. t \in Seq(Messages) /\ t # << >> /\ in_order(a, t, m, s)
        BY <3>3, <3>4
      <4>2. Head(t) = x /\ Tail(t) = << >>
        BY <3>3
      <4>. HIDE DEF t
      <4>3. \E k \in Nat : /\ m <= k /\ k <= s
                           /\ in_order(a, Append(mailbox[c], Head(t)), l, k)
                           /\ in_order(a, Tail(t), k, s)
        BY <1>3, <1>6, <4>1, MovesOn
      <4>. QED  BY <4>2, <4>3
    <3>6. l <= k /\ in_order(a, mailbox'[c], l, k) /\ in_order(a, to_send(b)', k, s)
      BY <1>6, <3>1, <3>2, <3>5
    <3>. QED  BY <1>1, <1>6, <1>7, <2>6, <3>5, <3>6 DEF Stages, b, c
  <2>8. CASE p # b
    <3>1. ~made_by(a, x)
      BY <2>5, <2>8 DEF made_by, b
    <3>2. in_order(a, mailbox'[c], l, m)
      <4>1. CASE to_c[p] = c
        <5>1. mailbox'[c] = Append(mailbox[c], x)
          BY <1>0, <2>4, <4>1 DEF Typed
        <5>2. x \in Messages
          BY <1>10, <2>3, QueuesOfMessages DEF Pids, Processes
        <5>. QED  BY <1>3, <1>6, <3>1, <5>1, <5>2, OrderedAppend
      <4>2. CASE to_c[p] # c
        BY <1>0, <1>6, <2>4, <4>2 DEF Typed
      <4>. QED  BY <4>1, <4>2
    <3>. QED  BY <1>1, <1>2, <1>6, <1>7, <2>6, <2>8, <3>2 DEF Stages, b, c
  <2>. QED  BY <2>7, <2>8
<1>11. CASE p \in A /\ Send(p)
  <2>1. \/ /\ Head(todo[p]) = send("command", "KCD", registration)
           /\ at_a(p, 3) /\ at_a(p, 4)'
        \/ /\ Head(todo[p]) = send("p", to_b[p], report(p, num[p] - 1))
           /\ at_a(p, 8) /\ at_a(p, 5)'
    BY <1>11, SentTo
  <2>2. p # b
    BY <1>0, <1>11
  <2>3. CASE Head(todo[p]) = send("command", "KCD", registration) /\ at_a(p, 3) /\ at_a(p, 4)'
    <3>1. mailbox' = [mailbox EXCEPT !["KCD"] = Append(@, registration)]
      <4>1. Head(todo[p]).to = "KCD" /\ Head(todo[p]).as = registration
        BY <2>3 DEF send
      <4>. QED  BY <1>11, <4>1 DEF Send
    <3>2. mailbox'[b] = mailbox[b] /\ mailbox'[c] = mailbox[c]
      BY <1>0, <3>1 DEF Typed
    <3>3. passed(a)' = passed(a)
      <4>1. CASE p = a
        <5>1. num[a] = 0
          BY <2>3, <4>1 DEF at_a
        <5>. QED  BY <1>1, <5>1 DEF passed
      <4>. QED  BY <1>7, <4>1
    <3>4. SamePipe(a)
      BY <1>1, <1>2, <2>2, <3>2, <3>3 DEF SamePipe, b, c
    <3>. QED  BY <3>4, StagesKept
  <2>4. CASE /\ Head(todo[p]) = send("p", to_b[p], report(p, num[p] - 1))
             /\ at_a(p, 8) /\ at_a(p, 5)'
    <3> DEFINE r == report(p, num[p] - 1)
    <3>1. mailbox' = [mailbox EXCEPT ![to_b[p]] = Append(@, r)]
      <4>1. Head(todo[p]).to = to_b[p] /\ Head(todo[p]).as = r
        BY <2>4 DEF send
      <4>. HIDE DEF r
      <4>. QED  BY <1>11, <4>1 DEF Send
    <3>2. to_b[p] \in B /\ r \in Accepts(to_b[p]) /\ to_b[p] \in Pids
      <4>1. Head(todo[p]).as \in Accepts(Head(todo[p]).to)
        BY <1>11, SentTo
      <4>2. Head(todo[p]).as = r /\ Head(todo[p]).to = to_b[p]
        BY <2>4 DEF send
      <4>. QED  BY <1>11, <4>1, <4>2, StressAssumption DEF Pids, Processes
    <3>3. r \in Messages
      BY <3>2, QueuesOfMessages
    <3>8. made_by(a, r) <=> p = a
      BY DEF made_by, report
    <3>9. r.num = num[p] - 1
      BY DEF report
    <3>. HIDE DEF r
    <3>4. mailbox'[c] = mailbox[c]
      BY <1>0, <3>1, <3>2 DEF Typed
    <3>5. in_order(a, mailbox'[b], s, passed(a)') /\ s <= passed(a)'
      <4>1. CASE p = a
        <5>1. passed(a) = num[a] - 1 /\ passed(a)' = num[a] /\ num[a] \in Nat
          <6>1. passed(a) = num[a] - 1
            BY <2>4, <4>1, Passed
          <6>2. todo'[a] = << >>
            BY <2>4, <4>1 DEF at_a
          <6>3. passed(a)' = num[a]
            BY <1>1, <6>2 DEF passed
          <6>. QED  BY <6>1, <6>3 DEF Typed
        <5>2. mailbox'[b] = Append(mailbox[b], r)
          BY <1>0, <3>1, <4>1 DEF Typed, b
        <5>3. in_order(a, Append(mailbox[b], r), s, passed(a) + 1)
          BY <1>3, <1>5, <1>6, <3>3, <3>8, <3>9, <4>1, <5>1, OrderedAppend
        <5>4. passed(a) + 1 = passed(a)'
          BY <5>1
        <5>. QED  BY <1>6, <5>1, <5>2, <5>3, <5>4
      <4>2. CASE p # a
        <5>1. mailbox'[b] = Append(mailbox[b], r) \/ mailbox'[b] = mailbox[b]
          BY <1>0, <3>1 DEF Typed
        <5>2. in_order(a, Append(mailbox[b], r), s, passed(a))
          BY <1>3, <1>5, <1>6, <3>3, <3>8, <4>2, OrderedAppend
        <5>. QED  BY <1>6, <1>7, <4>2, <5>1, <5>2
      <4>. QED  BY <4>1, <4>2
    <3>. QED  BY <1>1, <1>2, <1>6, <2>2, <3>4, <3>5 DEF Stages, b, c
  <2>. QED  BY <2>1, <2>3, <2>4
<1>12. CASE p \in A /\ ~Send(p)
  <2>1. mailbox' = mailbox
    BY <1>12 DEF Steps, Request, DelayedSend, Release
  <2>2. p # b
    BY <1>0, <1>12
  <2>3. passed(a)' = passed(a)
    <3>1. CASE p = a
      <4>0. Steps(a) /\ ~Send(a) /\ Typed'
        BY <1>12, <3>1, CallsTyped, NoDelayedSend
      <4>1. na \in {1, 2, 7} \/ na = 6
        <5>1. na # 3 /\ na # 8 /\ na \in {1, 2, 3, 6, 7, 8}
          BY <1>4, <4>0, CallsOfA
        <5>. QED  BY <5>1
      <4>2. CASE na \in {1, 2, 7}
        <5>1. CASE na \in {1, 2}
          <6>1. num[a] = 0
            BY <1>4, <5>1 DEF at_a
          <6>. QED  BY <1>1, <6>1 DEF passed
        <5>2. CASE na = 7
          <6>1. at_a(a, 8)'
            <7>1. at_a(a, 7)
              BY <1>4, <5>2
            <7>2. 7 \in {1, 2, 7} => at_a(a, 7 + 1)'
              BY <4>0, <7>1, CallsOfA
            <7>. QED  BY <7>2
          <6>2. PICK x : todo'[a] = <<x>>
            BY <6>1 DEF at_a
          <6>3. Len(<<x>>) = 1 /\ Len(<< >>) = 0
            OBVIOUS
          <6>4. num[a] > 0
            BY <1>4, <5>2 DEF at_a
          <6>5. todo'[a] # << >>
            BY ONLY <6>2, <6>3
          <6>. QED  BY <1>1, <1>5, <5>2, <6>4, <6>5 DEF passed
        <5>. QED  BY <4>2, <5>1, <5>2
      <4>3. CASE na = 6
        <5>1. num[a] = 0
          BY <1>4, <4>3 DEF at_a
        <5>. QED  BY <1>1, <5>1 DEF passed
      <4>. QED  BY <4>1, <4>2, <4>3
    <3>. QED  BY <1>7, <3>1
  <2>4. SamePipe(a)
    BY <1>1, <1>2, <2>1, <2>2, <2>3 DEF SamePipe, b, c
  <2>. QED  BY <2>4, StagesKept
<1>13. CASE p \in C
  <2>1. p # a /\ p # b
    BY <1>0, <1>13
  <2>2. mailbox'[c] = mailbox[c] /\ mailbox'[b] = mailbox[b]
    <3>1. CASE Send(p)
      <4>1. \E n \in {0, 1} : Head(todo[p]) = send("string", "CRT", text(n))
        BY <1>13, <3>1, SentTo DEF C
      <4>2. Head(todo[p]).to = "CRT"
        BY <4>1 DEF send
      <4>. QED  BY <1>0, <3>1, <4>2 DEF Send, Typed
    <3>2. CASE mailbox' = mailbox
      BY <3>2
    <3>. QED  BY <3>1, <3>2 DEF Steps, Request, DelayedSend, Release
  <2>3. SamePipe(a)
    BY <1>1, <1>2, <1>7, <2>1, <2>2 DEF SamePipe, b, c
  <2>. QED  BY <2>3, StagesKept
<1>. QED  BY <1>10, <1>11, <1>12, <1>13 DEF Processes

LEMMA OtherStepsKeepStages ==
    ASSUME Typed, AtWork, \A c \in C : WakesOnce(c), NEW a \in A, Stages(a)
    PROVE  /\ \A x \in A : a_command(x) \/ a_report(x) => Stages(a)'
           /\ \A x \in B : process_b(x) => Stages(a)'
           /\ \A x \in C : c_report(x) \/ c_meanwhile(x) \/ timer_expire(x) => Stages(a)'
           /\ kcd_process \/ crt_process => Stages(a)'
           /\ \A x \in A, own \in BOOLEAN : command(x, own) => Stages(a)'
<1> DEFINE b == to_b[a]
           c == to_c[b]
<1>0. /\ b \in B /\ c \in C /\ c \in Pids /\ b \in Pids /\ b # c /\ a # b /\ a # c
      /\ c # "KCD" /\ c # "CRT" /\ b # "KCD" /\ b # "CRT" /\ a \in Processes /\ b \in Processes
      /\ \A q \in A : q \notin B /\ q \notin C /\ q \in Processes
      /\ \A q \in B : q \notin A /\ q \notin C /\ q \in Processes
      /\ \A q \in C : q \notin A /\ q \notin B /\ q \in Processes
  BY StressAssumption DEF Processes, Pids, C
<1>3. /\ mailbox[c] \in Seq(Messages) /\ mailbox[b] \in Seq(Messages)
      /\ local[c] \in Seq(Messages) /\ handled[c] \in Seq(Messages)
      /\ Accepts(b) \subseteq Messages /\ Accepts(c) \subseteq Messages
  BY <1>0, QueuesOfMessages
<1>4. PICK na \in 1 .. 8 : at_a(a, na)
  BY DEF AtWork
<1>5. passed(a) \in Nat
  BY <1>4, Passed
<1>6. PICK h \in Nat, l \in Nat, m \in Nat, s \in Nat :
          /\ h <= l /\ l <= m /\ m <= s /\ s <= passed(a)
          /\ in_order(a, handled[c], 0, h)
          /\ in_order(a, local[c], h, l)
          /\ in_order(a, mailbox[c], l, m)
          /\ in_order(a, to_send(b), m, s)
          /\ in_order(a, mailbox[b], s, passed(a))
  BY DEF Stages
<1>7. todo'[a] = todo[a] /\ num' = num => passed(a)' = passed(a)
  BY DEF passed
<1>8. todo'[b] = todo[b] => to_send(b)' = to_send(b)
  BY DEF to_send
<1>. HIDE DEF b, c
<1>10. ASSUME NEW x \in A, a_command(x) PROVE Stages(a)'
  <2>1. mailbox'[b] = mailbox[b] /\ mailbox'[c] = mailbox[c] /\ todo'[b] = todo[b]
    BY <1>0, <1>10 DEF a_command, take, does, Typed
  <2>2. passed(a)' = passed(a)
    <3>1. CASE x = a
      <4>1. num[a] = 0
        <5>1. na \in {4, 5} /\ a \notin started
          BY <1>4, <1>10, <3>1, LoopOfA DEF a_command
        <5>. QED  BY <1>4, <5>1 DEF at_a
      <4>2. num' = num
        BY <1>10 DEF a_command
      <4>. QED  BY <4>1, <4>2 DEF passed
    <3>2. CASE x # a
      BY <1>0, <1>7, <1>10, <3>2 DEF a_command, does, Typed
    <3>. QED  BY <3>1, <3>2
  <2>3. SamePipe(a)
    BY <1>8, <1>10, <2>1, <2>2 DEF SamePipe, b, c, a_command
  <2>. QED  BY <2>3, StagesKept
<1>11. ASSUME NEW x \in A, a_report(x) PROVE Stages(a)'
  <2>1. mailbox' = mailbox /\ todo'[b] = todo[b] /\ local' = local /\ handled' = handled
    BY <1>0, <1>11 DEF a_report, does, Typed
  <2>2. passed(a)' = passed(a)
    <3>1. CASE x = a
      <4>1. na = 5 /\ at_a(a, 7)' /\ todo[a] = << >> /\ num'[a] = num[a] + 1
        BY <1>4, <1>11, <3>1, LoopOfA DEF a_report, idle, Typed
      <4>2. PICK y, z : todo'[a] = <<y, z>>
        BY <4>1 DEF at_a
      <4>3. Len(todo'[a]) = 2 /\ Len(<< >>) = 0
        BY <4>2
      <4>4. todo'[a] # << >>
        BY <4>3
      <4>5. num[a] \in Nat
        BY DEF Typed
      <4>. QED  BY <4>1, <4>4, <4>5 DEF passed
    <3>2. CASE x # a
      <4>1. todo'[a] = todo[a] /\ num'[a] = num[a]
        BY <1>0, <1>11, <3>2 DEF a_report, does, Typed
      <4>. QED  BY <4>1 DEF passed
    <3>. QED  BY <3>1, <3>2
  <2>3. SamePipe(a)
    BY <1>8, <2>1, <2>2 DEF SamePipe, b, c
  <2>. QED  BY <2>3, StagesKept
<1>12. ASSUME NEW x \in B, process_b(x) PROVE Stages(a)'
  <2>1. /\ mailbox[x] # << >> /\ mailbox' = [mailbox EXCEPT ![x] = Tail(@)] /\ todo[x] = << >>
        /\ todo' = [todo EXCEPT ![x] = <<send("mymess", to_c[x], Head(mailbox[x]))>>]
        /\ local' = local /\ handled' = handled /\ num' = num
    BY <1>12 DEF process_b, has_message, idle, take, does, received
  <2>2. mailbox'[c] = mailbox[c] /\ passed(a)' = passed(a)
    BY <1>0, <1>7, <2>1 DEF Typed
  <2>3. CASE x = b
    <3> DEFINE y == Head(mailbox[b])
    <3>1. mailbox'[b] = Tail(mailbox[b]) /\ todo'[b] = <<send("mymess", to_c[b], y)>>
      BY <1>0, <2>1, <2>3 DEF Typed
    <3>. HIDE DEF y
    <3>2. to_send(b) = << >>
      BY <1>0, <2>1, <2>3, InHands
    <3>3. to_send(b)' = <<y>>
      <4>1. DOMAIN todo'[b] = {1} /\ todo'[b][1].op = "send" /\ todo'[b][1].as = y
        BY <3>1 DEF send
      <4>2. to_send(b)' = [i \in {1} |-> y]
        BY <4>1 DEF to_send
      <4>3. <<y>> = [i \in {1} |-> y]
        OBVIOUS
      <4>. QED  BY <4>2, <4>3
    <3>4. << >> \in Seq(Messages) /\ in_order(a, << >>, m, s)
      BY <1>6, <3>2
    <3>5. \E k \in Nat : /\ s <= k /\ k <= passed(a)
                         /\ in_order(a, Append(<< >>, y), m, k)
                         /\ in_order(a, Tail(mailbox[b]), k, passed(a))
      BY <1>3, <1>5, <1>6, <2>1, <2>3, <3>4, MovesOn DEF y
    <3>6. Append(<< >>, y) = <<y>>
      OBVIOUS
    <3>7. PICK k \in Nat : /\ s <= k /\ k <= passed(a)
                           /\ in_order(a, to_send(b)', m, k)
                           /\ in_order(a, mailbox'[b], k, passed(a)')
      BY <2>2, <3>1, <3>3, <3>5, <3>6
    <3>8. m <= k /\ k <= passed(a)'
      BY <1>6, <2>2, <3>7
    <3>. QED  BY <1>6, <2>1, <2>2, <3>7, <3>8 DEF Stages, b, c
  <2>4. CASE x # b
    <3>1. SamePipe(a)
      BY <1>0, <1>8, <2>1, <2>2, <2>4 DEF SamePipe, b, c, Typed
    <3>. QED  BY <3>1, StagesKept
  <2>. QED  BY <2>3, <2>4
<1>13. ASSUME NEW x \in C, c_report(x) PROVE Stages(a)'
  <2>1. /\ FromLocal(x) \/ FromMailbox(x)
        /\ handled' = [handled EXCEPT ![x] = Append(@, taken(x))] /\ num' = num
        /\ todo'[a] = todo[a] /\ todo'[b] = todo[b]
    BY <1>0, <1>13, Taken DEF c_report, does, Typed
  <2>2. mailbox'[b] = mailbox[b] /\ passed(a)' = passed(a) /\ to_send(b)' = to_send(b)
    BY <1>0, <1>7, <1>8, <2>1 DEF FromLocal, FromMailbox, take, Typed
  <2>3. CASE x # c
    <3>1. SamePipe(a)
      BY <1>0, <2>1, <2>2, <2>3 DEF SamePipe, b, c, FromLocal, FromMailbox, take, Typed
    <3>. QED  BY <3>1, StagesKept
  <2>4. CASE x = c /\ FromLocal(x)
    <3>1. /\ local[c] # << >> /\ local'[c] = Tail(local[c]) /\ mailbox' = mailbox
          /\ handled'[c] = Append(handled[c], Head(local[c]))
      BY <1>0, <2>1, <2>4 DEF FromLocal, Typed
    <3>2. 0 \in Nat /\ 0 <= h
      BY <1>6
    <3>3. PICK k \in Nat : /\ h <= k /\ k <= l
                           /\ in_order(a, Append(handled[c], Head(local[c])), 0, k)
                           /\ in_order(a, Tail(local[c]), k, l)
      BY <1>3, <1>6, <3>1, <3>2, MovesOn
    <3>4. /\ in_order(a, handled'[c], 0, k) /\ in_order(a, local'[c], k, l)
          /\ in_order(a, mailbox'[c], l, m) /\ in_order(a, to_send(b)', m, s)
          /\ in_order(a, mailbox'[b], s, passed(a)') /\ s <= passed(a)'
      BY <1>6, <2>2, <3>1, <3>3
    <3>. QED  BY <1>6, <3>3, <3>4 DEF Stages, b, c
  <2>5. CASE x = c /\ FromMailbox(x)
    <3>1. /\ local[c] = << >> /\ local' = local
          /\ mailbox[c] # << >> /\ mailbox'[c] = Tail(mailbox[c])
          /\ handled'[c] = Append(handled[c], Head(mailbox[c]))
      BY <1>0, <2>1, <2>5 DEF FromMailbox, take, Typed
    <3>2. 0 \in Nat /\ 0 <= h /\ h = l
      <4>1. l <= h
        BY <1>6, <3>1, OrderedEmpty
      <4>. QED  BY <1>6, <4>1
    <3>3. in_order(a, handled[c], 0, l) /\ 0 <= l
      BY <1>6, <3>2
    <3>4. PICK k \in Nat : /\ l <= k /\ k <= m
                           /\ in_order(a, Append(handled[c], Head(mailbox[c])), 0, k)
                           /\ in_order(a, Tail(mailbox[c]), k, m)
      BY <1>3, <1>6, <3>1, <3>2, <3>3, MovesOn
    <3>5. in_order(a, local'[c], k, k)
      BY <3>1, OrderedEmpty
    <3>6. /\ in_order(a, handled'[c], 0, k) /\ in_order(a, mailbox'[c], k, m)
          /\ in_order(a, to_send(b)', m, s)
          /\ in_order(a, mailbox'[b], s, passed(a)') /\ s <= passed(a)' /\ k <= k
      BY <1>6, <2>2, <3>1, <3>4
    <3>. QED  BY <1>6, <3>4, <3>5, <3>6 DEF Stages, b, c
  <2>. QED  BY <2>1, <2>3, <2>4, <2>5
<1>14. ASSUME NEW x \in C, c_meanwhile(x) PROVE Stages(a)'
  <2>1. /\ mailbox[x] # << >> /\ mailbox' = [mailbox EXCEPT ![x] = Tail(@)]
        /\ received(x) = Head(mailbox[x]) /\ handled' = handled /\ num' = num
        /\ todo'[a] = todo[a] /\ todo'[b] = todo[b]
    BY <1>0, <1>14 DEF c_meanwhile, has_message, take, received, does, Typed
  <2>2. /\ mailbox'[b] = mailbox[b] /\ passed(a)' = passed(a) /\ to_send(b)' = to_send(b)
        /\ s <= passed(a)' /\ handled'[c] = handled[c]
    BY <1>0, <1>6, <1>7, <1>8, <2>1 DEF Typed
  <2>3. CASE x # c
    <3>1. local'[c] = local[c]
      BY <1>0, <1>14, <2>3 DEF c_meanwhile, Typed
    <3>2. SamePipe(a)
      BY <1>0, <2>1, <2>2, <2>3, <3>1 DEF SamePipe, b, c, Typed
    <3>. QED  BY <3>2, StagesKept
  <2>4. CASE x = c
    <3>1. mailbox'[c] = Tail(mailbox[c]) /\ mailbox[c] # << >> /\ Head(mailbox[c]) = received(c)
      BY <1>0, <2>1, <2>4 DEF Typed
    <3>2. CASE received(c).type = "WAKEUP10"
      <4>1. ~made_by(a, Head(mailbox[c])) /\ local'[c] = local[c]
        BY <1>14, <2>4, <3>1, <3>2 DEF made_by, c_meanwhile
      <4>2. in_order(a, mailbox'[c], l, m)
        BY <1>3, <1>6, <3>1, <4>1, OrderedTail
      <4>. QED  BY <1>6, <2>2, <4>1, <4>2 DEF Stages, b, c
    <3>3. CASE received(c).type # "WAKEUP10"
      <4>1. local'[c] = Append(local[c], Head(mailbox[c]))
        BY <1>0, <1>14, <2>4, <3>1, <3>3 DEF c_meanwhile, Typed
      <4>2. PICK k \in Nat : /\ l <= k /\ k <= m
                             /\ in_order(a, Append(local[c], Head(mailbox[c])), h, k)
                             /\ in_order(a, Tail(mailbox[c]), k, m)
        BY <1>3, <1>6, <3>1, MovesOn
      <4>3. h <= k /\ in_order(a, local'[c], h, k) /\ in_order(a, mailbox'[c], k, m)
        BY <1>6, <3>1, <4>1, <4>2
      <4>. QED  BY <1>6, <2>2, <4>2, <4>3 DEF Stages, b, c
    <3>. QED  BY <3>2, <3>3
  <2>. QED  BY <2>3, <2>4
<1>15. ASSUME NEW x \in C, timer_expire(x) PROVE Stages(a)'
  <2>1. /\ mailbox' = [mailbox EXCEPT ![x] = Append(@, wakeup10)] /\ todo' = todo
        /\ local' = local /\ handled' = handled /\ num' = num
    BY <1>15 DEF timer_expire, others
  <2>2. /\ mailbox'[b] = mailbox[b] /\ passed(a)' = passed(a) /\ to_send(b)' = to_send(b)
        /\ s <= passed(a)'
    BY <1>0, <1>6, <1>7, <1>8, <2>1 DEF Typed
  <2>3. in_order(a, mailbox'[c], l, m)
    <3>1. CASE x # c
      BY <1>0, <1>6, <2>1, <3>1 DEF Typed
    <3>2. CASE x = c
      <4>1. mailbox'[c] = Append(mailbox[c], wakeup10)
        BY <1>0, <2>1, <3>2 DEF Typed
      <4>2. wakeup10 \in Messages /\ ~made_by(a, wakeup10)
        <5>1. wakeup10 \in Accepts(c)
          BY <1>0 DEF Accepts
        <5>. QED  BY <1>3, <5>1 DEF made_by, wakeup10
      <4>. QED  BY <1>3, <1>6, <4>1, <4>2, OrderedAppend
    <3>. QED  BY <3>1, <3>2
  <2>. QED  BY <1>6, <2>1, <2>2, <2>3 DEF Stages, b, c
<1>16. ASSUME kcd_process \/ crt_process PROVE Stages(a)'
  <2>1. /\ mailbox'[b] = mailbox[b] /\ mailbox'[c] = mailbox[c] /\ todo' = todo
        /\ local' = local /\ handled' = handled /\ num' = num
    BY <1>0, <1>16 DEF kcd_process, crt_process, others, Typed
  <2>2. SamePipe(a)
    BY <1>7, <1>8, <2>1 DEF SamePipe, b, c
  <2>. QED  BY <2>2, StagesKept
<1>17. ASSUME NEW x \in A, NEW own \in BOOLEAN, command(x, own) PROVE Stages(a)'
  <2>1. /\ mailbox'[b] = mailbox[b] /\ mailbox'[c] = mailbox[c] /\ todo' = todo
        /\ local' = local /\ handled' = handled /\ num' = num
    BY <1>0, <1>17 DEF command, others, Typed
  <2>2. SamePipe(a)
    BY <1>7, <1>8, <2>1 DEF SamePipe, b, c
  <2>. QED  BY <2>2, StagesKept
<1>. QED  BY <1>10, <1>11, <1>12, <1>13, <1>14, <1>15, <1>16, <1>17
-----------------------------------------------------------------------------
\* What an A process is about to send: the last report it made, if it has not sent
\* it yet.
LEMMA AboutToSend ==
    ASSUME Typed, NEW a \in A, NEW n \in 1 .. 8, at_a(a, n)
    PROVE  to_send(a) \in Seq(Messages) /\ in_order(a, to_send(a), passed(a), num[a])
<1> DEFINE r == report(a, num[a] - 1)
           first == send("command", "KCD", registration)
           later == send("p", to_b[a], r)
           q == to_send(a)
<1>0. /\ passed(a) = (IF n \in {7, 8} THEN num[a] - 1 ELSE num[a]) /\ passed(a) \in Nat
      /\ num[a] \in Nat
  BY Passed DEF Typed
<1>1. /\ request("p").op = "request" /\ request("command").op = "request"
      /\ release("p").op = "release" /\ first.op = "send" /\ first.as = registration
      /\ later.op = "send" /\ later.as = r
  BY DEF request, release, send
<1>2. ~made_by(a, Blank) /\ ~made_by(a, registration) /\ made_by(a, r) /\ r.num = num[a] - 1
  BY DEF made_by, Blank, registration, report
<1>3. Blank \in Messages /\ registration \in Messages
  BY StressAssumption DEF Messages, Accepts, Pids, Processes
<1>4. n \in {7, 8} => r \in Messages
  <2>1. SUFFICES ASSUME n \in {7, 8} PROVE r \in Messages
    OBVIOUS
  <2>2. r \in Reports
    BY <1>0, <2>1 DEF report, Reports
  <2>3. to_b[a] \in B /\ to_b[a] \in Pids /\ to_b[a] \notin A /\ r.source = a
    BY StressAssumption DEF Pids, Processes, report
  <2>4. r \in Accepts(to_b[a])
    BY <2>2, <2>3 DEF Accepts
  <2>. QED  BY <2>3, <2>4 DEF Messages
<1>5. /\ n = 1 => todo[a] = <<request("p"), request("command"), first>>
      /\ n = 2 => todo[a] = <<request("command"), first>>
      /\ n = 3 => todo[a] = <<first>>
      /\ n \in {4, 5} => todo[a] = << >>
      /\ n = 6 => todo[a] = <<release("p")>>
      /\ n = 7 => todo[a] = <<request("p"), later>>
      /\ n = 8 => todo[a] = <<later>>
  BY DEF at_a
<1>. HIDE DEF r, first, later
<1>6. /\ DOMAIN q = DOMAIN todo[a]
      /\ \A i \in DOMAIN q : q[i] = IF todo[a][i].op = "send" THEN todo[a][i].as ELSE Blank
      /\ q = [i \in DOMAIN todo[a] |-> q[i]]
  BY DEF to_send
<1>. HIDE DEF q
<1>7. ASSUME NEW k \in Nat, DOMAIN q = 1 .. k, \A i \in 1 .. k : q[i] \in Messages
      PROVE  q \in Seq(Messages)
  <2>1. q \in [1 .. k -> Messages]
    BY <1>6, <1>7
  <2>. QED  BY <2>1, SeqDef
<1>8. ASSUME n \notin {7, 8}, \A i \in DOMAIN q : q[i] \in {Blank, registration}
      PROVE  in_order(a, q, passed(a), num[a])
  <2>1. reports_of(a, q) = {}
    BY <1>2, <1>8 DEF reports_of, made_by
  <2>2. num[a] .. num[a] - 1 = {}
    BY <1>0
  <2>3. passed(a) = num[a]
    BY <1>0, <1>8
  <2>. QED  BY <2>1, <2>2, <2>3 DEF in_order
<1>9. ASSUME n \in {7, 8}, NEW k \in DOMAIN q, q[k] = r, \A i \in DOMAIN q \ {k} : q[i] = Blank
      PROVE  in_order(a, q, passed(a), num[a])
  <2>1. reports_of(a, q) = {k}
    BY <1>2, <1>9 DEF reports_of, made_by
  <2>2. {q[i].num : i \in {k}} = {num[a] - 1}
    BY <1>2, <1>9
  <2>3. passed(a) .. num[a] - 1 = {num[a] - 1}
    BY <1>0, <1>9
  <2>4. \A i, j \in {k} : i < j => q[i].num < q[j].num
    <3>1. \A i, j \in {k} : i = j
      OBVIOUS
    <3>2. DOMAIN q \subseteq Nat
      BY <1>5, <1>6, <1>9
    <3>. QED  BY <1>9, <3>1, <3>2
  <2>. QED  BY <2>1, <2>2, <2>3, <2>4 DEF in_order
<1>11. CASE n = 1
  <2>1. DOMAIN q = 1 .. 3 /\ q[1] = Blank /\ q[2] = Blank /\ q[3] = registration
    BY <1>1, <1>5, <1>6, <1>11
  <2>2. \A i \in 1 .. 3 : q[i] \in {Blank, registration}
    BY <2>1
  <2>. QED  BY <1>3, <1>7, <1>8, <1>11, <2>1, <2>2 DEF q
<1>12. CASE n = 2
  <2>1. DOMAIN q = 1 .. 2 /\ q[1] = Blank /\ q[2] = registration
    BY <1>1, <1>5, <1>6, <1>12
  <2>2. \A i \in 1 .. 2 : q[i] \in {Blank, registration}
    BY <2>1
  <2>. QED  BY <1>3, <1>7, <1>8, <1>12, <2>1, <2>2 DEF q
<1>13. CASE n = 3
  <2>1. DOMAIN q = 1 .. 1 /\ q[1] = registration
    BY <1>1, <1>5, <1>6, <1>13
  <2>2. \A i \in 1 .. 1 : q[i] \in {Blank, registration}
    BY <2>1
  <2>. QED  BY <1>3, <1>7, <1>8, <1>13, <2>1, <2>2 DEF q
<1>14. CASE n \in {4, 5}
  <2>1. DOMAIN q = 1 .. 0
    BY <1>5, <1>6, <1>14
  <2>. QED  BY <1>7, <1>8, <1>14, <2>1 DEF q
<1>16. CASE n = 6
  <2>1. DOMAIN q = 1 .. 1 /\ q[1] = Blank
    BY <1>1, <1>5, <1>6, <1>16
  <2>2. \A i \in 1 .. 1 : q[i] \in {Blank, registration}
    BY <2>1
  <2>. QED  BY <1>3, <1>7, <1>8, <1>16, <2>1, <2>2 DEF q
<1>17. CASE n = 7
  <2>1. DOMAIN q = 1 .. 2 /\ q[1] = Blank /\ q[2] = r
    BY <1>1, <1>5, <1>6, <1>17
  <2>2. 2 \in DOMAIN q /\ \A i \in DOMAIN q \ {2} : q[i] = Blank
    BY <2>1
  <2>3. \A i \in 1 .. 2 : q[i] \in Messages
    BY <1>3, <1>4, <1>17, <2>1
  <2>. QED  BY <1>7, <1>9, <1>17, <2>1, <2>2, <2>3 DEF q
<1>18. CASE n = 8
  <2>1. DOMAIN q = 1 .. 1 /\ q[1] = r
    BY <1>1, <1>5, <1>6, <1>18
  <2>2. 1 \in DOMAIN q /\ \A i \in DOMAIN q \ {1} : q[i] = Blank
    BY <2>1
  <2>3. \A i \in 1 .. 1 : q[i] \in Messages
    BY <1>3, <1>4, <1>18, <2>1
  <2>. QED  BY <1>7, <1>9, <1>18, <2>1, <2>2, <2>3 DEF q
<1>. QED  BY <1>11, <1>12, <1>13, <1>14, <1>16, <1>17, <1>18

\* The pipelines put together.
LEMMA StagesInOrder ==
    ASSUME Typed, AtWork, \A a \in A : Stages(a)
    PROVE  PipelineInOrder
<1>. SUFFICES ASSUME NEW a \in A
              PROVE  LET b == to_b[a]
                         c == to_c[b]
                     IN  in_order(a, handled[c] \o local[c] \o mailbox[c]
                                     \o to_send(b) \o mailbox[b] \o to_send(a), 0, num[a])
  BY DEF PipelineInOrder
<1> DEFINE b == to_b[a]
           c == to_c[b]
<1>0. b \in B /\ c \in C /\ c \in Pids /\ b \in Pids
  BY StressAssumption DEF Processes, Pids
<1>1. /\ mailbox[c] \in Seq(Messages) /\ mailbox[b] \in Seq(Messages)
      /\ local[c] \in Seq(Messages) /\ handled[c] \in Seq(Messages)
      /\ Accepts(b) \subseteq Messages
  BY <1>0, QueuesOfMessages
<1>2. PICK n \in 1 .. 8 : at_a(a, n)
  BY DEF AtWork
<1>3. /\ to_send(a) \in Seq(Messages) /\ in_order(a, to_send(a), passed(a), num[a])
      /\ passed(a) \in Nat /\ num[a] \in Nat /\ passed(a) <= num[a]
  BY <1>2, AboutToSend, Passed DEF Typed
<1>4. to_send(b) \in Seq(Messages)
  <2>1. PICK k \in 1 .. 2 : at_b(b, k)
    BY <1>0 DEF AtWork
  <2>2. CASE k = 1
    <3>1. to_send(b) = << >>
      BY <1>0, <2>1, <2>2, InHands DEF at_b
    <3>. QED  BY <3>1
  <2>3. CASE k = 2
    <3>1. PICK m \in Accepts(b) : todo[b] = <<send("mymess", to_c[b], m)>>
      BY <2>1, <2>3 DEF at_b
    <3>2. to_send(b) = <<m>> /\ m \in Messages
      BY <1>0, <1>1, <3>1, InHands
    <3>. QED  BY <3>2
  <2>. QED  BY <2>2, <2>3
<1>5. PICK h \in Nat, l \in Nat, m \in Nat, s \in Nat :
          /\ h <= l /\ l <= m /\ m <= s /\ s <= passed(a)
          /\ in_order(a, handled[c], 0, h)
          /\ in_order(a, local[c], h, l)
          /\ in_order(a, mailbox[c], l, m)
          /\ in_order(a, to_send(b), m, s)
          /\ in_order(a, mailbox[b], s, passed(a))
  BY DEF Stages
<1>. HIDE DEF b, c
<1> DEFINE q2 == handled[c] \o local[c]
           q3 == q2 \o mailbox[c]
           q4 == q3 \o to_send(b)
           q5 == q4 \o mailbox[b]
<1>6. 0 \in Nat /\ 0 <= h /\ 0 <= l /\ 0 <= m /\ 0 <= s /\ 0 <= passed(a)
  BY <1>5, <1>3
<1>7. q2 \in Seq(Messages) /\ in_order(a, q2, 0, l)
  BY <1>1, <1>5, <1>6, OrderedConcat, ConcatProperties
<1>. HIDE DEF q2
<1>8. q3 \in Seq(Messages) /\ in_order(a, q3, 0, m)
  BY <1>1, <1>5, <1>6, <1>7, OrderedConcat, ConcatProperties
<1>. HIDE DEF q3
<1>9. q4 \in Seq(Messages) /\ in_order(a, q4, 0, s)
  BY <1>4, <1>5, <1>6, <1>8, OrderedConcat, ConcatProperties
<1>. HIDE DEF q4
<1>10. q5 \in Seq(Messages) /\ in_order(a, q5, 0, passed(a))
  BY <1>1, <1>3, <1>5, <1>6, <1>9, OrderedConcat, ConcatProperties
<1>. HIDE DEF q5
<1>11. in_order(a, q5 \o to_send(a), 0, num[a])
  BY <1>3, <1>6, <1>10, OrderedConcat
<1>. QED  BY <1>11 DEF q5, q4, q3, q2, b, c

\* A process that sends or releases next has the block.
LEMMA OwnsIt ==
    ASSUME Typed, AtWork
    PROVE  UsesOnlyItsOwn
<1>. SUFFICES ASSUME NEW p \in Processes, todo[p] # << >>, Head(todo[p]).op # "request"
              PROVE  Head(todo[p]).what \in DOMAIN hold[p]
  BY DEF UsesOnlyItsOwn, Owns, pointer
<1>1. CASE p \in A
  <2>1. PICK n \in 1 .. 8 : at_a(p, n)
    BY <1>1 DEF AtWork
  <2>. QED  BY <2>1 DEF at_a, request, release, send
<1>2. CASE p \in B
  <2>1. PICK n \in 1 .. 2 : at_b(p, n)
    BY <1>2 DEF AtWork
  <2>2. PICK m : todo[p] = <<send("mymess", to_c[p], m)>> /\ DOMAIN hold[p] = {"mymess"}
    BY <2>1 DEF at_b
  <2>3. Head(todo[p]) = send("mymess", to_c[p], m)
    BY <2>2
  <2>4. Head(todo[p]).what = "mymess"
    BY <2>3 DEF send
  <2>. QED  BY <2>2, <2>4
<1>3. CASE p = C1
  <2>1. PICK n \in 1 .. 6 : at_c1(n)
    BY DEF AtWork
  <2>. QED  BY <1>3, <2>1 DEF at_c1, request, release, send, delayed_send
<1>4. CASE p = C2
  <2>1. PICK n \in 1 .. 8 : at_c2(n)
    BY DEF AtWork
  <2>. QED  BY <1>4, <2>1 DEF at_c2, request, release, send, delayed_send
<1>. QED  BY <1>1, <1>2, <1>3, <1>4 DEF Processes, C

LEMMA BootsWell ==
    ASSUME Init
    PROVE  Typed /\ AtWork /\ (\A c \in C : WakesOnce(c)) /\ (\A a \in A : Stages(a))
<1>0. /\ \A q \in A : q \notin B /\ q \notin C /\ q \in Processes
      /\ \A q \in B : q \notin A /\ q \notin C /\ q \in Processes /\ q \in Pids
      /\ \A q \in C : q \notin A /\ q \notin B /\ q \in Processes /\ q \in Pids
      /\ C1 \in C /\ C2 \in C /\ C1 # C2 /\ NUM_MEM_BLOCKS \in Nat
      /\ \A a \in A : to_b[a] \in B /\ to_c[to_b[a]] \in C
  BY StressAssumption DEF Processes, Pids, C
<1>1. Typed
  BY <1>0 DEF Init, Typed
<1>2. AtWork
  <2>1. ASSUME NEW a \in A PROVE at_a(a, 1)
    <3>1. todo[a] = <<request("p"), request("command"), send("command", "KCD", registration)>>
      BY <1>0, CallsInARow DEF Init, register_command
    <3>2. DOMAIN hold[a] = {} /\ num[a] = 0 /\ a \notin started
      BY <1>0 DEF Init
    <3>. QED  BY <3>1, <3>2 DEF at_a
  <2>2. ASSUME NEW b \in B PROVE at_b(b, 1)
    BY <1>0 DEF Init, at_b
  <2>3. at_c1(1)
    BY <1>0 DEF Init, at_c1
  <2>4. at_c2(1)
    <3>1. todo[C2] = <<request("q")>> /\ DOMAIN hold[C2] = {} /\ C2 \notin hibernates
      BY <1>0 DEF Init
    <3>. QED  BY <3>1 DEF at_c2
  <2>. QED  BY <2>1, <2>2, <2>3, <2>4 DEF AtWork
<1>3. ASSUME NEW c \in C PROVE WakesOnce(c)
  <2>1. c \notin hibernates /\ c \notin delayed /\ mailbox[c] = << >>
    BY <1>0 DEF Init
  <2>. QED  BY <2>1 DEF WakesOnce, wakeups
<1>4. ASSUME NEW a \in A PROVE Stages(a)
  <2> DEFINE b == to_b[a]
             c == to_c[b]
  <2>1. handled[c] = << >> /\ local[c] = << >> /\ mailbox[c] = << >> /\ mailbox[b] = << >>
    BY <1>0 DEF Init
  <2>2. to_send(b) = << >>
    <3>1. todo[b] = << >>
      BY <1>0 DEF Init
    <3>. QED  BY <1>0, <3>1, InHands
  <2>3. passed(a) = 0
    BY DEF Init, passed
  <2>4. in_order(a, << >>, 0, 0) /\ 0 \in Nat /\ 0 <= 0
    BY OrderedEmpty
  <2>. QED  BY <2>1, <2>2, <2>3, <2>4 DEF Stages
<1>. QED  BY <1>1, <1>2, <1>3, <1>4

LEMMA NextGoesOn ==
    ASSUME Typed, AtWork, \A c \in C : WakesOnce(c), \A a \in A : Stages(a), [Next]_vars
    PROVE  Typed' /\ AtWork' /\ (\A c \in C : WakesOnce(c)') /\ (\A a \in A : Stages(a)')
<1>1. ASSUME NEW p \in Processes, Steps(p)
      PROVE  Typed' /\ AtWork' /\ (\A c \in C : WakesOnce(c)') /\ (\A a \in A : Stages(a)')
  BY <1>1, CallsTyped, NoDelayedSend, CallsAtWork, CallsWake, CallsKeepStages
<1>2. ASSUME \/ \E a \in A : a_command(a) \/ a_report(a)
             \/ \E b \in B : process_b(b)
             \/ \E c \in C : c_report(c) \/ c_meanwhile(c)
      PROVE  Typed' /\ AtWork' /\ (\A c \in C : WakesOnce(c)') /\ (\A a \in A : Stages(a)')
  BY <1>2, OtherStepsTyped, LoopsAtWork, OtherStepsWake, OtherStepsKeepStages
<1>3. ASSUME \/ \E c \in C : timer_expire(c)
             \/ kcd_process \/ crt_process
             \/ \E a \in A, own \in BOOLEAN : command(a, own)
      PROVE  Typed' /\ AtWork' /\ (\A c \in C : WakesOnce(c)') /\ (\A a \in A : Stages(a)')
  <2>1. Typed'
    BY <1>3, OtherStepsTyped
  <2>2. \A c \in C : WakesOnce(c)'
    BY <1>3, OtherStepsWake
  <2>3. \A a \in A : Stages(a)'
    BY <1>3, OtherStepsKeepStages
  <2>4. /\ hold' = hold /\ todo' = todo /\ num' = num /\ started' = started
        /\ hibernates' = hibernates
    BY <1>3 DEF timer_expire, kcd_process, crt_process, command, others
  <2>5. AtWork'
    BY <2>4 DEF AtWork, at_a, at_b, at_c1, at_c2
  <2>. QED  BY <2>1, <2>2, <2>3, <2>5
<1>4. ASSUME UNCHANGED vars
      PROVE  Typed' /\ AtWork' /\ (\A c \in C : WakesOnce(c)') /\ (\A a \in A : Stages(a)')
  <2>0. /\ free' = free /\ mailbox' = mailbox /\ local' = local /\ delayed' = delayed
        /\ hold' = hold /\ todo' = todo /\ started' = started /\ num' = num
        /\ hibernates' = hibernates /\ handled' = handled /\ commands' = commands
    BY <1>4 DEF vars
  <2>1. Typed'
    BY <2>0 DEF Typed
  <2>2. AtWork'
    BY <2>0 DEF AtWork, at_a, at_b, at_c1, at_c2
  <2>3. \A c \in C : WakesOnce(c)'
    BY <2>0 DEF WakesOnce, wakeups
  <2>4. ASSUME NEW a \in A PROVE Stages(a)'
    <3>1. to_send(to_b[a])' = to_send(to_b[a])
      BY <2>0 DEF to_send
    <3>2. passed(a)' = passed(a)
      BY <2>0 DEF passed
    <3>3. SamePipe(a)
      BY <2>0, <3>1, <3>2 DEF SamePipe
    <3>. QED  BY <1>4, <3>3, StagesKept
  <2>. QED  BY <2>1, <2>2, <2>3, <2>4
<1>5. \A p \in A \cup B \cup C : p \in Processes
  BY DEF Processes
<1>. QED  BY <1>1, <1>2, <1>3, <1>4, <1>5 DEF Next, System

-----------------------------------------------------------------------------
\* The inductive invariant.
Inv == Typed /\ AtWork /\ (\A c \in C : WakesOnce(c)) /\ (\A a \in A : Stages(a))

\* Every process is in one of the places of its program, with the blocks it has
\* there; a C process that waits is woken once; no report is out of its turn.
THEOREM ProcessesAtWork == Spec => []Inv
<1>1. Init => Inv
  BY BootsWell DEF Inv
<1>2. Inv /\ [Next]_vars => Inv'
  BY NextGoesOn DEF Inv
<1>. QED  BY <1>1, <1>2, PTL DEF Spec

\* From an A process to its C process the reports stay in the order of their
\* numbers, none missing and none twice, through five queues and two processes.
THEOREM PipelineStaysInOrder == Spec => []PipelineInOrder
<1>1. Inv => PipelineInOrder
  BY StagesInOrder DEF Inv
<1>. QED  BY <1>1, ProcessesAtWork, PTL

\* Every process sends and releases only blocks it has: what its pointer names was
\* requested or received, and neither sent nor released since.
THEOREM BlocksAreOwn == Spec => []UsesOnlyItsOwn
<1>1. Inv => UsesOnlyItsOwn
  BY OwnsIt DEF Inv
<1>. QED  BY <1>1, ProcessesAtWork, PTL
-----------------------------------------------------------------------------
\* The pairs of a member p of S and an element of f[p].
pairs(S, f) == UNION {{<<p, x>> : x \in f[p]} : p \in S}

LEMMA PairMembers ==
    ASSUME NEW S, NEW f
    PROVE  \A z : z \in pairs(S, f) <=> \E p \in S : \E x \in f[p] : z = <<p, x>>
BY DEF pairs

LEMMA PairAdded ==
    ASSUME NEW S, NEW f, NEW g, NEW p \in S, NEW x, x \notin f[p], g[p] = f[p] \cup {x},
           \A q \in S \ {p} : g[q] = f[q], IsFiniteSet(pairs(S, f))
    PROVE  /\ IsFiniteSet(pairs(S, g))
           /\ Cardinality(pairs(S, g)) = Cardinality(pairs(S, f)) + 1
<1>1. <<p, x>> \notin pairs(S, f)
  BY PairMembers
<1>2. pairs(S, g) = pairs(S, f) \cup {<<p, x>>}
  <2>1. ASSUME NEW z, z \in pairs(S, g) PROVE z \in pairs(S, f) \cup {<<p, x>>}
    <3>1. PICK q \in S : \E y \in g[q] : z = <<q, y>>
      BY <2>1, PairMembers
    <3>2. PICK y \in g[q] : z = <<q, y>>
      BY <3>1
    <3>3. CASE y \in f[q]
      BY <3>2, <3>3, PairMembers
    <3>4. CASE y \notin f[q]
      BY <3>2, <3>4
    <3>. QED  BY <3>3, <3>4
  <2>2. ASSUME NEW z, z \in pairs(S, f) PROVE z \in pairs(S, g)
    <3>1. PICK q \in S : \E y \in f[q] : z = <<q, y>>
      BY <2>2, PairMembers
    <3>2. PICK y \in f[q] : z = <<q, y>>
      BY <3>1
    <3>3. y \in g[q]
      BY <3>2
    <3>. QED  BY <3>2, <3>3, PairMembers
  <2>3. <<p, x>> \in pairs(S, g)
    BY PairMembers
  <2>. QED  BY <2>1, <2>2, <2>3
<1> DEFINE z == <<p, x>>
           P == pairs(S, f)
<1>3. z \notin P /\ IsFiniteSet(P) /\ pairs(S, g) = P \cup {z}
  BY <1>1, <1>2
<1>. HIDE DEF z, P
<1>4. IsFiniteSet(P \cup {z}) /\ Cardinality(P \cup {z}) = Cardinality(P) + 1
  BY <1>3, FS_AddElement
<1>. QED  BY <1>3, <1>4 DEF P

LEMMA PairRemoved ==
    ASSUME NEW S, NEW f, NEW g, NEW p \in S, NEW x \in f[p], g[p] = f[p] \ {x},
           \A q \in S \ {p} : g[q] = f[q], IsFiniteSet(pairs(S, f))
    PROVE  /\ IsFiniteSet(pairs(S, g))
           /\ Cardinality(pairs(S, g)) = Cardinality(pairs(S, f)) - 1
<1>1. <<p, x>> \in pairs(S, f)
  BY PairMembers
<1>2. pairs(S, g) = pairs(S, f) \ {<<p, x>>}
  <2>1. ASSUME NEW z, z \in pairs(S, g) PROVE z \in pairs(S, f) \ {<<p, x>>}
    <3>1. PICK q \in S : \E y \in g[q] : z = <<q, y>>
      BY <2>1, PairMembers
    <3>2. PICK y \in g[q] : z = <<q, y>>
      BY <3>1
    <3>3. y \in f[q] /\ z # <<p, x>>
      BY <3>2
    <3>. QED  BY <3>2, <3>3, PairMembers
  <2>2. ASSUME NEW z, z \in pairs(S, f), z # <<p, x>> PROVE z \in pairs(S, g)
    <3>1. PICK q \in S : \E y \in f[q] : z = <<q, y>>
      BY <2>2, PairMembers
    <3>2. PICK y \in f[q] : z = <<q, y>>
      BY <3>1
    <3>3. y \in g[q]
      BY <2>2, <3>2
    <3>. QED  BY <3>2, <3>3, PairMembers
  <2>. QED  BY <2>1, <2>2
<1> DEFINE z == <<p, x>>
           P == pairs(S, f)
<1>3. z \in P /\ IsFiniteSet(P) /\ pairs(S, g) = P \ {z}
  BY <1>1, <1>2
<1>. HIDE DEF z, P
<1>4. IsFiniteSet(P \ {z}) /\ Cardinality(P \ {z}) = Cardinality(P) - 1
  BY <1>3, FS_RemoveElement
<1>. QED  BY <1>3, <1>4 DEF P

\* How many messages are in the queues q of the processes of S.
LEMMA QueueGrows ==
    ASSUME NEW S, NEW q, NEW r, NEW p \in S, NEW M, NEW m \in M, q[p] \in Seq(M),
           r[p] = Append(q[p], m), \A x \in S \ {p} : r[x] = q[x],
           IsFiniteSet(positions(q, S))
    PROVE  /\ IsFiniteSet(positions(r, S))
           /\ Cardinality(positions(r, S)) = Cardinality(positions(q, S)) + 1
<1> DEFINE f == [x \in S |-> DOMAIN q[x]]
           g == [x \in S |-> DOMAIN r[x]]
           s == Append(q[p], m)
<1>1. positions(q, S) = pairs(S, f) /\ positions(r, S) = pairs(S, g)
  BY DEF positions, pairs
<1>2. Len(q[p]) \in Nat /\ DOMAIN q[p] = 1 .. Len(q[p])
  BY LenProperties
<1>3. s \in Seq(M) /\ Len(s) = Len(q[p]) + 1
  BY AppendProperties
<1>4. DOMAIN s = 1 .. Len(q[p]) + 1
  BY <1>3, LenProperties
<1>5. DOMAIN s = DOMAIN q[p] \cup {Len(q[p]) + 1} /\ Len(q[p]) + 1 \notin DOMAIN q[p]
  BY <1>2, <1>4
<1>. HIDE DEF s
<1> DEFINE k == Len(q[p]) + 1
<1>6. g[p] = f[p] \cup {k} /\ k \notin f[p]
  BY <1>5 DEF s
<1>7. \A x \in S \ {p} : g[x] = f[x]
  OBVIOUS
<1>8. IsFiniteSet(pairs(S, f))
  BY <1>1
<1>. HIDE DEF f, g, k
<1>9. IsFiniteSet(pairs(S, g)) /\ Cardinality(pairs(S, g)) = Cardinality(pairs(S, f)) + 1
  BY ONLY p \in S, <1>6, <1>7, <1>8, PairAdded
<1>. QED  BY <1>1, <1>9

LEMMA QueueShrinks ==
    ASSUME NEW S, NEW q, NEW r, NEW p \in S, NEW M, q[p] \in Seq(M), q[p] # << >>,
           r[p] = Tail(q[p]), \A x \in S \ {p} : r[x] = q[x],
           IsFiniteSet(positions(q, S))
    PROVE  /\ IsFiniteSet(positions(r, S))
           /\ Cardinality(positions(r, S)) = Cardinality(positions(q, S)) - 1
<1> DEFINE f == [x \in S |-> DOMAIN q[x]]
           g == [x \in S |-> DOMAIN r[x]]
           s == Tail(q[p])
<1>1. positions(q, S) = pairs(S, f) /\ positions(r, S) = pairs(S, g)
  BY DEF positions, pairs
<1>2. Len(q[p]) \in Nat \ {0} /\ DOMAIN q[p] = 1 .. Len(q[p])
  BY EmptySeq, LenProperties
<1>3. s \in Seq(M) /\ Len(s) = Len(q[p]) - 1
  BY HeadTailProperties
<1>4. DOMAIN s = 1 .. Len(q[p]) - 1
  BY <1>3, LenProperties
<1>5. DOMAIN s = DOMAIN q[p] \ {Len(q[p])} /\ Len(q[p]) \in DOMAIN q[p]
  BY <1>2, <1>4
<1>. HIDE DEF s
<1>6. g[p] = f[p] \ {Len(q[p])} /\ Len(q[p]) \in f[p]
  BY <1>5 DEF s
<1>7. \A x \in S \ {p} : g[x] = f[x]
  OBVIOUS
<1>. HIDE DEF f, g
<1>. QED  BY <1>1, <1>6, <1>7, PairRemoved
-----------------------------------------------------------------------------
\* The pointers of a process that count, in every place of its program.
live(p) == DOMAIN hold[p] \ dead(p)
live_a(n) == IF n = 3 THEN {"command"} ELSE IF n \in {6, 8} THEN {"p"} ELSE {}
live_b(n) == IF n = 2 THEN {"mymess"} ELSE {}
live_c1(n) == IF n = 1 THEN {} ELSE IF n = 5 THEN {"p", "string"} ELSE {"p"}
live_c2(n) == IF n \in {1, 4} THEN {} ELSE IF n = 5 THEN {"p", "q"}
              ELSE IF n = 7 THEN {"q", "string"} ELSE {"q"}

LEMMA Kinds ==
    /\ \A a \in A : a \notin B /\ a # C1 /\ a # C2
    /\ \A b \in B : b \notin A /\ b # C1 /\ b # C2
    /\ C1 \notin A /\ C2 \notin A /\ C1 # C2 /\ C1 \notin B /\ C2 \notin B
BY StressAssumption DEF C

LEMMA LiveOfA ==
    ASSUME NEW a \in A, NEW n \in 1 .. 8
    PROVE  /\ at_a(a, n) => live(a) = live_a(n)
           /\ at_a(a, n)' => live(a)' = live_a(n)
<1>1. /\ dead(a) = {w \in DOMAIN hold[a] : num[a] = 0 /\ w = "p" /\ hold[a][w] = Blank}
      /\ dead(a)' = {w \in DOMAIN hold'[a] : num'[a] = 0 /\ w = "p" /\ hold'[a][w] = Blank}
  BY Kinds DEF dead
<1>2. ASSUME at_a(a, n) PROVE live(a) = live_a(n)
  <2>1. CASE n \in {1, 4, 5}
    BY <1>1, <1>2, <2>1 DEF at_a, live, live_a
  <2>2. CASE n = 2
    BY <1>1, <1>2, <2>2 DEF at_a, live, live_a
  <2>3. CASE n = 3
    BY <1>1, <1>2, <2>3 DEF at_a, live, live_a
  <2>4. CASE n = 6
    BY <1>1, <1>2, <2>4 DEF at_a, live, live_a
  <2>5. CASE n \in {7, 8}
    BY <1>1, <1>2, <2>5 DEF at_a, live, live_a
  <2>. QED  BY <2>1, <2>2, <2>3, <2>4, <2>5
<1>3. ASSUME at_a(a, n)' PROVE live(a)' = live_a(n)
  <2>1. CASE n \in {1, 4, 5}
    BY <1>1, <1>3, <2>1 DEF at_a, live, live_a
  <2>2. CASE n = 2
    BY <1>1, <1>3, <2>2 DEF at_a, live, live_a
  <2>3. CASE n = 3
    BY <1>1, <1>3, <2>3 DEF at_a, live, live_a
  <2>4. CASE n = 6
    BY <1>1, <1>3, <2>4 DEF at_a, live, live_a
  <2>5. CASE n \in {7, 8}
    BY <1>1, <1>3, <2>5 DEF at_a, live, live_a
  <2>. QED  BY <2>1, <2>2, <2>3, <2>4, <2>5
<1>. QED  BY <1>2, <1>3

LEMMA LiveOfB ==
    ASSUME NEW b \in B, NEW n \in 1 .. 2
    PROVE  /\ at_b(b, n) => live(b) = live_b(n)
           /\ at_b(b, n)' => live(b)' = live_b(n)
<1>1. dead(b) = {} /\ dead(b)' = {}
  BY Kinds DEF dead
<1>2. live(b) = DOMAIN hold[b] /\ live(b)' = DOMAIN hold'[b]
  BY <1>1 DEF live
<1>3. ASSUME at_b(b, n) PROVE live(b) = live_b(n)
  <2>1. CASE n = 1
    BY <1>2, <1>3, <2>1 DEF at_b, live_b
  <2>2. CASE n = 2
    BY <1>2, <1>3, <2>2 DEF at_b, live_b
  <2>. QED  BY <2>1, <2>2
<1>4. ASSUME at_b(b, n)' PROVE live(b)' = live_b(n)
  <2>1. CASE n = 1
    BY <1>2, <1>4, <2>1 DEF at_b, live_b
  <2>2. CASE n = 2
    BY <1>2, <1>4, <2>2 DEF at_b, live_b
  <2>. QED  BY <2>1, <2>2
<1>. QED  BY <1>3, <1>4

LEMMA LiveOfC1 ==
    ASSUME NEW n \in 1 .. 6
    PROVE  /\ at_c1(n) => live(C1) = live_c1(n)
           /\ at_c1(n)' => live(C1)' = live_c1(n)
<1>1. /\ dead(C1) = DOMAIN hold[C1] \cap {"q"}
      /\ dead(C1)' = DOMAIN hold'[C1] \cap {"q"}
  BY Kinds DEF dead
<1>2. live(C1) = DOMAIN hold[C1] \ {"q"} /\ live(C1)' = DOMAIN hold'[C1] \ {"q"}
  BY <1>1 DEF live
<1>3. at_c1(n) => live(C1) = live_c1(n)
  BY <1>2 DEF at_c1, live_c1
<1>4. at_c1(n)' => live(C1)' = live_c1(n)
  BY <1>2 DEF at_c1, live_c1
<1>. QED  BY <1>3, <1>4

LEMMA LiveOfC2 ==
    ASSUME NEW n \in 1 .. 8
    PROVE  /\ at_c2(n) => live(C2) = live_c2(n)
           /\ at_c2(n)' => live(C2)' = live_c2(n)
<1>1. /\ dead(C2) = {w \in DOMAIN hold[C2] : w = "p" /\ hold[C2][w].num % TWENTY = 0}
      /\ dead(C2)' = {w \in DOMAIN hold'[C2] : w = "p" /\ hold'[C2][w].num % TWENTY = 0}
  BY Kinds DEF dead
<1>2. /\ dead(C2) = IF "p" \in DOMAIN hold[C2] /\ hold[C2]["p"].num % TWENTY = 0
                    THEN {"p"} ELSE {}
      /\ dead(C2)' = IF "p" \in DOMAIN hold'[C2] /\ hold'[C2]["p"].num % TWENTY = 0
                     THEN {"p"} ELSE {}
  BY <1>1
<1>3. ASSUME at_c2(n) PROVE live(C2) = live_c2(n)
  <2>1. CASE n \in {1, 2}
    BY <1>2, <1>3, <2>1 DEF at_c2, live, live_c2
  <2>2. CASE n \in {3, 4, 5}
    BY <1>2, <1>3, <2>2 DEF at_c2, live, live_c2
  <2>3. CASE n \in {6, 7, 8}
    BY <1>2, <1>3, <2>3 DEF at_c2, live, live_c2
  <2>. QED  BY <2>1, <2>2, <2>3
<1>4. ASSUME at_c2(n)' PROVE live(C2)' = live_c2(n)
  <2>1. CASE n \in {1, 2}
    BY <1>2, <1>4, <2>1 DEF at_c2, live, live_c2
  <2>2. CASE n \in {3, 4, 5}
    BY <1>2, <1>4, <2>2 DEF at_c2, live, live_c2
  <2>3. CASE n \in {6, 7, 8}
    BY <1>2, <1>4, <2>3 DEF at_c2, live, live_c2
  <2>. QED  BY <2>1, <2>2, <2>3
<1>. QED  BY <1>3, <1>4

LEMMA LiveElsewhere ==
    ASSUME NEW q, hold'[q] = hold[q], q \in A => num'[q] = num[q]
    PROVE  live(q)' = live(q)
<1>1. dead(q)' = dead(q)
  BY DEF dead
<1>. QED  BY <1>1 DEF live

\* How many of these pointers there are, when those of one process change.
LEMMA HeldGrows ==
    ASSUME NEW p \in Processes, NEW w, w \notin live(p), live(p)' = live(p) \cup {w},
           \A q \in Processes \ {p} : live(q)' = live(q), IsFiniteSet(held)
    PROVE  IsFiniteSet(held') /\ Cardinality(held') = Cardinality(held) + 1
<1> DEFINE f == [q \in Processes |-> live(q)]
           g == [q \in Processes |-> live(q)']
<1>1. held = pairs(Processes, f) /\ held' = pairs(Processes, g)
  BY DEF held, pairs, live
<1>2. g[p] = f[p] \cup {w} /\ w \notin f[p] /\ \A q \in Processes \ {p} : g[q] = f[q]
  OBVIOUS
<1>3. IsFiniteSet(pairs(Processes, f))
  BY <1>1
<1>. HIDE DEF f, g
<1>4. /\ IsFiniteSet(pairs(Processes, g))
      /\ Cardinality(pairs(Processes, g)) = Cardinality(pairs(Processes, f)) + 1
  BY ONLY p \in Processes, <1>2, <1>3, PairAdded
<1>. QED  BY <1>1, <1>4

LEMMA HeldShrinks ==
    ASSUME NEW p \in Processes, NEW w \in live(p), live(p)' = live(p) \ {w},
           \A q \in Processes \ {p} : live(q)' = live(q), IsFiniteSet(held)
    PROVE  IsFiniteSet(held') /\ Cardinality(held') = Cardinality(held) - 1
<1> DEFINE f == [q \in Processes |-> live(q)]
           g == [q \in Processes |-> live(q)']
<1>1. held = pairs(Processes, f) /\ held' = pairs(Processes, g)
  BY DEF held, pairs, live
<1>2. g[p] = f[p] \ {w} /\ w \in f[p] /\ \A q \in Processes \ {p} : g[q] = f[q]
  OBVIOUS
<1>3. IsFiniteSet(pairs(Processes, f))
  BY <1>1
<1>. HIDE DEF f, g
<1>4. /\ IsFiniteSet(pairs(Processes, g))
      /\ Cardinality(pairs(Processes, g)) = Cardinality(pairs(Processes, f)) - 1
  BY ONLY p \in Processes, <1>2, <1>3, PairRemoved
<1>. QED  BY <1>1, <1>4

LEMMA HeldStays ==
    ASSUME \A q \in Processes : live(q)' = live(q)
    PROVE  held' = held
BY DEF held, live
-----------------------------------------------------------------------------
\* The places where blocks are, and the numbers that make up the lost ones.
mailed == positions(mailbox, Pids)
queued == positions(local, C)
registered == {a \in A : Len(todo[a]) < 3}
shown == marks(mailbox["CRT"], {text(1)})
twentieth_reports == {r \in Reports : r.num % TWENTY = 0}
asked(w) == one_if(still_calls(C1, w))

Places == IsFiniteSet(mailed) /\ IsFiniteSet(queued) /\ IsFiniteSet(held)

LEMMA Registered ==
    ASSUME NEW a \in A, NEW n \in 1 .. 8
    PROVE  /\ at_a(a, n) => (a \in registered <=> n # 1)
           /\ at_a(a, n)' => (a \in registered' <=> n # 1)
<1>1. ASSUME at_a(a, n) PROVE a \in registered <=> n # 1
  <2>1. CASE n = 1
    <3>1. \E x, y, z : todo[a] = <<x, y, z>>
      BY <1>1, <2>1 DEF at_a
    <3>2. Len(todo[a]) = 3
      BY <3>1
    <3>. QED  BY <2>1, <3>2 DEF registered
  <2>2. CASE n \in {2, 7}
    <3>1. \E x, y : todo[a] = <<x, y>>
      BY <1>1, <2>2 DEF at_a
    <3>2. Len(todo[a]) = 2
      BY <3>1
    <3>3. n # 1 /\ Len(todo[a]) < 3
      BY <2>2, <3>2
    <3>. QED  BY <3>3 DEF registered
  <2>3. CASE n \in {3, 6, 8}
    <3>1. \E x : todo[a] = <<x>>
      BY <1>1, <2>3 DEF at_a
    <3>2. Len(todo[a]) = 1
      BY <3>1
    <3>3. n # 1 /\ Len(todo[a]) < 3
      BY <2>3, <3>2
    <3>. QED  BY <3>3 DEF registered
  <2>4. CASE n \in {4, 5}
    <3>1. Len(todo[a]) = 0
      BY <1>1, <2>4 DEF at_a
    <3>. QED  BY <2>4, <3>1 DEF registered
  <2>. QED  BY <2>1, <2>2, <2>3, <2>4
<1>2. ASSUME at_a(a, n)' PROVE a \in registered' <=> n # 1
  <2>1. CASE n = 1
    <3>1. \E x, y, z : todo'[a] = <<x, y, z>>
      BY <1>2, <2>1 DEF at_a
    <3>2. Len(todo'[a]) = 3
      BY <3>1
    <3>. QED  BY <2>1, <3>2 DEF registered
  <2>2. CASE n \in {2, 7}
    <3>1. \E x, y : todo'[a] = <<x, y>>
      BY <1>2, <2>2 DEF at_a
    <3>2. Len(todo'[a]) = 2
      BY <3>1
    <3>3. n # 1 /\ Len(todo'[a]) < 3
      BY <2>2, <3>2
    <3>. QED  BY <3>3 DEF registered
  <2>3. CASE n \in {3, 6, 8}
    <3>1. \E x : todo'[a] = <<x>>
      BY <1>2, <2>3 DEF at_a
    <3>2. Len(todo'[a]) = 1
      BY <3>1
    <3>3. n # 1 /\ Len(todo'[a]) < 3
      BY <2>3, <3>2
    <3>. QED  BY <3>3 DEF registered
  <2>4. CASE n \in {4, 5}
    <3>1. Len(todo'[a]) = 0
      BY <1>2, <2>4 DEF at_a
    <3>. QED  BY <2>4, <3>1 DEF registered
  <2>. QED  BY <2>1, <2>2, <2>3, <2>4
<1>. QED  BY <1>1, <1>2

LEMMA RegisteredFinite ==
    ASSUME NEW S \in SUBSET A
    PROVE  IsFiniteSet(S) /\ Cardinality(S) \in Nat
BY FS_Subset, FS_CardinalityType, StressAssumption

\* What C1 has still to ask for, in every place of its program.
LEMMA Asked ==
    ASSUME NEW n \in 1 .. 6
    PROVE  /\ at_c1(n) => /\ asked("q") = IF n = 3 THEN 1 ELSE 0
                          /\ asked("string") = IF n \in {3, 4, 5} THEN 1 ELSE 0
           /\ at_c1(n)' => /\ asked("q")' = IF n = 3 THEN 1 ELSE 0
                           /\ asked("string")' = IF n \in {3, 4, 5} THEN 1 ELSE 0
<1> DEFINE x == request("q")
           y == request("string")
           z == send("string", "CRT", text(1))
           u == delayed_send("p")
           v == release("p")
           some(calls, w) == \E i \in DOMAIN calls : calls[i].what = w
           form(k) == IF k = 1 THEN << >> ELSE IF k = 2 THEN <<v>>
                      ELSE IF k = 3 THEN <<x, y, z, u>> ELSE IF k = 4 THEN <<y, z, u>>
                      ELSE IF k = 5 THEN <<z, u>> ELSE <<u>>
<1>1. (at_c1(n) => todo[C1] = form(n)) /\ (at_c1(n)' => todo'[C1] = form(n))
  <2>1. at_c1(n) => todo[C1] = form(n)
    BY DEF at_c1
  <2>2. at_c1(n)' => todo'[C1] = form(n)
    BY DEF at_c1
  <2>. QED  BY <2>1, <2>2
<1>2. /\ x.what = "q" /\ y.what = "string" /\ z.what = "string" /\ u.what = "p"
      /\ v.what = "p"
  BY DEF request, send, delayed_send, release
<1>. HIDE DEF x, y, z, u, v, form, some
<1>3. some(form(n), "q") <=> n = 3
  <2>1. CASE n = 1
    BY <2>1 DEF some, form
  <2>2. CASE n = 2
    BY <1>2, <2>2 DEF some, form
  <2>3. CASE n = 3
    BY <1>2, <2>3 DEF some, form
  <2>4. CASE n = 4
    BY <1>2, <2>4 DEF some, form
  <2>5. CASE n \in {5, 6}
    BY <1>2, <2>5 DEF some, form
  <2>. QED  BY <2>1, <2>2, <2>3, <2>4, <2>5
<1>4. some(form(n), "string") <=> n \in {3, 4, 5}
  <2>1. CASE n = 1
    BY <2>1 DEF some, form
  <2>2. CASE n = 2
    BY <1>2, <2>2 DEF some, form
  <2>3. CASE n = 3
    BY <1>2, <2>3 DEF some, form
  <2>4. CASE n = 4
    BY <1>2, <2>4 DEF some, form
  <2>5. CASE n \in {5, 6}
    BY <1>2, <2>5 DEF some, form
  <2>. QED  BY <2>1, <2>2, <2>3, <2>4, <2>5
<1>5. ASSUME at_c1(n)
      PROVE  /\ asked("q") = IF n = 3 THEN 1 ELSE 0
             /\ asked("string") = IF n \in {3, 4, 5} THEN 1 ELSE 0
  <2>1. todo[C1] = form(n)
    BY <1>1, <1>5
  <2>. QED  BY <1>3, <1>4, <2>1 DEF asked, one_if, still_calls, some
<1>6. ASSUME at_c1(n)'
      PROVE  /\ asked("q")' = IF n = 3 THEN 1 ELSE 0
             /\ asked("string")' = IF n \in {3, 4, 5} THEN 1 ELSE 0
  <2>1. todo'[C1] = form(n)
    BY <1>1, <1>6
  <2>. QED  BY <1>3, <1>4, <2>1 DEF asked, one_if, still_calls, some
<1>. QED  BY <1>5, <1>6

\* The reports at a multiple of twenty that a C process took up.
LEMMA TwentiesCount ==
    ASSUME Typed, NEW c \in C
    PROVE  /\ twenties(c) = Cardinality(marks(handled[c], twentieth_reports))
           /\ twenties(c) \in Nat
<1>1. handled[c] \in Seq(Reports)
  <2>1. handled[c] \in Seq(ReportsOf(c)) /\ ReportsOf(c) \subseteq Reports
    BY DEF Typed, ReportsOf
  <2>. QED  BY <2>1, SeqMonotonic
<1>2. Len(handled[c]) \in Nat /\ DOMAIN handled[c] = 1 .. Len(handled[c])
      /\ \A i \in DOMAIN handled[c] : handled[c][i] \in Reports
  BY <1>1, LenProperties, ElementOfSeq
<1>3. {i \in DOMAIN handled[c] : handled[c][i].num % TWENTY = 0}
        = marks(handled[c], twentieth_reports)
  BY <1>2 DEF marks, twentieth_reports
<1>4. Cardinality(marks(handled[c], twentieth_reports)) \in Nat
  BY <1>1, MarksCount
<1>. QED  BY <1>3, <1>4 DEF twenties

LEMMA TwentiesStay ==
    ASSUME NEW c, handled'[c] = handled[c]
    PROVE  twenties(c)' = twenties(c)
BY DEF twenties

LEMMA TwentiesGrow ==
    ASSUME Typed, Typed', NEW c \in C, NEW r \in ReportsOf(c),
           handled'[c] = Append(handled[c], r)
    PROVE  twenties(c)' = twenties(c) + one_if(r.num % TWENTY = 0)
<1>1. handled[c] \in Seq(Reports) /\ handled'[c] \in Seq(Reports) /\ r \in Reports
  <2>1. /\ handled[c] \in Seq(ReportsOf(c)) /\ handled'[c] \in Seq(ReportsOf(c))
        /\ r \in Reports /\ ReportsOf(c) \subseteq Reports
    BY DEF Typed, ReportsOf
  <2>. QED  BY <2>1, SeqMonotonic
<1>2. r \in twentieth_reports <=> r.num % TWENTY = 0
  BY <1>1 DEF twentieth_reports
<1>3. Cardinality(marks(handled'[c], twentieth_reports))
        = Cardinality(marks(handled[c], twentieth_reports)) + one_if(r \in twentieth_reports)
  BY <1>1, MarksCount
<1>4. twenties(c) = Cardinality(marks(handled[c], twentieth_reports))
  BY TwentiesCount
<1>5. twenties(c)' = Cardinality(marks(handled'[c], twentieth_reports))
  <2>2. /\ Len(handled'[c]) \in Nat /\ DOMAIN handled'[c] = 1 .. Len(handled'[c])
        /\ \A i \in DOMAIN handled'[c] : handled'[c][i] \in Reports
    BY <1>1, LenProperties, ElementOfSeq
  <2>3. {i \in DOMAIN handled'[c] : handled'[c][i].num % TWENTY = 0}
          = marks(handled'[c], twentieth_reports)
    BY <2>2 DEF marks, twentieth_reports
  <2>. QED  BY <2>3 DEF twenties
<1>. QED  BY <1>2, <1>3, <1>4, <1>5 DEF one_if

\* The texts in front of the display.
LEMMA ShownCount ==
    ASSUME Typed
    PROVE  /\ shown = {i \in DOMAIN mailbox["CRT"] : mailbox["CRT"][i].returns > 0}
           /\ IsFiniteSet(shown) /\ Cardinality(shown) \in Nat
<1>0. "CRT" \in Pids /\ Accepts("CRT") = {text(0), text(1)}
  BY StressAssumption DEF Pids, Accepts, Processes
<1>1. mailbox["CRT"] \in Seq({text(0), text(1)})
  BY <1>0 DEF Typed
<1>2. \A i \in DOMAIN mailbox["CRT"] : mailbox["CRT"][i] \in {text(0), text(1)}
  <2>1. DOMAIN mailbox["CRT"] = 1 .. Len(mailbox["CRT"])
    BY <1>1, LenProperties
  <2>. QED  BY <1>1, <2>1, ElementOfSeq
<1>3. text(0).returns = 0 /\ text(1).returns = 1
  BY DEF text
<1>4. shown = {i \in DOMAIN mailbox["CRT"] : mailbox["CRT"][i].returns > 0}
  BY <1>2, <1>3 DEF shown, marks
<1>. QED  BY <1>1, <1>4, MarksCount DEF shown
-----------------------------------------------------------------------------
\* The balance.  A step adds f to the free blocks, m, q, w and h to the places
\* where blocks in use are, and k to the lost ones.
Moved(f, m, q, w, h) ==
    /\ free' = free + f
    /\ IsFiniteSet(mailed') /\ Cardinality(mailed') = Cardinality(mailed) + m
    /\ IsFiniteSet(queued') /\ Cardinality(queued') = Cardinality(queued) + q
    /\ Cardinality(delayed') = Cardinality(delayed) + w
    /\ IsFiniteSet(held') /\ Cardinality(held') = Cardinality(held) + h

\* It adds r to the registered A processes, x and z to the twentieth reports of
\* C1 and C2, y and s to what C1 has still to ask for, t to the texts shown and
\* e to the commands.
Lost(r, x, y, s, t, z, e) ==
    /\ Cardinality(registered') = Cardinality(registered) + r
    /\ twenties(C1)' = twenties(C1) + x /\ twenties(C2)' = twenties(C2) + z
    /\ asked("q")' = asked("q") + y /\ asked("string")' = asked("string") + s
    /\ Cardinality(shown') = Cardinality(shown) + t
    /\ commands' = commands + e

\* The sum, by its parts.
LEMMA Sum ==
    ASSUME NEW f \in Int, NEW f1 \in Int, NEW m \in Int, NEW m1 \in Int, NEW q \in Int,
           NEW q1 \in Int, NEW w \in Int, NEW w1 \in Int, NEW h \in Int, NEW h1 \in Int,
           NEW r \in Int, NEW r1 \in Int, NEW x \in Int, NEW x1 \in Int, NEW y \in Int,
           NEW y1 \in Int, NEW s \in Int, NEW s1 \in Int, NEW t \in Int, NEW t1 \in Int,
           NEW z \in Int, NEW z1 \in Int, NEW e \in Int, NEW e1 \in Int, NEW total,
           f + m + q + w + h + r + x - y + x - s - t + z + e = total,
           f1 + m1 + q1 + w1 + h1 + r1 + x1 - y1 + x1 - s1 - t1 + z1 + e1 = 0
    PROVE  (f + f1) + ((m + m1) + (q + q1) + (w + w1) + (h + h1))
             + ((r + r1) + (x + x1) - (y + y1) + (x + x1) - (s + s1) - (t + t1)
                + (z + z1) + (e + e1)) = total
OBVIOUS

losses == Cardinality(registered) + twenties(C1) - asked("q") + twenties(C1)
            - asked("string") - Cardinality(shown) + twenties(C2) + commands

LEMMA LostParts == Typed => lost = losses
<1> SUFFICES ASSUME Typed PROVE lost = losses
  OBVIOUS
<1>1. Len(<<request("p")>> \o register_command) = 3
  <2>1. <<request("p")>> \o register_command
          = <<request("p"), request("command"), send("command", "KCD", registration)>>
    BY CallsInARow DEF register_command
  <2> DEFINE x == request("p")
             y == request("command")
             z == send("command", "KCD", registration)
  <2>. HIDE DEF x, y, z
  <2>2. Len(<<x, y, z>>) = 3
    OBVIOUS
  <2>. QED  BY <2>1, <2>2 DEF x, y, z
<1>2. shown = {i \in DOMAIN mailbox["CRT"] : mailbox["CRT"][i].returns > 0}
  BY ShownCount
<1>. QED  BY <1>1, <1>2 DEF lost, losses, registered, asked

LEMMA LostPartsThen == (Typed => lost = losses)'
BY LostParts, PTL

LEMMA Parts ==
    ASSUME Typed, Places
    PROVE  /\ free \in Nat /\ commands \in Nat
           /\ Cardinality(mailed) \in Nat /\ Cardinality(queued) \in Nat
           /\ IsFiniteSet(delayed) /\ Cardinality(delayed) \in Nat
           /\ Cardinality(held) \in Nat /\ Cardinality(registered) \in Nat
           /\ twenties(C1) \in Nat /\ twenties(C2) \in Nat /\ Cardinality(shown) \in Nat
           /\ asked("q") \in {0, 1} /\ asked("string") \in {0, 1}
<1>1. Cardinality(mailed) \in Nat /\ Cardinality(queued) \in Nat /\ Cardinality(held) \in Nat
  BY FS_CardinalityType DEF Places
<1>2. IsFiniteSet(delayed)
  <2>1. IsFiniteSet({C1} \cup {C2})
    BY FS_Singleton, FS_AddElement
  <2>2. delayed \in SUBSET ({C1} \cup {C2})
    BY DEF Typed, C
  <2>. QED  BY <2>1, <2>2, FS_Subset
<1>3. Cardinality(delayed) \in Nat
  BY <1>2, FS_CardinalityType
<1>4. Cardinality(registered) \in Nat
  BY RegisteredFinite DEF registered
<1>5. twenties(C1) \in Nat /\ twenties(C2) \in Nat
  BY TwentiesCount DEF C
<1>6. asked("q") \in {0, 1} /\ asked("string") \in {0, 1}
  BY DEF asked, one_if
<1>7. Cardinality(shown) \in Nat
  BY ShownCount
<1>8. free \in Nat /\ commands \in Nat
  BY DEF Typed
<1>. QED  BY <1>1, <1>2, <1>3, <1>4, <1>5, <1>6, <1>7, <1>8

LEMMA Balance ==
    ASSUME Typed, Typed', Places, BlocksAccountedFor,
           NEW f \in Int, NEW m \in Int, NEW q \in Int, NEW w \in Int, NEW h \in Int,
           NEW r \in Int, NEW x \in Int, NEW y \in Int, NEW s \in Int, NEW t \in Int,
           NEW z \in Int, NEW e \in Int, Moved(f, m, q, w, h), Lost(r, x, y, s, t, z, e),
           f + m + q + w + h + r + x - y + x - s - t + z + e = 0
    PROVE  Places' /\ BlocksAccountedFor'
<1> DEFINE m0 == Cardinality(mailed)
           q0 == Cardinality(queued)
           w0 == Cardinality(delayed)
           h0 == Cardinality(held)
           r0 == Cardinality(registered)
           x0 == twenties(C1)
           y0 == asked("q")
           s0 == asked("string")
           t0 == Cardinality(shown)
           z0 == twenties(C2)
<1>1. /\ m0 \in Int /\ q0 \in Int /\ w0 \in Int /\ h0 \in Int /\ r0 \in Int
      /\ x0 \in Int /\ y0 \in Int /\ s0 \in Int /\ t0 \in Int /\ z0 \in Int
      /\ free \in Int /\ commands \in Int
  BY Parts
<1>2. free + (m0 + q0 + w0 + h0)
        + (r0 + x0 - y0 + x0 - s0 - t0 + z0 + commands) = NUM_MEM_BLOCKS
  BY LostParts DEF BlocksAccountedFor, in_use, mailed, queued, losses
<1>3. Places'
  BY DEF Moved, Places
<1>4. in_use' = (m0 + m) + (q0 + q) + (w0 + w) + (h0 + h)
  BY DEF Moved, in_use, mailed, queued
<1>5. lost' = (r0 + r) + (x0 + x) - (y0 + y) + (x0 + x) - (s0 + s) - (t0 + t)
                + (z0 + z) + (commands + e)
  BY LostPartsThen DEF Lost, losses
<1>6. free' = free + f
  BY DEF Moved
<1>. HIDE DEF m0, q0, w0, h0, r0, x0, y0, s0, t0, z0
<1>7. free + m0 + q0 + w0 + h0 + r0 + x0 - y0 + x0 - s0 - t0 + z0 + commands
        = NUM_MEM_BLOCKS
  BY <1>1, <1>2
<1>8. (free + f) + ((m0 + m) + (q0 + q) + (w0 + w) + (h0 + h))
        + ((r0 + r) + (x0 + x) - (y0 + y) + (x0 + x) - (s0 + s) - (t0 + t)
           + (z0 + z) + (commands + e)) = NUM_MEM_BLOCKS
  BY <1>1, <1>7, Sum
<1>9. BlocksAccountedFor'
  BY <1>4, <1>5, <1>6, <1>8 DEF BlocksAccountedFor
<1>. QED  BY <1>3, <1>9
-----------------------------------------------------------------------------
\* What the steps of the mailboxes and of the local queues change.
LEMMA Mailed ==
    ASSUME Typed, Places, NEW d \in Pids, NEW m \in Accepts(d),
           mailbox' = [mailbox EXCEPT ![d] = Append(@, m)]
    PROVE  /\ IsFiniteSet(mailed') /\ Cardinality(mailed') = Cardinality(mailed) + 1
           /\ Cardinality(shown') = Cardinality(shown) + one_if(d = "CRT" /\ m = text(1))
<1>1. /\ mailbox[d] \in Seq(Accepts(d)) /\ mailbox'[d] = Append(mailbox[d], m)
      /\ \A x \in Pids \ {d} : mailbox'[x] = mailbox[x]
  BY DEF Typed
<1>2. IsFiniteSet(positions(mailbox, Pids))
  BY DEF Places, mailed
<1>3. /\ IsFiniteSet(positions(mailbox', Pids))
      /\ Cardinality(positions(mailbox', Pids)) = Cardinality(positions(mailbox, Pids)) + 1
  BY ONLY d \in Pids, m \in Accepts(d), <1>1, <1>2, QueueGrows
<1>4. Cardinality(shown') = Cardinality(shown) + one_if(d = "CRT" /\ m = text(1))
  <2>1. CASE d = "CRT"
    <3>1. Cardinality(marks(Append(mailbox[d], m), {text(1)}))
            = Cardinality(marks(mailbox[d], {text(1)})) + one_if(m \in {text(1)})
      BY <1>1, MarksCount
    <3>2. one_if(m \in {text(1)}) = one_if(d = "CRT" /\ m = text(1))
      BY <2>1 DEF one_if
    <3>. QED  BY <1>1, <2>1, <3>1, <3>2 DEF shown
  <2>2. CASE d # "CRT"
    <3>1. shown' = shown
      BY <1>1, <2>2 DEF shown, Pids
    <3>2. Cardinality(shown) \in Nat
      BY Parts
    <3>. QED  BY <2>2, <3>1, <3>2 DEF one_if
  <2>. QED  BY <2>1, <2>2
<1>. QED  BY <1>3, <1>4 DEF mailed

LEMMA Unmailed ==
    ASSUME Typed, Places, NEW p \in Pids, mailbox[p] # << >>, take(p)
    PROVE  /\ IsFiniteSet(mailed') /\ Cardinality(mailed') = Cardinality(mailed) - 1
           /\ Cardinality(shown')
                = Cardinality(shown) - one_if(p = "CRT" /\ Head(mailbox[p]) = text(1))
<1>1. /\ mailbox[p] \in Seq(Accepts(p)) /\ mailbox'[p] = Tail(mailbox[p])
      /\ \A x \in Pids \ {p} : mailbox'[x] = mailbox[x]
  BY DEF Typed, take
<1>2. IsFiniteSet(positions(mailbox, Pids))
  BY DEF Places, mailed
<1>3. /\ IsFiniteSet(positions(mailbox', Pids))
      /\ Cardinality(positions(mailbox', Pids)) = Cardinality(positions(mailbox, Pids)) - 1
  BY <1>1, <1>2, QueueShrinks
<1>4. Cardinality(shown')
        = Cardinality(shown) - one_if(p = "CRT" /\ Head(mailbox[p]) = text(1))
  <2>1. CASE p = "CRT"
    <3>1. Cardinality(marks(Tail(mailbox[p]), {text(1)}))
            = Cardinality(marks(mailbox[p], {text(1)})) - one_if(Head(mailbox[p]) \in {text(1)})
      BY <1>1, MarksCount
    <3>2. one_if(Head(mailbox[p]) \in {text(1)})
            = one_if(p = "CRT" /\ Head(mailbox[p]) = text(1))
      BY <2>1 DEF one_if
    <3>. QED  BY <1>1, <2>1, <3>1, <3>2 DEF shown
  <2>2. CASE p # "CRT"
    <3>1. shown' = shown
      BY <1>1, <2>2 DEF shown, Pids
    <3>2. Cardinality(shown) \in Nat
      BY Parts
    <3>. QED  BY <2>2, <3>1, <3>2 DEF one_if
  <2>. QED  BY <2>1, <2>2
<1>. QED  BY <1>3, <1>4 DEF mailed

LEMMA MailStays ==
    ASSUME mailbox' = mailbox
    PROVE  mailed' = mailed /\ shown' = shown
BY DEF mailed, shown, positions

LEMMA LocalGrows ==
    ASSUME Typed, Places, NEW c \in C, NEW m \in ReportsOf(c),
           local' = [local EXCEPT ![c] = Append(@, m)]
    PROVE  IsFiniteSet(queued') /\ Cardinality(queued') = Cardinality(queued) + 1
<1>1. /\ local[c] \in Seq(ReportsOf(c)) /\ local'[c] = Append(local[c], m)
      /\ \A x \in C \ {c} : local'[x] = local[x]
  BY DEF Typed
<1>2. IsFiniteSet(positions(local, C))
  BY DEF Places, queued
<1>3. /\ IsFiniteSet(positions(local', C))
      /\ Cardinality(positions(local', C)) = Cardinality(positions(local, C)) + 1
  BY ONLY c \in C, m \in ReportsOf(c), <1>1, <1>2, QueueGrows
<1>. QED  BY <1>3 DEF queued

LEMMA LocalShrinks ==
    ASSUME Typed, Places, NEW c \in C, local[c] # << >>,
           local' = [local EXCEPT ![c] = Tail(@)]
    PROVE  IsFiniteSet(queued') /\ Cardinality(queued') = Cardinality(queued) - 1
<1>1. /\ local[c] \in Seq(ReportsOf(c)) /\ local'[c] = Tail(local[c])
      /\ \A x \in C \ {c} : local'[x] = local[x]
  BY DEF Typed
<1>2. IsFiniteSet(positions(local, C))
  BY DEF Places, queued
<1>3. /\ IsFiniteSet(positions(local', C))
      /\ Cardinality(positions(local', C)) = Cardinality(positions(local, C)) - 1
  BY ONLY c \in C, local[c] # << >>, <1>1, <1>2, QueueShrinks
<1>. QED  BY <1>3 DEF queued

LEMMA LocalStays ==
    ASSUME local' = local
    PROVE  queued' = queued
BY DEF queued, positions
-----------------------------------------------------------------------------
\* What the primitives move.
LiveElsewhereStays(p) == \A q \in Processes \ {p} : live(q)' = live(q)

LEMMA Requested ==
    ASSUME Typed, Places, NEW p \in Processes, Request(p), LiveElsewhereStays(p)
    PROVE  /\ live(p)' = live(p) => Moved(-1, 0, 0, 0, 0)
           /\ \A w : w \notin live(p) /\ live(p)' = live(p) \cup {w} => Moved(-1, 0, 0, 0, 1)
           /\ shown' = shown
<1>1. free' = free - 1 /\ mailbox' = mailbox /\ local' = local /\ delayed' = delayed
  BY DEF Request, Called
<1>2. mailed' = mailed /\ queued' = queued /\ shown' = shown
  BY <1>1, MailStays, LocalStays
<1>3. /\ free \in Nat /\ Cardinality(mailed) \in Nat /\ Cardinality(queued) \in Nat
      /\ Cardinality(delayed) \in Nat /\ Cardinality(held) \in Nat
      /\ IsFiniteSet(mailed) /\ IsFiniteSet(queued) /\ IsFiniteSet(held)
  BY Parts DEF Places
<1>4. ASSUME live(p)' = live(p) PROVE Moved(-1, 0, 0, 0, 0)
  <2>1. held' = held
    BY <1>4, HeldStays DEF LiveElsewhereStays
  <2>. QED  BY <1>1, <1>2, <1>3, <2>1 DEF Moved
<1>5. ASSUME NEW w, w \notin live(p), live(p)' = live(p) \cup {w} PROVE Moved(-1, 0, 0, 0, 1)
  <2>1. IsFiniteSet(held') /\ Cardinality(held') = Cardinality(held) + 1
    BY <1>3, <1>5, HeldGrows DEF LiveElsewhereStays
  <2>. QED  BY <1>1, <1>2, <1>3, <2>1 DEF Moved
<1>. QED  BY <1>2, <1>4, <1>5

LEMMA Sent ==
    ASSUME Typed, AtWork, Places, NEW p \in Processes, Send(p), LiveElsewhereStays(p),
           NEW w \in live(p), live(p)' = live(p) \ {w}
    PROVE  /\ Moved(0, 1, 0, 0, -1)
           /\ Cardinality(shown') = Cardinality(shown)
                + one_if(Head(todo[p]).to = "CRT" /\ Head(todo[p]).as = text(1))
<1> DEFINE d == Head(todo[p]).to
           m == Head(todo[p]).as
<1>1. /\ mailbox' = [mailbox EXCEPT ![d] = Append(@, m)] /\ free' = free /\ local' = local
      /\ delayed' = delayed
  BY DEF Send, Called
<1>2. d \in Pids /\ m \in Accepts(d)
  BY SentTo
<1>. HIDE DEF d, m
<1>3. /\ IsFiniteSet(mailed') /\ Cardinality(mailed') = Cardinality(mailed) + 1
      /\ Cardinality(shown') = Cardinality(shown) + one_if(d = "CRT" /\ m = text(1))
  BY <1>1, <1>2, Mailed
<1>4. queued' = queued
  BY <1>1, LocalStays
<1>5. /\ free \in Nat /\ Cardinality(queued) \in Nat /\ IsFiniteSet(queued)
      /\ Cardinality(delayed) \in Nat /\ Cardinality(held) \in Nat /\ IsFiniteSet(held)
  BY Parts DEF Places
<1>6. IsFiniteSet(held') /\ Cardinality(held') = Cardinality(held) - 1
  BY <1>5, HeldShrinks DEF LiveElsewhereStays
<1>7. Moved(0, 1, 0, 0, -1)
  BY <1>1, <1>3, <1>4, <1>5, <1>6 DEF Moved
<1>. QED  BY <1>3, <1>7 DEF d, m

LEMMA Released ==
    ASSUME Typed, Places, NEW p \in Processes, Release(p), LiveElsewhereStays(p),
           NEW w \in live(p), live(p)' = live(p) \ {w}
    PROVE  Moved(1, 0, 0, 0, -1) /\ shown' = shown
<1>1. free' = free + 1 /\ mailbox' = mailbox /\ local' = local /\ delayed' = delayed
  BY DEF Release, Called
<1>2. mailed' = mailed /\ queued' = queued /\ shown' = shown
  BY <1>1, MailStays, LocalStays
<1>3. /\ free \in Nat /\ Cardinality(mailed) \in Nat /\ Cardinality(queued) \in Nat
      /\ Cardinality(delayed) \in Nat /\ Cardinality(held) \in Nat
      /\ IsFiniteSet(mailed) /\ IsFiniteSet(queued) /\ IsFiniteSet(held)
  BY Parts DEF Places
<1>4. IsFiniteSet(held') /\ Cardinality(held') = Cardinality(held) - 1
  BY <1>3, HeldShrinks DEF LiveElsewhereStays
<1>. QED  BY <1>1, <1>2, <1>3, <1>4 DEF Moved

LEMMA SentLater ==
    ASSUME Typed, Places, NEW p \in Processes, DelayedSend(p), LiveElsewhereStays(p),
           p \notin delayed, NEW w \in live(p), live(p)' = live(p) \ {w}
    PROVE  Moved(0, 0, 0, 1, -1) /\ shown' = shown
<1>1. free' = free /\ mailbox' = mailbox /\ local' = local /\ delayed' = delayed \cup {p}
  BY DEF DelayedSend, Called
<1>2. mailed' = mailed /\ queued' = queued /\ shown' = shown
  BY <1>1, MailStays, LocalStays
<1>3. /\ free \in Nat /\ Cardinality(mailed) \in Nat /\ Cardinality(queued) \in Nat
      /\ Cardinality(delayed) \in Nat /\ IsFiniteSet(delayed) /\ Cardinality(held) \in Nat
      /\ IsFiniteSet(mailed) /\ IsFiniteSet(queued) /\ IsFiniteSet(held)
  BY Parts DEF Places
<1>4. IsFiniteSet(held') /\ Cardinality(held') = Cardinality(held) - 1
  BY <1>3, HeldShrinks DEF LiveElsewhereStays
<1>5. Cardinality(delayed') = Cardinality(delayed) + 1
  BY <1>1, <1>3, FS_AddElement
<1>. QED  BY <1>1, <1>2, <1>3, <1>4, <1>5 DEF Moved

\* What a call leaves alone.
LEMMA CallLeaves ==
    ASSUME Typed, NEW p \in Processes, Steps(p)
    PROVE  /\ LiveElsewhereStays(p) /\ twenties(C1)' = twenties(C1)
           /\ twenties(C2)' = twenties(C2) /\ commands' = commands
           /\ p # C1 => asked("q")' = asked("q") /\ asked("string")' = asked("string")
           /\ p \notin A => registered' = registered
<1>1. /\ \A q \in Processes \ {p} : todo'[q] = todo[q] /\ hold'[q] = hold[q]
      /\ num' = num /\ handled' = handled /\ commands' = commands
  BY CallEffects
<1>2. LiveElsewhereStays(p)
  BY <1>1, LiveElsewhere DEF LiveElsewhereStays
<1>3. twenties(C1)' = twenties(C1) /\ twenties(C2)' = twenties(C2)
  BY <1>1, TwentiesStay
<1>4. p # C1 => asked("q")' = asked("q") /\ asked("string")' = asked("string")
  <2>1. p # C1 => todo'[C1] = todo[C1]
    BY <1>1 DEF Processes, C
  <2>. QED  BY <2>1 DEF asked, one_if, still_calls
<1>5. p \notin A => registered' = registered
  BY <1>1 DEF registered, Processes
<1>. QED  BY <1>1, <1>2, <1>3, <1>4, <1>5

\* The calls of an A process: its first request is the block it loses.
LEMMA CallsOfAAccounted ==
    ASSUME Typed, Typed', AtWork, Places, BlocksAccountedFor, NEW a \in A, Steps(a)
    PROVE  Places' /\ BlocksAccountedFor'
<1>0. a \in Processes /\ a # C1 /\ a \in Pids /\ to_b[a] \in B /\ a \notin {"CRT"}
  BY Kinds, StressAssumption DEF Processes, Pids
<1>1. PICK n \in 1 .. 8 : at_a(a, n)
  BY DEF AtWork
<1>2. /\ LiveElsewhereStays(a) /\ twenties(C1)' = twenties(C1)
      /\ twenties(C2)' = twenties(C2) /\ commands' = commands
      /\ asked("q")' = asked("q") /\ asked("string")' = asked("string")
  BY <1>0, CallLeaves
<1>3. /\ twenties(C1) \in Nat /\ twenties(C2) \in Nat /\ commands \in Nat
      /\ asked("q") \in Int /\ asked("string") \in Int /\ Cardinality(shown) \in Nat
      /\ Cardinality(registered) \in Nat
  BY Parts
<1>4. \A x \in A \ {a} : x \in registered' <=> x \in registered
  BY <1>0, CallEffects DEF registered, Processes
<1>5. live(a) = live_a(n)
  BY <1>1, LiveOfA
<1>6. CASE n = 1
  <2>1. Request(a) /\ at_a(a, 2)'
    BY <1>1, <1>6, CallsOfA
  <2>2. live(a) = live_a(1) /\ live(a)' = live_a(2) /\ live_a(1) = {} /\ live_a(2) = {}
    BY <1>5, <1>6, <2>1, LiveOfA DEF live_a
  <2>3. Moved(-1, 0, 0, 0, 0) /\ shown' = shown
    BY <1>0, <1>2, <2>1, <2>2, Requested
  <2>4. Cardinality(registered') = Cardinality(registered) + 1
    <3>1. a \notin registered /\ a \in registered'
      BY <1>1, <1>6, <2>1, Registered
    <3>2. registered' = registered \cup {a}
      BY <1>4, <3>1 DEF registered
    <3>3. IsFiniteSet(registered)
      BY RegisteredFinite DEF registered
    <3>. QED  BY <3>1, <3>2, <3>3, FS_AddElement
  <2>5. Lost(1, 0, 0, 0, 0, 0, 0)
    BY <1>2, <1>3, <2>3, <2>4 DEF Lost
  <2>. QED  BY <2>3, <2>5, Balance
<1>7. CASE n # 1
  <2>1. /\ \E k \in 2 .. 8 : at_a(a, k)'
        /\ n = 2 => Request(a) /\ at_a(a, 3)'
        /\ n = 7 => Request(a) /\ at_a(a, 8)'
        /\ n = 3 => Send(a) /\ at_a(a, 4)'
                    /\ Head(todo[a]) = send("command", "KCD", registration)
        /\ n = 8 => Send(a) /\ at_a(a, 5)'
                    /\ Head(todo[a]) = send("p", to_b[a], report(a, num[a] - 1))
        /\ n = 6 => Release(a) /\ at_a(a, 5)'
        /\ n \in {2, 3, 6, 7, 8}
    BY <1>1, <1>7, CallsOfA
  <2>2. Cardinality(registered') = Cardinality(registered)
    <3>1. a \in registered /\ a \in registered'
      BY <1>1, <1>7, <2>1, Registered
    <3>2. registered' = registered
      BY <1>4, <3>1 DEF registered
    <3>. QED  BY <3>2
  <2>3. ASSUME Cardinality(shown') = Cardinality(shown) PROVE Lost(0, 0, 0, 0, 0, 0, 0)
    BY <1>2, <1>3, <2>2, <2>3 DEF Lost
  <2>4. CASE n = 2
    <3>1. live(a)' = live_a(3) /\ live_a(2) = {} /\ live_a(3) = {"command"}
      BY <2>1, <2>4, LiveOfA DEF live_a
    <3>2. Moved(-1, 0, 0, 0, 1) /\ shown' = shown
      BY <1>0, <1>2, <1>5, <2>1, <2>4, <3>1, Requested
    <3>. QED  BY <2>3, <3>2, Balance
  <2>5. CASE n = 7
    <3>1. live(a)' = live_a(8) /\ live_a(7) = {} /\ live_a(8) = {"p"}
      BY <2>1, <2>5, LiveOfA DEF live_a
    <3>2. Moved(-1, 0, 0, 0, 1) /\ shown' = shown
      BY <1>0, <1>2, <1>5, <2>1, <2>5, <3>1, Requested
    <3>. QED  BY <2>3, <3>2, Balance
  <2>6. CASE n \in {3, 8}
    <3>1. \E w \in live(a) : live(a)' = live(a) \ {w}
      <4>1. /\ live(a)' = {} /\ live_a(3) = {"command"} /\ live_a(8) = {"p"}
        BY <2>1, <2>6, LiveOfA DEF live_a
      <4>. QED  BY <1>5, <2>6, <4>1
    <3>2. /\ Moved(0, 1, 0, 0, -1)
          /\ Cardinality(shown') = Cardinality(shown)
                + one_if(Head(todo[a]).to = "CRT" /\ Head(todo[a]).as = text(1))
      BY <1>0, <1>2, <2>1, <2>6, <3>1, Sent
    <3>3. Head(todo[a]).to # "CRT"
      <4>1. Head(todo[a]).to \in {"KCD", to_b[a]}
        BY <2>1, <2>6 DEF send
      <4>. QED  BY <1>0, <4>1, StressAssumption DEF Processes
    <3>4. Cardinality(shown') = Cardinality(shown)
      BY <1>3, <3>2, <3>3 DEF one_if
    <3>. QED  BY <2>3, <3>2, <3>4, Balance
  <2>7. CASE n = 6
    <3>1. live(a)' = live_a(5) /\ live_a(5) = {} /\ live_a(6) = {"p"}
      BY <2>1, <2>7, LiveOfA DEF live_a
    <3>2. Moved(1, 0, 0, 0, -1) /\ shown' = shown
      BY <1>0, <1>2, <1>5, <2>1, <2>7, <3>1, Released
    <3>. QED  BY <2>3, <3>2, Balance
  <2>. QED  BY <2>1, <2>4, <2>5, <2>6, <2>7
<1>. QED  BY <1>6, <1>7

LEMMA CallsOfBAccounted ==
    ASSUME Typed, Typed', AtWork, Places, BlocksAccountedFor, NEW b \in B, Steps(b)
    PROVE  Places' /\ BlocksAccountedFor'
<1>0. b \in Processes /\ b # C1 /\ b \notin A /\ to_c[b] \in C
  BY Kinds, StressAssumption DEF Processes
<1>1. PICK n \in 1 .. 2 : at_b(b, n)
  BY DEF AtWork
<1>2. /\ LiveElsewhereStays(b) /\ twenties(C1)' = twenties(C1)
      /\ twenties(C2)' = twenties(C2) /\ commands' = commands
      /\ asked("q")' = asked("q") /\ asked("string")' = asked("string")
      /\ registered' = registered
  BY <1>0, CallLeaves
<1>3. /\ twenties(C1) \in Nat /\ twenties(C2) \in Nat /\ commands \in Nat
      /\ asked("q") \in Int /\ asked("string") \in Int /\ Cardinality(shown) \in Nat
      /\ Cardinality(registered) \in Nat
  BY Parts
<1>4. /\ n = 2 /\ Send(b) /\ at_b(b, 1)'
      /\ \E m \in Accepts(b) : todo[b] = <<send("mymess", to_c[b], m)>>
  BY <1>1, CallsOfB
<1>5. live(b) = {"mymess"} /\ live(b)' = {}
  <2>1. live(b) = live_b(2) /\ live(b)' = live_b(1)
    BY <1>1, <1>4, LiveOfB
  <2>. QED  BY <2>1 DEF live_b
<1>6. /\ Moved(0, 1, 0, 0, -1)
      /\ Cardinality(shown') = Cardinality(shown)
            + one_if(Head(todo[b]).to = "CRT" /\ Head(todo[b]).as = text(1))
  BY <1>0, <1>2, <1>4, <1>5, Sent
<1>7. Head(todo[b]).to # "CRT"
  <2>1. PICK m \in Accepts(b) : Head(todo[b]) = send("mymess", to_c[b], m)
    BY <1>0, <1>4, SentTo
  <2>2. Head(todo[b]).to = to_c[b]
    BY <2>1 DEF send
  <2>. QED  BY <1>0, <2>2, StressAssumption DEF Processes
<1>8. Cardinality(shown') = Cardinality(shown)
  BY <1>3, <1>6, <1>7 DEF one_if
<1>9. Lost(0, 0, 0, 0, 0, 0, 0)
  BY <1>2, <1>3, <1>8 DEF Lost
<1>. QED  BY <1>6, <1>9, Balance

\* The calls of C1: what it gets in q is lost, and so is, once the display has the
\* text, the block for the line end in it.
LEMMA CallsOfC1Accounted ==
    ASSUME Typed, Typed', AtWork, WakesOnce(C1), Places, BlocksAccountedFor, Steps(C1)
    PROVE  Places' /\ BlocksAccountedFor'
<1>0. C1 \in Processes /\ C1 \notin A /\ C1 \in C
  BY Kinds DEF Processes, C
<1>1. PICK n \in 1 .. 6 : at_c1(n)
  BY DEF AtWork
<1>2. /\ LiveElsewhereStays(C1) /\ twenties(C1)' = twenties(C1)
      /\ twenties(C2)' = twenties(C2) /\ commands' = commands
      /\ registered' = registered
  BY <1>0, CallLeaves
<1>3. /\ twenties(C1) \in Nat /\ twenties(C2) \in Nat /\ commands \in Nat
      /\ asked("q") \in Int /\ asked("string") \in Int /\ Cardinality(shown) \in Nat
      /\ Cardinality(registered) \in Nat
  BY Parts
<1>4. /\ n = 3 => Request(C1) /\ at_c1(4)'
      /\ n = 4 => Request(C1) /\ at_c1(5)'
      /\ n = 5 => Send(C1) /\ at_c1(6)'
                  /\ Head(todo[C1]) = send("string", "CRT", text(1))
      /\ n = 6 => DelayedSend(C1) /\ at_c1(1)'
      /\ n = 2 => Release(C1) /\ at_c1(1)'
      /\ n \in {2, 3, 4, 5, 6}
  BY <1>1, CallsOfC1
<1>5. live(C1) = live_c1(n)
  BY <1>1, LiveOfC1
<1>6. /\ asked("q") = IF n = 3 THEN 1 ELSE 0
      /\ asked("string") = IF n \in {3, 4, 5} THEN 1 ELSE 0
  BY <1>1, Asked
<1>7. CASE n = 2
  <2>1. live(C1) = {"p"} /\ live(C1)' = {}
    BY <1>4, <1>5, <1>7, LiveOfC1 DEF live_c1
  <2>2. Moved(1, 0, 0, 0, -1) /\ shown' = shown
    BY <1>0, <1>2, <1>4, <1>7, <2>1, Released
  <2>3. asked("q")' = asked("q") /\ asked("string")' = asked("string")
    BY <1>4, <1>6, <1>7, Asked
  <2>4. Lost(0, 0, 0, 0, 0, 0, 0)
    BY <1>2, <1>3, <2>2, <2>3 DEF Lost
  <2>. QED  BY <2>2, <2>4, Balance
<1>8. CASE n = 3
  <2>1. live(C1) = {"p"} /\ live(C1)' = {"p"}
    BY <1>4, <1>5, <1>8, LiveOfC1 DEF live_c1
  <2>2. Moved(-1, 0, 0, 0, 0) /\ shown' = shown
    BY <1>0, <1>2, <1>4, <1>8, <2>1, Requested
  <2>3. asked("q")' = asked("q") - 1 /\ asked("string")' = asked("string")
    BY <1>4, <1>6, <1>8, Asked
  <2>4. Lost(0, 0, -1, 0, 0, 0, 0)
    BY <1>2, <1>3, <2>2, <2>3 DEF Lost
  <2>. QED  BY <2>2, <2>4, Balance
<1>9. CASE n = 4
  <2>1. live(C1) = {"p"} /\ live(C1)' = {"p", "string"}
    BY <1>4, <1>5, <1>9, LiveOfC1 DEF live_c1
  <2>2. Moved(-1, 0, 0, 0, 1) /\ shown' = shown
    BY <1>0, <1>2, <1>4, <1>9, <2>1, Requested
  <2>3. asked("q")' = asked("q") /\ asked("string")' = asked("string")
    BY <1>4, <1>6, <1>9, Asked
  <2>4. Lost(0, 0, 0, 0, 0, 0, 0)
    BY <1>2, <1>3, <2>2, <2>3 DEF Lost
  <2>. QED  BY <2>2, <2>4, Balance
<1>10. CASE n = 5
  <2>1. live(C1) = {"p", "string"} /\ live(C1)' = {"p"}
    BY <1>4, <1>5, <1>10, LiveOfC1 DEF live_c1
  <2>2. /\ Moved(0, 1, 0, 0, -1)
        /\ Cardinality(shown') = Cardinality(shown)
              + one_if(Head(todo[C1]).to = "CRT" /\ Head(todo[C1]).as = text(1))
    BY <1>0, <1>2, <1>4, <1>10, <2>1, Sent
  <2>3. Cardinality(shown') = Cardinality(shown) + 1
    <3>1. Head(todo[C1]).to = "CRT" /\ Head(todo[C1]).as = text(1)
      BY <1>4, <1>10 DEF send
    <3>. QED  BY <2>2, <3>1 DEF one_if
  <2>4. asked("q")' = asked("q") /\ asked("string")' = asked("string") - 1
    BY <1>4, <1>6, <1>10, Asked
  <2>5. Lost(0, 0, 0, -1, 1, 0, 0)
    BY <1>2, <1>3, <2>3, <2>4 DEF Lost
  <2>. QED  BY <2>2, <2>5, Balance
<1>11. CASE n = 6
  <2>1. live(C1) = {"p"} /\ live(C1)' = {}
    BY <1>4, <1>5, <1>11, LiveOfC1 DEF live_c1
  <2>2. C1 \notin delayed
    BY <1>0, CallEffects DEF WakesOnce
  <2>3. Moved(0, 0, 0, 1, -1) /\ shown' = shown
    BY <1>0, <1>2, <1>4, <1>11, <2>1, <2>2, SentLater
  <2>4. asked("q")' = asked("q") /\ asked("string")' = asked("string")
    BY <1>4, <1>6, <1>11, Asked
  <2>5. Lost(0, 0, 0, 0, 0, 0, 0)
    BY <1>2, <1>3, <2>3, <2>4 DEF Lost
  <2>. QED  BY <2>3, <2>5, Balance
<1>. QED  BY <1>4, <1>7, <1>8, <1>9, <1>10, <1>11

LEMMA CallsOfC2Accounted ==
    ASSUME Typed, Typed', AtWork, WakesOnce(C2), Places, BlocksAccountedFor, Steps(C2)
    PROVE  Places' /\ BlocksAccountedFor'
<1>0. C2 \in Processes /\ C2 \notin A /\ C2 \in C /\ C2 # C1
  BY Kinds DEF Processes, C
<1>1. PICK n \in 1 .. 8 : at_c2(n)
  BY DEF AtWork
<1>2. /\ LiveElsewhereStays(C2) /\ twenties(C1)' = twenties(C1)
      /\ twenties(C2)' = twenties(C2) /\ commands' = commands
      /\ asked("q")' = asked("q") /\ asked("string")' = asked("string")
      /\ registered' = registered
  BY <1>0, CallLeaves
<1>3. /\ twenties(C1) \in Nat /\ twenties(C2) \in Nat /\ commands \in Nat
      /\ asked("q") \in Int /\ asked("string") \in Int /\ Cardinality(shown) \in Nat
      /\ Cardinality(registered) \in Nat
  BY Parts
<1>4. /\ n = 1 => Request(C2) /\ at_c2(2)'
      /\ n = 5 => Release(C2) /\ at_c2(2)'
      /\ n = 6 => Request(C2) /\ at_c2(7)'
      /\ n = 7 => Send(C2) /\ at_c2(8)'
                  /\ Head(todo[C2]) = send("string", "CRT", text(0))
      /\ n = 8 => DelayedSend(C2) /\ at_c2(4)'
      /\ n \in {1, 5, 6, 7, 8}
  BY <1>1, CallsOfC2
<1>5. live(C2) = live_c2(n)
  BY <1>1, LiveOfC2
<1>6. ASSUME Cardinality(shown') = Cardinality(shown) PROVE Lost(0, 0, 0, 0, 0, 0, 0)
  BY <1>2, <1>3, <1>6 DEF Lost
<1>7. CASE n = 1
  <2>1. live(C2) = {} /\ live(C2)' = {"q"}
    BY <1>4, <1>5, <1>7, LiveOfC2 DEF live_c2
  <2>2. Moved(-1, 0, 0, 0, 1) /\ shown' = shown
    BY <1>0, <1>2, <1>4, <1>7, <2>1, Requested
  <2>. QED  BY <1>6, <2>2, Balance
<1>8. CASE n = 5
  <2>1. live(C2) = {"p", "q"} /\ live(C2)' = {"q"}
    BY <1>4, <1>5, <1>8, LiveOfC2 DEF live_c2
  <2>2. Moved(1, 0, 0, 0, -1) /\ shown' = shown
    BY <1>0, <1>2, <1>4, <1>8, <2>1, Released
  <2>. QED  BY <1>6, <2>2, Balance
<1>9. CASE n = 6
  <2>1. live(C2) = {"q"} /\ live(C2)' = {"q", "string"}
    BY <1>4, <1>5, <1>9, LiveOfC2 DEF live_c2
  <2>2. Moved(-1, 0, 0, 0, 1) /\ shown' = shown
    BY <1>0, <1>2, <1>4, <1>9, <2>1, Requested
  <2>. QED  BY <1>6, <2>2, Balance
<1>10. CASE n = 7
  <2>1. live(C2) = {"q", "string"} /\ live(C2)' = {"q"}
    BY <1>4, <1>5, <1>10, LiveOfC2 DEF live_c2
  <2>2. /\ Moved(0, 1, 0, 0, -1)
        /\ Cardinality(shown') = Cardinality(shown)
              + one_if(Head(todo[C2]).to = "CRT" /\ Head(todo[C2]).as = text(1))
    BY <1>0, <1>2, <1>4, <1>10, <2>1, Sent
  <2>3. Head(todo[C2]).as # text(1)
    BY <1>4, <1>10 DEF send, text
  <2>4. Cardinality(shown') = Cardinality(shown)
    BY <1>3, <2>2, <2>3 DEF one_if
  <2>. QED  BY <1>6, <2>2, <2>4, Balance
<1>11. CASE n = 8
  <2>1. live(C2) = {"q"} /\ live(C2)' = {}
    BY <1>4, <1>5, <1>11, LiveOfC2 DEF live_c2
  <2>2. C2 \notin delayed
    BY <1>0, CallEffects DEF WakesOnce
  <2>3. Moved(0, 0, 0, 1, -1) /\ shown' = shown
    BY <1>0, <1>2, <1>4, <1>11, <2>1, <2>2, SentLater
  <2>. QED  BY <1>6, <2>3, Balance
<1>. QED  BY <1>4, <1>7, <1>8, <1>9, <1>10, <1>11
-----------------------------------------------------------------------------
\* What the loops of the processes leave alone.
Loops(p) ==
    \/ p \in A /\ (a_command(p) \/ a_report(p))
    \/ p \in B /\ process_b(p)
    \/ p \in C /\ (c_report(p) \/ c_meanwhile(p))

LEMMA LoopLeaves ==
    ASSUME Typed, NEW p \in Processes, Loops(p)
    PROVE  /\ LiveElsewhereStays(p) /\ commands' = commands
           /\ free' = free /\ delayed' = delayed
           /\ p # C1 => asked("q")' = asked("q") /\ asked("string")' = asked("string")
           /\ \A x \in A \ {p} : x \in registered' <=> x \in registered
           /\ p \notin A => registered' = registered
           /\ \A c \in C : ~(p = c /\ c_report(c)) => twenties(c)' = twenties(c)
<1>1. /\ \A q \in Processes \ {p} : todo'[q] = todo[q] /\ hold'[q] = hold[q]
      /\ \A q \in A \ {p} : num'[q] = num[q]
  <2>1. CASE p \in A /\ (a_command(p) \/ a_report(p))
    BY <2>1 DEF a_command, a_report, does, holds, Typed
  <2>2. CASE p \in B /\ process_b(p)
    BY <2>2 DEF process_b, does, holds, Typed
  <2>3. CASE p \in C /\ c_report(p)
    BY <2>3 DEF c_report, does, holds, Typed
  <2>4. CASE p \in C /\ c_meanwhile(p)
    BY <2>4 DEF c_meanwhile, does, holds, Typed
  <2>. QED  BY <2>1, <2>2, <2>3, <2>4 DEF Loops
<1>2. free' = free /\ delayed' = delayed /\ commands' = commands
  BY DEF Loops, a_command, a_report, process_b, c_report, c_meanwhile
<1>3. LiveElsewhereStays(p)
  BY <1>1, LiveElsewhere DEF LiveElsewhereStays
<1>4. p # C1 => asked("q")' = asked("q") /\ asked("string")' = asked("string")
  <2>1. p # C1 => todo'[C1] = todo[C1]
    BY <1>1 DEF Processes, C
  <2>. QED  BY <2>1 DEF asked, one_if, still_calls
<1>5. \A x \in A \ {p} : x \in registered' <=> x \in registered
  BY <1>1 DEF registered, Processes
<1>6. p \notin A => registered' = registered
  BY <1>1 DEF registered, Processes
<1>7. ASSUME NEW c \in C, ~(p = c /\ c_report(c)) PROVE twenties(c)' = twenties(c)
  <2>1. handled'[c] = handled[c]
    <3>1. CASE p \in C /\ c_report(p)
      BY <1>7, <3>1 DEF c_report, Typed
    <3>2. CASE ~(p \in C /\ c_report(p))
      BY <3>2 DEF Loops, a_command, a_report, process_b, c_meanwhile
    <3>. QED  BY <3>1, <3>2
  <2>. QED  BY <2>1, TwentiesStay
<1>. QED  BY <1>2, <1>3, <1>4, <1>5, <1>6, <1>7

\* A message that is taken from the mailbox into a pointer.
LEMMA TakenUp ==
    ASSUME Typed, Places, NEW p \in Processes, Loops(p), mailbox[p] # << >>, take(p),
           local' = local, NEW w, w \notin live(p), live(p)' = live(p) \cup {w}
    PROVE  Moved(0, -1, 0, 0, 1) /\ Cardinality(shown') = Cardinality(shown)
<1>1. p \in Pids /\ p # "CRT"
  BY StressAssumption DEF Pids
<1>2. LiveElsewhereStays(p) /\ free' = free /\ delayed' = delayed
  BY LoopLeaves
<1>3. /\ IsFiniteSet(mailed') /\ Cardinality(mailed') = Cardinality(mailed) - 1
      /\ Cardinality(shown')
           = Cardinality(shown) - one_if(p = "CRT" /\ Head(mailbox[p]) = text(1))
  BY <1>1, Unmailed
<1>4. /\ free \in Nat /\ Cardinality(mailed) \in Nat /\ Cardinality(queued) \in Nat
      /\ Cardinality(delayed) \in Nat /\ Cardinality(held) \in Nat
      /\ IsFiniteSet(queued) /\ IsFiniteSet(held) /\ Cardinality(shown) \in Nat
  BY Parts DEF Places
<1>5. IsFiniteSet(held') /\ Cardinality(held') = Cardinality(held) + 1
  BY <1>2, <1>4, HeldGrows DEF LiveElsewhereStays
<1>6. queued' = queued
  BY LocalStays
<1>7. Moved(0, -1, 0, 0, 1)
  BY <1>2, <1>3, <1>4, <1>5, <1>6 DEF Moved
<1>8. Cardinality(shown') = Cardinality(shown)
  BY <1>1, <1>3, <1>4 DEF one_if
<1>. QED  BY <1>7, <1>8

LEMMA LoopsOfAAccounted ==
    ASSUME Typed, Typed', AtWork, Places, BlocksAccountedFor, NEW a \in A,
           a_command(a) \/ a_report(a)
    PROVE  Places' /\ BlocksAccountedFor'
<1>0. a \in Processes /\ a # C1 /\ a # C2 /\ Loops(a)
  BY Kinds DEF Processes, Loops
<1>1. PICK n \in 1 .. 8 : at_a(a, n)
  BY DEF AtWork
<1>2. /\ LiveElsewhereStays(a) /\ commands' = commands /\ free' = free /\ delayed' = delayed
      /\ asked("q")' = asked("q") /\ asked("string")' = asked("string")
      /\ \A x \in A \ {a} : x \in registered' <=> x \in registered
      /\ twenties(C1)' = twenties(C1) /\ twenties(C2)' = twenties(C2)
  BY <1>0, LoopLeaves DEF C
<1>3. /\ twenties(C1) \in Nat /\ twenties(C2) \in Nat /\ commands \in Nat
      /\ asked("q") \in Int /\ asked("string") \in Int /\ Cardinality(shown) \in Nat
      /\ Cardinality(registered) \in Nat
  BY Parts
<1>4. /\ a_command(a) => n \in {4, 5} /\ at_a(a, 6)'
      /\ a_report(a) => n = 5 /\ at_a(a, 7)'
  BY <1>1, LoopOfA
<1>5. registered' = registered
  <2>1. n # 1 /\ (at_a(a, 6)' \/ at_a(a, 7)')
    BY <1>4
  <2>2. a \in registered /\ a \in registered'
    BY <1>1, <2>1, Registered
  <2>. QED  BY <1>2, <2>2 DEF registered
<1>6. ASSUME Cardinality(shown') = Cardinality(shown) PROVE Lost(0, 0, 0, 0, 0, 0, 0)
  BY <1>2, <1>3, <1>5, <1>6 DEF Lost
<1>7. CASE a_command(a)
  <2>1. live(a) = {} /\ live(a)' = {"p"}
    BY <1>1, <1>4, <1>7, LiveOfA DEF live_a
  <2>2. mailbox[a] # << >> /\ take(a) /\ local' = local
    BY <1>7 DEF a_command, has_message
  <2>3. Moved(0, -1, 0, 0, 1) /\ Cardinality(shown') = Cardinality(shown)
    BY <1>0, <2>1, <2>2, TakenUp
  <2>. QED  BY <1>6, <2>3, Balance
<1>8. CASE a_report(a)
  <2>1. live(a) = {} /\ live(a)' = {}
    BY <1>1, <1>4, <1>8, LiveOfA DEF live_a
  <2>2. mailbox' = mailbox /\ local' = local
    BY <1>8 DEF a_report
  <2>3. mailed' = mailed /\ shown' = shown /\ queued' = queued
    BY <2>2, MailStays, LocalStays
  <2>4. held' = held
    BY <1>2, <2>1, HeldStays DEF LiveElsewhereStays
  <2>5. Moved(0, 0, 0, 0, 0)
    BY <1>2, <2>3, <2>4, Parts DEF Moved, Places
  <2>. QED  BY <1>6, <2>3, <2>5, Balance
<1>. QED  BY <1>7, <1>8

LEMMA LoopsOfBAccounted ==
    ASSUME Typed, Typed', AtWork, Places, BlocksAccountedFor, NEW b \in B, process_b(b)
    PROVE  Places' /\ BlocksAccountedFor'
<1>0. b \in Processes /\ b # C1 /\ b # C2 /\ b \notin A /\ Loops(b)
  BY Kinds DEF Processes, Loops
<1>1. PICK n \in 1 .. 2 : at_b(b, n)
  BY DEF AtWork
<1>2. /\ commands' = commands /\ asked("q")' = asked("q") /\ asked("string")' = asked("string")
      /\ registered' = registered
      /\ twenties(C1)' = twenties(C1) /\ twenties(C2)' = twenties(C2)
  BY <1>0, LoopLeaves DEF C
<1>3. n = 1 /\ at_b(b, 2)'
  BY <1>1, LoopOfB
<1>4. live(b) = {} /\ live(b)' = {"mymess"}
  BY <1>1, <1>3, LiveOfB DEF live_b
<1>5. mailbox[b] # << >> /\ take(b) /\ local' = local
  BY DEF process_b, has_message
<1>6. Moved(0, -1, 0, 0, 1) /\ Cardinality(shown') = Cardinality(shown)
  BY <1>0, <1>4, <1>5, TakenUp
<1>7. Lost(0, 0, 0, 0, 0, 0, 0)
  BY <1>2, <1>6, Parts DEF Lost
<1>. QED  BY <1>6, <1>7, Balance

\* A report that a C process takes up leaves a queue, and is kept or lost.
LEMMA ReportTakenUp ==
    ASSUME Typed, Places, NEW c \in C, c_report(c), FromLocal(c) \/ FromMailbox(c)
    PROVE  /\ live(c)' = live(c) => Moved(0, -1, 0, 0, 0) \/ Moved(0, 0, -1, 0, 0)
           /\ \A w : w \notin live(c) /\ live(c)' = live(c) \cup {w}
                        => Moved(0, -1, 0, 0, 1) \/ Moved(0, 0, -1, 0, 1)
           /\ Cardinality(shown') = Cardinality(shown)
<1>1. c \in Processes /\ c \in Pids /\ c # "CRT" /\ Loops(c)
  BY StressAssumption DEF Processes, Pids, Loops
<1>2. LiveElsewhereStays(c) /\ free' = free /\ delayed' = delayed
  BY <1>1, LoopLeaves
<1>3. /\ free \in Nat /\ Cardinality(mailed) \in Nat /\ Cardinality(queued) \in Nat
      /\ Cardinality(delayed) \in Nat /\ Cardinality(held) \in Nat
      /\ IsFiniteSet(mailed) /\ IsFiniteSet(queued) /\ IsFiniteSet(held)
      /\ Cardinality(shown) \in Nat
  BY Parts DEF Places
<1>4. live(c)' = live(c) => IsFiniteSet(held') /\ Cardinality(held') = Cardinality(held)
  BY <1>2, <1>3, HeldStays DEF LiveElsewhereStays
<1>5. ASSUME NEW w, w \notin live(c), live(c)' = live(c) \cup {w}
      PROVE  IsFiniteSet(held') /\ Cardinality(held') = Cardinality(held) + 1
  BY <1>1, <1>2, <1>3, <1>5, HeldGrows DEF LiveElsewhereStays
<1>6. CASE FromLocal(c)
  <2>1. mailed' = mailed /\ shown' = shown
    BY <1>6, MailStays DEF FromLocal
  <2>2. IsFiniteSet(queued') /\ Cardinality(queued') = Cardinality(queued) - 1
    BY <1>6, LocalShrinks DEF FromLocal
  <2>. QED  BY <1>2, <1>3, <1>4, <1>5, <2>1, <2>2 DEF Moved
<1>7. CASE FromMailbox(c)
  <2>1. queued' = queued
    BY <1>7, LocalStays DEF FromMailbox
  <2>2. /\ IsFiniteSet(mailed') /\ Cardinality(mailed') = Cardinality(mailed) - 1
        /\ Cardinality(shown')
             = Cardinality(shown) - one_if(c = "CRT" /\ Head(mailbox[c]) = text(1))
    BY <1>1, <1>7, Unmailed DEF FromMailbox
  <2>3. Cardinality(shown') = Cardinality(shown)
    BY <1>1, <1>3, <2>2 DEF one_if
  <2>. QED  BY <1>2, <1>3, <1>4, <1>5, <2>1, <2>2, <2>3 DEF Moved
<1>. QED  BY <1>6, <1>7

LEMMA ReportsAccounted ==
    ASSUME Typed, Typed', AtWork, NEW c \in C, WakesOnce(c), Places, BlocksAccountedFor,
           c_report(c)
    PROVE  Places' /\ BlocksAccountedFor'
<1> DEFINE twenty == taken(c).num % TWENTY = 0
<1>0. c \in Processes /\ c \notin A /\ Loops(c) /\ C1 # C2 /\ C1 \in C /\ C2 \in C
  BY Kinds DEF Processes, Loops, C
<1>1. (FromLocal(c) \/ FromMailbox(c)) /\ taken(c) \in ReportsOf(c)
  BY Taken
<1>2. /\ commands' = commands /\ registered' = registered
      /\ c # C1 => asked("q")' = asked("q") /\ asked("string")' = asked("string")
      /\ \A x \in C \ {c} : twenties(x)' = twenties(x)
  BY <1>0, LoopLeaves
<1>3. twenties(c)' = twenties(c) + one_if(twenty)
  <2>1. handled'[c] = Append(handled[c], taken(c))
    BY DEF c_report, Typed
  <2>. QED  BY <1>1, <2>1, TwentiesGrow
<1>. HIDE DEF twenty
<1>4. /\ twenties(C1) \in Nat /\ twenties(C2) \in Nat /\ commands \in Nat
      /\ asked("q") \in Int /\ asked("string") \in Int /\ Cardinality(shown) \in Nat
      /\ Cardinality(registered) \in Nat
  BY Parts
<1>5. Cardinality(shown') = Cardinality(shown)
  BY <1>1, ReportTakenUp
<1>6. CASE c = C1
  <2>1. PICK n \in 1 .. 6 : at_c1(n)
    BY DEF AtWork
  <2>2. n = 1 /\ IF twenty THEN at_c1(3)' ELSE at_c1(2)'
    BY <1>6, <2>1, LoopOfC1 DEF twenty
  <2>3. live(c) = {} /\ live(c)' = {"p"}
    BY <1>6, <2>1, <2>2, LiveOfC1 DEF live_c1
  <2>4. Moved(0, -1, 0, 0, 1) \/ Moved(0, 0, -1, 0, 1)
    BY <1>1, <2>3, ReportTakenUp
  <2>5. asked("q") = 0 /\ asked("string") = 0
    BY <2>1, <2>2, Asked
  <2>6. CASE twenty
    <3>1. asked("q")' = asked("q") + 1 /\ asked("string")' = asked("string") + 1
      BY <2>2, <2>5, <2>6, Asked
    <3>2. twenties(C1)' = twenties(C1) + 1
      BY <1>3, <1>6, <2>6 DEF one_if
    <3>3. Lost(0, 1, 1, 1, 0, 0, 0)
      BY <1>0, <1>2, <1>4, <1>5, <1>6, <3>1, <3>2 DEF Lost
    <3>. QED  BY <2>4, <3>3, Balance
  <2>7. CASE ~twenty
    <3>1. asked("q")' = asked("q") /\ asked("string")' = asked("string")
      BY <2>2, <2>5, <2>7, Asked
    <3>2. twenties(C1)' = twenties(C1)
      BY <1>3, <1>4, <1>6, <2>7 DEF one_if
    <3>3. Lost(0, 0, 0, 0, 0, 0, 0)
      BY <1>0, <1>2, <1>4, <1>5, <1>6, <3>1, <3>2 DEF Lost
    <3>. QED  BY <2>4, <3>3, Balance
  <2>. QED  BY <2>6, <2>7
<1>7. CASE c = C2
  <2>1. PICK n \in 1 .. 8 : at_c2(n)
    BY DEF AtWork
  <2>2. n \in {2, 3} /\ IF twenty THEN at_c2(6)' ELSE at_c2(5)'
    BY <1>7, <2>1, LoopOfC2 DEF twenty
  <2>3. live(c) = {"q"}
    BY <1>7, <2>1, <2>2, LiveOfC2 DEF live_c2
  <2>4. CASE twenty
    <3>1. live(c)' = {"q"}
      BY <1>7, <2>2, <2>4, LiveOfC2 DEF live_c2
    <3>2. Moved(0, -1, 0, 0, 0) \/ Moved(0, 0, -1, 0, 0)
      BY <1>1, <2>3, <3>1, ReportTakenUp
    <3>3. twenties(C2)' = twenties(C2) + 1
      BY <1>3, <1>7, <2>4 DEF one_if
    <3>4. Lost(0, 0, 0, 0, 0, 1, 0)
      BY <1>0, <1>2, <1>4, <1>5, <1>7, <3>3 DEF Lost
    <3>. QED  BY <3>2, <3>4, Balance
  <2>5. CASE ~twenty
    <3>1. live(c)' = live(c) \cup {"p"} /\ "p" \notin live(c)
      BY <1>7, <2>2, <2>3, <2>5, LiveOfC2 DEF live_c2
    <3>2. Moved(0, -1, 0, 0, 1) \/ Moved(0, 0, -1, 0, 1)
      BY <1>1, <3>1, ReportTakenUp
    <3>3. twenties(C2)' = twenties(C2)
      BY <1>3, <1>4, <1>7, <2>5 DEF one_if
    <3>4. Lost(0, 0, 0, 0, 0, 0, 0)
      BY <1>0, <1>2, <1>4, <1>5, <1>7, <3>3 DEF Lost
    <3>. QED  BY <3>2, <3>4, Balance
  <2>. QED  BY <2>4, <2>5
<1>. QED  BY <1>6, <1>7 DEF C

LEMMA MeanwhileAccounted ==
    ASSUME Typed, Typed', AtWork, NEW c \in C, Places, BlocksAccountedFor, c_meanwhile(c)
    PROVE  Places' /\ BlocksAccountedFor'
<1>0. /\ c \in Processes /\ c \in Pids /\ c # "CRT" /\ c \notin A /\ c \notin B /\ Loops(c)
      /\ C1 # C2 /\ C1 \in C /\ C2 \in C
  BY Kinds, StressAssumption DEF Processes, Pids, Loops, C
<1>1. mailbox[c] # << >> /\ take(c)
  BY DEF c_meanwhile, has_message
<1>2. ~c_report(c)
  BY DEF c_report, c_meanwhile
<1>3. /\ commands' = commands /\ registered' = registered /\ free' = free /\ delayed' = delayed
      /\ LiveElsewhereStays(c)
      /\ c # C1 => asked("q")' = asked("q") /\ asked("string")' = asked("string")
      /\ twenties(C1)' = twenties(C1) /\ twenties(C2)' = twenties(C2)
  BY <1>0, <1>2, LoopLeaves
<1>4. /\ twenties(C1) \in Nat /\ twenties(C2) \in Nat /\ commands \in Nat
      /\ asked("q") \in Int /\ asked("string") \in Int /\ Cardinality(shown) \in Nat
      /\ Cardinality(registered) \in Nat /\ free \in Nat
      /\ Cardinality(mailed) \in Nat /\ Cardinality(queued) \in Nat
      /\ Cardinality(delayed) \in Nat /\ Cardinality(held) \in Nat /\ IsFiniteSet(held)
  BY Parts DEF Places
<1>5. /\ c = C1 => /\ c_meanwhile(C1)
                   /\ IF received(c) = wakeup10 THEN at_c1(2)' ELSE at_c1(1)'
                   /\ at_c1(1)
      /\ c = C2 => /\ IF received(c) = wakeup10 THEN at_c2(3)' ELSE at_c2(4)'
                   /\ at_c2(4)
  <2>1. CASE c = C1
    <3>1. PICK n \in 1 .. 6 : at_c1(n)
      BY DEF AtWork
    <3>. QED  BY <1>0, <2>1, <3>1, LoopOfC1
  <2>2. CASE c = C2
    <3>1. PICK n \in 1 .. 8 : at_c2(n)
      BY DEF AtWork
    <3>. QED  BY <1>0, <2>2, <3>1, LoopOfC2
  <2>. QED  BY <2>1, <2>2 DEF C
<1>6. c = C1 => asked("q")' = asked("q") /\ asked("string")' = asked("string")
  BY <1>5, Asked
<1>7. ASSUME Cardinality(shown') = Cardinality(shown) PROVE Lost(0, 0, 0, 0, 0, 0, 0)
  BY <1>3, <1>4, <1>6, <1>7 DEF Lost
<1>8. received(c) \in ReportsOf(c) \cup {wakeup10}
  <2>1. mailbox[c] \in Seq(ReportsOf(c) \cup {wakeup10})
    BY <1>0 DEF Typed, Accepts
  <2>. QED  BY <1>1, <2>1, HeadTailProperties DEF received
<1>9. CASE received(c) = wakeup10
  <2>1. received(c).type = "WAKEUP10"
    BY <1>9 DEF wakeup10
  <2>2. local' = local
    BY <2>1 DEF c_meanwhile
  <2>3. \E w : w \notin live(c) /\ live(c)' = live(c) \cup {w}
    <3>1. CASE c = C1
      <4>1. live(c) = {} /\ live(c)' = {"p"}
        BY <1>5, <1>9, <3>1, LiveOfC1 DEF live_c1
      <4>. QED  BY <4>1
    <3>2. CASE c = C2
      <4>1. live(c) = {} /\ live(c)' = {"q"}
        BY <1>5, <1>9, <3>2, LiveOfC2 DEF live_c2
      <4>. QED  BY <4>1
    <3>. QED  BY <3>1, <3>2 DEF C
  <2>4. Moved(0, -1, 0, 0, 1) /\ Cardinality(shown') = Cardinality(shown)
    BY <1>0, <1>1, <2>2, <2>3, TakenUp
  <2>. QED  BY <1>7, <2>4, Balance
<1>10. CASE received(c) # wakeup10
  <2>1. received(c) \in ReportsOf(c) /\ received(c).type # "WAKEUP10"
    BY <1>8, <1>10 DEF ReportsOf, Reports
  <2>2. local' = [local EXCEPT ![c] = Append(@, received(c))] /\ hold' = hold
    BY <2>1 DEF c_meanwhile
  <2>3. IsFiniteSet(queued') /\ Cardinality(queued') = Cardinality(queued) + 1
    BY <2>1, <2>2, LocalGrows
  <2>4. /\ IsFiniteSet(mailed') /\ Cardinality(mailed') = Cardinality(mailed) - 1
        /\ Cardinality(shown')
             = Cardinality(shown) - one_if(c = "CRT" /\ Head(mailbox[c]) = text(1))
    BY <1>0, <1>1, Unmailed
  <2>5. Cardinality(shown') = Cardinality(shown)
    BY <1>0, <1>4, <2>4 DEF one_if
  <2>6. live(c)' = live(c)
    BY <1>0, <2>2, LiveElsewhere
  <2>7. held' = held
    BY <1>3, <2>6, HeldStays DEF LiveElsewhereStays
  <2>8. Moved(0, -1, 1, 0, 0)
    BY <1>3, <1>4, <2>3, <2>4, <2>7 DEF Moved
  <2>. QED  BY <1>7, <2>5, <2>8, Balance
<1>. QED  BY <1>9, <1>10

\* The timer, the decoder, the display and the user.
LEMMA OthersLeave ==
    ASSUME Typed, UNCHANGED others
    PROVE  /\ held' = held /\ queued' = queued /\ registered' = registered
           /\ asked("q")' = asked("q") /\ asked("string")' = asked("string")
           /\ twenties(C1)' = twenties(C1) /\ twenties(C2)' = twenties(C2)
<1>1. /\ local' = local /\ hold' = hold /\ todo' = todo /\ num' = num
      /\ handled' = handled
  BY DEF others
<1>2. held' = held
  <2>1. \A q \in Processes : live(q)' = live(q)
    BY <1>1, LiveElsewhere
  <2>. QED  BY <2>1, HeldStays
<1>3. queued' = queued
  BY <1>1, LocalStays
<1>4. registered' = registered
  BY <1>1 DEF registered
<1>5. asked("q")' = asked("q") /\ asked("string")' = asked("string")
  BY <1>1 DEF asked, one_if, still_calls
<1>6. twenties(C1)' = twenties(C1) /\ twenties(C2)' = twenties(C2)
  BY <1>1, TwentiesStay
<1>. QED  BY <1>2, <1>3, <1>4, <1>5, <1>6

LEMMA TimerAccounted ==
    ASSUME Typed, Typed', Places, BlocksAccountedFor, NEW c \in C, timer_expire(c)
    PROVE  Places' /\ BlocksAccountedFor'
<1>1. /\ c \in Pids /\ c # "CRT" /\ wakeup10 \in Accepts(c)
  BY Kinds, StressAssumption DEF Pids, Processes, Accepts, C
<1>2. /\ held' = held /\ queued' = queued /\ registered' = registered
      /\ asked("q")' = asked("q") /\ asked("string")' = asked("string")
      /\ twenties(C1)' = twenties(C1) /\ twenties(C2)' = twenties(C2)
      /\ free' = free /\ commands' = commands
  BY OthersLeave DEF timer_expire
<1>3. /\ IsFiniteSet(mailed') /\ Cardinality(mailed') = Cardinality(mailed) + 1
      /\ Cardinality(shown') = Cardinality(shown) + one_if(c = "CRT" /\ wakeup10 = text(1))
  BY <1>1, Mailed DEF timer_expire
<1>4. Cardinality(delayed') = Cardinality(delayed) - 1
  <2>1. c \in delayed /\ delayed' = delayed \ {c} /\ IsFiniteSet(delayed)
    BY Parts DEF timer_expire
  <2>. QED  BY <2>1, FS_RemoveElement
<1>5. Cardinality(shown') = Cardinality(shown)
  BY <1>1, <1>3, Parts DEF one_if
<1>6. Moved(0, 1, 0, -1, 0)
  BY <1>2, <1>3, <1>4, Parts DEF Moved, Places
<1>7. Lost(0, 0, 0, 0, 0, 0, 0)
  BY <1>2, <1>5, Parts DEF Lost
<1>. QED  BY <1>6, <1>7, Balance

LEMMA DecoderAccounted ==
    ASSUME Typed, Typed', Places, BlocksAccountedFor, kcd_process
    PROVE  Places' /\ BlocksAccountedFor'
<1> DEFINE r == [mailbox EXCEPT !["KCD"] = Tail(@)]
           m == mailbox
           n == mailbox'
           t == text(0)
<1>1. /\ "KCD" \in Pids /\ "CRT" \in Pids /\ t \in {t, text(1)}
      /\ Accepts("CRT") = {t, text(1)}
  BY StressAssumption DEF Pids, Processes, Accepts
<1>2. /\ held' = held /\ queued' = queued /\ registered' = registered
      /\ asked("q")' = asked("q") /\ asked("string")' = asked("string")
      /\ twenties(C1)' = twenties(C1) /\ twenties(C2)' = twenties(C2)
      /\ free' = free /\ commands' = commands /\ delayed' = delayed
  BY OthersLeave DEF kcd_process
<1>3. /\ m["KCD"] # << >> /\ DOMAIN m = Pids /\ n = [r EXCEPT !["CRT"] = Append(@, t)]
      /\ m["KCD"] \in Seq(Accepts("KCD")) /\ m["CRT"] \in Seq({t, text(1)})
  <2>1. n = [r EXCEPT !["CRT"] = Append(@, t)]
    BY <1>1 DEF kcd_process, Typed
  <2>. QED  BY <1>1, <2>1 DEF kcd_process, Typed
<1>4. /\ r["KCD"] = Tail(m["KCD"]) /\ \A x \in Pids \ {"KCD"} : r[x] = m[x]
      /\ n["CRT"] = Append(r["CRT"], t) /\ \A x \in Pids \ {"CRT"} : n[x] = r[x]
      /\ r["CRT"] \in Seq({t, text(1)})
  BY <1>1, <1>3
<1>5. IsFiniteSet(positions(m, Pids)) /\ Cardinality(positions(m, Pids)) \in Nat
  BY Parts DEF Places, mailed
<1>. HIDE DEF r, m, n, t
<1>6. /\ IsFiniteSet(positions(r, Pids))
      /\ Cardinality(positions(r, Pids)) = Cardinality(positions(m, Pids)) - 1
  BY ONLY <1>1, <1>3, <1>4, <1>5, QueueShrinks
<1>7. /\ IsFiniteSet(positions(n, Pids))
      /\ Cardinality(positions(n, Pids)) = Cardinality(positions(r, Pids)) + 1
  BY ONLY <1>1, <1>4, <1>6, QueueGrows
<1>8. Cardinality(positions(n, Pids)) = Cardinality(positions(m, Pids))
  BY <1>5, <1>6, <1>7
<1>9. Cardinality(shown') = Cardinality(shown)
  <2>1. Cardinality(marks(Append(m["CRT"], t), {text(1)}))
          = Cardinality(marks(m["CRT"], {text(1)})) + one_if(t \in {text(1)})
    BY <1>1, <1>3, MarksCount
  <2>2. one_if(t \in {text(1)}) = 0
    BY DEF one_if, t, text
  <2>3. n["CRT"] = Append(m["CRT"], t)
    BY <1>1, <1>4
  <2>4. Cardinality(marks(n["CRT"], {text(1)})) = Cardinality(marks(m["CRT"], {text(1)})) + 0
    BY <2>1, <2>2, <2>3
  <2>5. Cardinality(shown) \in Nat
    BY Parts
  <2>. QED  BY <2>4, <2>5 DEF shown, m, n
<1>10. IsFiniteSet(mailed') /\ Cardinality(mailed') = Cardinality(mailed)
  BY <1>7, <1>8 DEF mailed, m, n
<1>11. Moved(0, 0, 0, 0, 0)
  BY <1>2, <1>10, Parts DEF Moved, Places
<1>12. Lost(0, 0, 0, 0, 0, 0, 0)
  BY <1>2, <1>9, Parts DEF Lost
<1>. QED  BY <1>11, <1>12, Balance

LEMMA DisplayAccounted ==
    ASSUME Typed, Typed', Places, BlocksAccountedFor, crt_process
    PROVE  Places' /\ BlocksAccountedFor'
<1> DEFINE n == Head(mailbox["CRT"]).returns
<1>1. "CRT" \in Pids /\ Accepts("CRT") = {text(0), text(1)}
  BY StressAssumption DEF Pids, Processes, Accepts
<1>2. /\ held' = held /\ queued' = queued /\ registered' = registered
      /\ asked("q")' = asked("q") /\ asked("string")' = asked("string")
      /\ twenties(C1)' = twenties(C1) /\ twenties(C2)' = twenties(C2)
      /\ commands' = commands /\ delayed' = delayed
  BY OthersLeave DEF crt_process
<1>3. mailbox["CRT"] # << >> /\ take("CRT") /\ free' = free - n + 1
  BY DEF crt_process, take
<1>4. /\ IsFiniteSet(mailed') /\ Cardinality(mailed') = Cardinality(mailed) - 1
      /\ Cardinality(shown') = Cardinality(shown) - one_if(Head(mailbox["CRT"]) = text(1))
  BY <1>1, <1>3, Unmailed DEF one_if
<1>5. n = one_if(Head(mailbox["CRT"]) = text(1)) /\ n \in {0, 1}
  <2>1. mailbox["CRT"] \in Seq({text(0), text(1)})
    BY <1>1 DEF Typed
  <2>2. Head(mailbox["CRT"]) \in {text(0), text(1)}
    BY <1>3, <2>1, HeadTailProperties
  <2>. QED  BY <2>2 DEF one_if, text
<1>. HIDE DEF n
<1>6. /\ free \in Nat /\ Cardinality(queued) \in Nat /\ Cardinality(delayed) \in Nat
      /\ Cardinality(held) \in Nat /\ IsFiniteSet(queued) /\ IsFiniteSet(held)
      /\ Cardinality(mailed) \in Nat /\ Cardinality(shown) \in Nat
  BY Parts DEF Places
<1>7. CASE n = 0
  <2>1. free' = free + 1
    BY <1>3, <1>6, <1>7
  <2>2. Moved(1, -1, 0, 0, 0)
    BY <1>2, <1>4, <1>6, <2>1 DEF Moved
  <2>3. Cardinality(shown') = Cardinality(shown)
    BY <1>4, <1>5, <1>6, <1>7
  <2>4. Lost(0, 0, 0, 0, 0, 0, 0)
    BY <1>2, <2>3, Parts DEF Lost
  <2>. QED  BY <2>2, <2>4, Balance
<1>8. CASE n = 1
  <2>1. free' = free
    BY <1>3, <1>6, <1>8
  <2>2. Moved(0, -1, 0, 0, 0)
    BY <1>2, <1>4, <1>6, <2>1 DEF Moved
  <2>3. Cardinality(shown') = Cardinality(shown) - 1
    BY <1>4, <1>5, <1>8
  <2>4. Lost(0, 0, 0, 0, -1, 0, 0)
    BY <1>2, <1>6, <2>3, Parts DEF Lost
  <2>. QED  BY <2>2, <2>4, Balance
<1>. QED  BY <1>5, <1>7, <1>8

LEMMA CommandsAccounted ==
    ASSUME Typed, Typed', Places, BlocksAccountedFor, NEW a \in A, NEW own \in BOOLEAN,
           command(a, own)
    PROVE  Places' /\ BlocksAccountedFor'
<1> DEFINE k == [type |-> "COMMAND", own |-> own]
           m == mailbox
           r == [mailbox EXCEPT ![a] = Append(@, k)]
           n == mailbox'
           t == text(1)
<1>1. /\ a \in Pids /\ "CRT" \in Pids /\ a # "CRT" /\ k \in Accepts(a)
      /\ Accepts("CRT") = {text(0), t} /\ t \in {text(0), t}
  BY StressAssumption DEF Pids, Processes, Accepts, Commands
<1>2. /\ held' = held /\ queued' = queued /\ registered' = registered
      /\ asked("q")' = asked("q") /\ asked("string")' = asked("string")
      /\ twenties(C1)' = twenties(C1) /\ twenties(C2)' = twenties(C2)
      /\ free' = free - 2 /\ commands' = commands + 1 /\ delayed' = delayed
  BY OthersLeave DEF command
<1>3. /\ DOMAIN m = Pids /\ n = [r EXCEPT !["CRT"] = Append(@, t)]
      /\ m[a] \in Seq(Accepts(a)) /\ m["CRT"] \in Seq({text(0), t})
  <2>1. n = [r EXCEPT !["CRT"] = Append(@, t)]
    BY <1>1 DEF command, Typed
  <2>. QED  BY <1>1, <2>1 DEF Typed
<1>4. /\ r[a] = Append(m[a], k) /\ \A x \in Pids \ {a} : r[x] = m[x]
      /\ n["CRT"] = Append(r["CRT"], t) /\ \A x \in Pids \ {"CRT"} : n[x] = r[x]
      /\ r["CRT"] \in Seq({text(0), t})
  BY <1>1, <1>3
<1>5. IsFiniteSet(positions(m, Pids)) /\ Cardinality(positions(m, Pids)) \in Nat
  BY Parts DEF Places, mailed
<1>. HIDE DEF r, m, n, t, k
<1>6. /\ IsFiniteSet(positions(r, Pids))
      /\ Cardinality(positions(r, Pids)) = Cardinality(positions(m, Pids)) + 1
  BY ONLY <1>1, <1>3, <1>4, <1>5, QueueGrows
<1>7. /\ IsFiniteSet(positions(n, Pids))
      /\ Cardinality(positions(n, Pids)) = Cardinality(positions(r, Pids)) + 1
  BY ONLY <1>1, <1>4, <1>6, QueueGrows
<1>8. Cardinality(positions(n, Pids)) = Cardinality(positions(m, Pids)) + 2
  BY <1>5, <1>6, <1>7
<1>9. Cardinality(shown') = Cardinality(shown) + 1
  <2>1. Cardinality(marks(Append(m["CRT"], t), {t}))
          = Cardinality(marks(m["CRT"], {t})) + one_if(t \in {t})
    BY <1>1, <1>3, MarksCount
  <2>2. one_if(t \in {t}) = 1
    BY DEF one_if
  <2>3. n["CRT"] = Append(m["CRT"], t)
    BY <1>1, <1>4
  <2>. QED  BY <2>1, <2>2, <2>3 DEF shown, m, n, t
<1>10. IsFiniteSet(mailed') /\ Cardinality(mailed') = Cardinality(mailed) + 2
  BY <1>7, <1>8 DEF mailed, m, n
<1>11. Moved(-2, 2, 0, 0, 0)
  BY <1>2, <1>10, Parts DEF Moved, Places
<1>12. Lost(0, 0, 0, 0, 1, 0, 1)
  BY <1>2, <1>9, Parts DEF Lost
<1>. QED  BY <1>11, <1>12, Balance

LEMMA BootsAccounted ==
    ASSUME Init
    PROVE  Places /\ BlocksAccountedFor
<1>0. Typed /\ C1 \in Processes /\ C1 \notin A /\ C1 # C2 /\ "CRT" \in Pids
      /\ C1 \in C /\ C2 \in C
  BY BootsWell, Kinds DEF Processes, Pids, C
<1>1. mailed = {} /\ queued = {} /\ shown = {}
  <2>1. \A p \in Pids : DOMAIN mailbox[p] = {}
    BY DEF Init
  <2>2. \A c \in C : DOMAIN local[c] = {}
    BY DEF Init
  <2>. QED  BY <1>0, <2>1, <2>2 DEF mailed, queued, shown, positions, marks
<1>2. held = {} /\ delayed = {}
  <2>1. \A p \in Processes : DOMAIN hold[p] = {}
    BY DEF Init
  <2>2. \A p \in Processes : DOMAIN hold[p] \ dead(p) = {}
    BY <2>1
  <2>. QED  BY <2>2 DEF held, Init
<1>3. registered = {}
  <2>1. ASSUME NEW a \in A PROVE a \notin registered
    <3>1. \E x, y, z : todo[a] = <<x, y, z>>
      <4>1. todo[a] = <<request("p")>> \o register_command
        BY DEF Init, Processes
      <4>. QED  BY <4>1, CallsInARow DEF register_command
    <3>2. Len(todo[a]) = 3
      BY <3>1
    <3>. QED  BY <3>2 DEF registered
  <2>. QED  BY <2>1 DEF registered
<1>4. asked("q") = 0 /\ asked("string") = 0
  <2>1. DOMAIN todo[C1] = {}
    BY <1>0 DEF Init
  <2>. QED  BY <2>1 DEF asked, one_if, still_calls
<1>5. twenties(C1) = 0 /\ twenties(C2) = 0
  <2>1. \A c \in C : DOMAIN handled[c] = {}
    BY DEF Init
  <2>2. \A c \in C : {i \in DOMAIN handled[c] : handled[c][i].num % TWENTY = 0} = {}
    BY <2>1
  <2>. QED  BY <1>0, <2>2, FS_EmptySet DEF twenties
<1>6. Cardinality({}) = 0 /\ IsFiniteSet({})
  BY FS_EmptySet
<1>7. Places
  BY <1>1, <1>2, <1>6 DEF Places
<1>8. in_use = 0
  BY <1>1, <1>2, <1>6 DEF in_use, mailed, queued
<1>9. lost = 0
  <2>1. commands = 0
    BY DEF Init
  <2>2. losses = 0
    BY <1>1, <1>3, <1>4, <1>5, <1>6, <2>1 DEF losses
  <2>. QED  BY <1>0, <2>2, LostParts
<1>10. free = NUM_MEM_BLOCKS /\ NUM_MEM_BLOCKS \in Nat
  BY StressAssumption DEF Init
<1>11. BlocksAccountedFor
  BY <1>8, <1>9, <1>10 DEF BlocksAccountedFor
<1>. QED  BY <1>7, <1>11

LEMMA StutterAccounted ==
    ASSUME Places, BlocksAccountedFor, UNCHANGED vars
    PROVE  Places' /\ BlocksAccountedFor'
<1>1. /\ free' = free /\ mailbox' = mailbox /\ local' = local /\ delayed' = delayed
      /\ hold' = hold /\ todo' = todo /\ num' = num /\ handled' = handled
      /\ commands' = commands
  BY DEF vars
<1>2. mailed' = mailed /\ queued' = queued
  BY <1>1, MailStays, LocalStays
<1>3. held' = held
  <2>1. \A q \in Processes : live(q)' = live(q)
    BY <1>1, LiveElsewhere
  <2>. QED  BY <2>1, HeldStays
<1>4. in_use' = in_use
  BY <1>1, <1>2, <1>3 DEF in_use, mailed, queued
<1>5. lost' = lost
  BY <1>1 DEF lost, twenties, one_if, still_calls
<1>6. Places'
  BY <1>2, <1>3 DEF Places
<1>7. BlocksAccountedFor'
  BY <1>1, <1>4, <1>5 DEF BlocksAccountedFor
<1>. QED  BY <1>6, <1>7

-----------------------------------------------------------------------------
\* The balance is kept, given the invariant.
AccountInv == Inv /\ Places /\ BlocksAccountedFor

LEMMA StaysAccounted == AccountInv /\ [Next]_vars => AccountInv'
<1> SUFFICES ASSUME AccountInv, [Next]_vars PROVE AccountInv'
  OBVIOUS
<1>1. /\ Typed /\ AtWork /\ (\A c \in C : WakesOnce(c)) /\ Places /\ BlocksAccountedFor
      /\ \A a \in A : Stages(a)
  BY DEF AccountInv, Inv
<1>2. Inv' /\ Typed'
  BY <1>1, NextGoesOn DEF Inv
<1>3. C1 \in C /\ C2 \in C
  BY DEF C
<1>4. ASSUME NEW a \in A, Steps(a) \/ a_command(a) \/ a_report(a)
      PROVE  Places' /\ BlocksAccountedFor'
  BY <1>1, <1>2, <1>4, CallsOfAAccounted, LoopsOfAAccounted
<1>5. ASSUME NEW b \in B, Steps(b) \/ process_b(b)
      PROVE  Places' /\ BlocksAccountedFor'
  BY <1>1, <1>2, <1>5, CallsOfBAccounted, LoopsOfBAccounted
<1>6. ASSUME NEW c \in C, Steps(c) PROVE Places' /\ BlocksAccountedFor'
  <2>1. CASE c = C1
    BY <1>1, <1>2, <1>3, <1>6, <2>1, CallsOfC1Accounted
  <2>2. CASE c = C2
    BY <1>1, <1>2, <1>3, <1>6, <2>2, CallsOfC2Accounted
  <2>. QED  BY <2>1, <2>2 DEF C
<1>7. ASSUME NEW c \in C, c_report(c) \/ c_meanwhile(c) \/ timer_expire(c)
      PROVE  Places' /\ BlocksAccountedFor'
  BY <1>1, <1>2, <1>7, ReportsAccounted, MeanwhileAccounted, TimerAccounted
<1>8. ASSUME kcd_process \/ crt_process PROVE Places' /\ BlocksAccountedFor'
  BY <1>1, <1>2, <1>8, DecoderAccounted, DisplayAccounted
<1>9. ASSUME NEW a \in A, NEW own \in BOOLEAN, command(a, own)
      PROVE  Places' /\ BlocksAccountedFor'
  BY <1>1, <1>2, <1>9, CommandsAccounted
<1>10. ASSUME UNCHANGED vars PROVE Places' /\ BlocksAccountedFor'
  BY <1>1, <1>10, StutterAccounted
<1>11. Places' /\ BlocksAccountedFor'
  BY <1>4, <1>5, <1>6, <1>7, <1>8, <1>9, <1>10 DEF Next, System
<1>. QED  BY <1>2, <1>11 DEF AccountInv

\* Every block is free, in use, or one of those the code is known to lose: no other
\* one is ever lost, and none is given back twice.
THEOREM AllBlocksAccountedFor == Spec => []BlocksAccountedFor
<1>1. Init => AccountInv
  BY BootsWell, BootsAccounted DEF AccountInv, Inv
<1>2. AccountInv => BlocksAccountedFor
  BY DEF AccountInv
<1>. QED  BY <1>1, <1>2, StaysAccounted, PTL DEF Spec
=============================================================================
