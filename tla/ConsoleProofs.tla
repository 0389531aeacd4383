---------------------------- MODULE ConsoleProofs ----------------------------
(* What holds of the console for every number of blocks, of lines and of       *)
(* ticks, whatever is typed and whatever the blocks hold.                      *)
EXTENDS Console, SequenceTheorems, FiniteSetTheorems, WellFoundedInduction, TLAPS

(* Sequences of whatever they contain, and counting in them.                   *)

IsSeq(s) == s \in Seq({s[i] : i \in DOMAIN s})

LEMMA SeqFacts ==
    ASSUME NEW s, IsSeq(s)
    PROVE  Len(s) \in Nat /\ DOMAIN s = 1 .. Len(s) /\ (s = << >> <=> Len(s) = 0)
<1>1. PICK S : s \in Seq(S)
  BY DEF IsSeq
<1>. QED  BY <1>1

LEMMA AppendIs ==
    ASSUME NEW s, IsSeq(s), NEW m
    PROVE  /\ IsSeq(Append(s, m)) /\ Len(Append(s, m)) = Len(s) + 1
           /\ \A i \in 1 .. Len(s) : Append(s, m)[i] = s[i]
           /\ Append(s, m)[Len(s) + 1] = m
<1> DEFINE S == {s[i] : i \in DOMAIN s} \cup {m}
           r == Append(s, m)
<1>1. s \in Seq(S)
  BY DEF IsSeq
<1>2. /\ r \in Seq(S) /\ Len(r) = Len(s) + 1
      /\ \A i \in 1 .. Len(s) : r[i] = s[i]
      /\ r[Len(s) + 1] = m
  BY <1>1
<1>3. r \in Seq({r[i] : i \in DOMAIN r})
  <2> HIDE DEF r
  <2>. QED  BY <1>2
<1>. QED  BY <1>2, <1>3 DEF IsSeq

LEMMA TailIs ==
    ASSUME NEW s, IsSeq(s), s # << >>
    PROVE  /\ IsSeq(Tail(s)) /\ Len(s) > 0 /\ Len(Tail(s)) = Len(s) - 1
           /\ \A i \in 1 .. Len(s) - 1 : Tail(s)[i] = s[i + 1]
           /\ Head(s) = s[1]
<1> DEFINE S == {s[i] : i \in DOMAIN s}
           r == Tail(s)
<1>1. s \in Seq(S)
  BY DEF IsSeq
<1>2. /\ r \in Seq(S) /\ Len(r) = Len(s) - 1 /\ Len(s) > 0
      /\ \A i \in 1 .. Len(s) - 1 : r[i] = s[i + 1]
  BY <1>1
<1>3. r \in Seq({r[i] : i \in DOMAIN r})
  <2> HIDE DEF r
  <2>. QED  BY <1>2
<1>4. Head(s) = s[1]
  BY <1>1
<1>. QED  BY <1>2, <1>3, <1>4 DEF IsSeq

\* One element in front.
LEMMA PrependIs ==
    ASSUME NEW a, NEW t, IsSeq(t)
    PROVE  LET s == <<a>> \o t
           IN  /\ IsSeq(s) /\ s # << >> /\ Head(s) = a /\ Tail(s) = t
               /\ Len(s) = Len(t) + 1
<1> DEFINE S == {t[i] : i \in DOMAIN t} \cup {a}
           s == <<a>> \o t
<1>1. t \in Seq(S) /\ <<a>> \in Seq(S)
  BY DEF IsSeq
<1>2. s \in Seq(S) /\ Len(s) = Len(t) + 1 /\ Head(s) = a /\ Tail(s) = t /\ s # << >>
  BY <1>1
<1>3. s \in Seq({s[i] : i \in DOMAIN s})
  <2> HIDE DEF s
  <2>. QED  BY <1>2
<1>. QED  BY <1>2, <1>3 DEF IsSeq

\* Positions in a sequence, when an element comes at the end or goes at the front.
LEMMA CountIsNat ==
    ASSUME NEW n \in Nat, NEW I, I \subseteq 1 .. n
    PROVE  IsFiniteSet(I) /\ Cardinality(I) \in Nat
<1>1. IsFiniteSet(1 .. n)
  BY FS_Interval
<1>2. IsFiniteSet(I)
  BY <1>1, FS_Subset
<1>. QED  BY <1>2, FS_CardinalityType

LEMMA CountAppend ==
    ASSUME NEW n \in Nat, NEW I \in SUBSET (1 .. n), NEW K \in SUBSET (1 .. n + 1),
           \A i \in 1 .. n : i \in K <=> i \in I
    PROVE  /\ Cardinality(I) \in Nat
           /\ Cardinality(K) = IF n + 1 \in K THEN Cardinality(I) + 1 ELSE Cardinality(I)
<1>1. IsFiniteSet(I) /\ Cardinality(I) \in Nat
  BY CountIsNat
<1>2. CASE n + 1 \in K
  <2>1. n + 1 \notin I
    OBVIOUS
  <2>2. \A i \in 1 .. n + 1 : i \in 1 .. n \/ i = n + 1
    OBVIOUS
  <2>3. K = I \cup {n + 1}
    BY <1>2, <2>2
  <2>. QED  BY <1>1, <1>2, <2>1, <2>3, FS_AddElement
<1>3. CASE n + 1 \notin K
  <2>1. \A i \in 1 .. n + 1 : i \in 1 .. n \/ i = n + 1
    OBVIOUS
  <2>2. K = I
    BY <1>3, <2>1
  <2>. QED  BY <1>1, <1>3, <2>2
<1>. QED  BY <1>2, <1>3

LEMMA CountTail ==
    ASSUME NEW n \in Nat, n > 0, NEW I \in SUBSET (1 .. n), NEW K \in SUBSET (1 .. n - 1),
           \A i \in 1 .. n - 1 : i \in K <=> i + 1 \in I
    PROVE  /\ Cardinality(I) \in Nat /\ Cardinality(K) \in Nat
           /\ Cardinality(K) = IF 1 \in I THEN Cardinality(I) - 1 ELSE Cardinality(I)
<1> DEFINE f == [i \in K |-> i + 1]
<1>1. IsFiniteSet(I) /\ Cardinality(I) \in Nat
  BY CountIsNat
<1>2. IsFiniteSet(K) /\ Cardinality(K) \in Nat
  <2>1. n - 1 \in Nat /\ K \subseteq 1 .. n - 1
    OBVIOUS
  <2>. QED  BY <2>1, CountIsNat
<1>3. f \in Bijection(K, I \ {1})
  <2>1. f \in [K -> I \ {1}]
    OBVIOUS
  <2>2. \A a, b \in K : f[a] = f[b] => a = b
    OBVIOUS
  <2>3. \A y \in I \ {1} : \E a \in K : f[a] = y
    <3> SUFFICES ASSUME NEW y \in I \ {1} PROVE y - 1 \in K /\ f[y - 1] = y
      OBVIOUS
    <3>. QED  OBVIOUS
  <2>. QED  BY <2>1, <2>2, <2>3 DEF Bijection, Injection, Surjection, IsInjective
<1>4. Cardinality(I \ {1}) = Cardinality(K)
  <2>1. ExistsBijection(K, I \ {1})
    BY <1>3 DEF ExistsBijection
  <2>. QED  BY <1>2, <2>1, FS_Bijection
<1>. QED  BY <1>1, <1>2, <1>4, FS_RemoveElement
-----------------------------------------------------------------------------
(* The calls of the processes.                                                 *)

\* Steps t begin with call o of pointer w, and rest follows.
First(t, o, w, rest) ==
    /\ IsSeq(t) /\ t # << >> /\ Tail(t) = rest
    /\ Head(t).op = o /\ Head(t).what = w

SendIs(t, w, d, fill, rest) ==
    First(t, "send", w, rest) /\ Head(t).to = d /\ Head(t).fill = fill

LEMMA FirstIsSeq ==
    /\ \A t, o, w, rest : First(t, o, w, rest) => IsSeq(t)
    /\ \A t, w, d, fill, rest : SendIs(t, w, d, fill, rest) => IsSeq(t)
  BY DEF First, SendIs

LEMMA EmptyIsSeq == IsSeq(<< >>)
  BY DEF IsSeq

LEMMA Requesting ==
    ASSUME NEW w, NEW rest, IsSeq(rest)
    PROVE  First(request(w) \o rest, "request", w, rest)
  BY PrependIs DEF First, request

LEMMA Releasing ==
    ASSUME NEW w, NEW rest, IsSeq(rest)
    PROVE  First(release(w) \o rest, "release", w, rest)
  BY PrependIs DEF First, release

LEMMA DelayedSending ==
    ASSUME NEW w, NEW rest, IsSeq(rest)
    PROVE  First(delayed_send(w) \o rest, "delayed_send", w, rest)
  BY PrependIs DEF First, delayed_send

LEMMA Sending ==
    ASSUME NEW w, NEW d, NEW fill, NEW rest, IsSeq(rest)
    PROVE  SendIs(send(w, d, fill) \o rest, w, d, fill, rest)
  BY PrependIs DEF First, send, SendIs

\* The last call.
LEMMA CallingLast ==
    ASSUME NEW w, NEW d, NEW fill
    PROVE  /\ First(request(w), "request", w, << >>)
           /\ First(release(w), "release", w, << >>)
           /\ First(delayed_send(w), "delayed_send", w, << >>)
           /\ SendIs(send(w, d, fill), w, d, fill, << >>)
  BY DEF First, request, release, delayed_send, send, IsSeq, SendIs

LEMMA Regroup ==
    ASSUME NEW a, NEW b, NEW c, IsSeq(a), IsSeq(b), IsSeq(c)
    PROVE  (a \o b) \o c = a \o (b \o c) /\ IsSeq(a \o b)
<1> DEFINE S == {a[i] : i \in DOMAIN a} \cup {b[i] : i \in DOMAIN b} \cup {c[i] : i \in DOMAIN c}
           r == a \o b
<1>1. a \in Seq(S) /\ b \in Seq(S) /\ c \in Seq(S)
  BY DEF IsSeq
<1> HIDE DEF S
<1>2. (a \o b) \o c = a \o (b \o c)
  BY <1>1, ConcatAssociative
<1>3. r \in Seq(S)
  BY <1>1
<1> HIDE DEF r
<1>4. r \in Seq({r[i] : i \in DOMAIN r})
  BY <1>3
<1>. QED  BY <1>2, <1>4 DEF IsSeq, r

complain == send("other", "CRT", no_prompt(<<CR, "not OK">>))
registration(c) ==
    send("other", "KCD", [type |-> "COMMAND_REGISTRATION", data |-> text(<<c>>)])
last_tick == delayed_send("out") \o release("in")
ask_tick == request("out") \o last_tick

\* What process p may have left to do, with pointers W to blocks it has.
KCDForm(t, W) ==
    \/ t = << >>
    \/ t = echo /\ "in" \in W
    \/ t = request("out") \o echo /\ "in" \in W
    \/ \E d : t = send("out", d, << >>) \o echo /\ {"in", "out"} \subseteq W
    \/ t = request("other") \o (complain \o echo) /\ "in" \in W
    \/ t = complain \o echo /\ {"in", "other"} \subseteq W

SetupForm(c, t, W) ==
    \/ t = request("other") \o (registration(c) \o request("out"))
    \/ t = registration(c) \o request("out") /\ "other" \in W
    \/ t = request("out")

WCForm(t, W) ==
    \/ t = << >>
    \/ SetupForm("W", t, W)
    \/ t = release("in") /\ "in" \in W
    \/ t = request("out") \o (output_clock \o release("in")) /\ "in" \in W
    \/ t = output_clock \o release("in") /\ {"in", "out"} \subseteq W
    \/ t = request("out") \o (output_clock \o ask_tick) /\ "in" \in W
    \/ t = output_clock \o ask_tick /\ {"in", "out"} \subseteq W
    \/ t = ask_tick /\ "in" \in W
    \/ t = last_tick /\ {"in", "out"} \subseteq W

PRIOForm(t, W) ==
    \/ t = << >>
    \/ SetupForm("C", t, W)
    \/ t = release("in") /\ "in" \in W
    \/ t = error_message \o release("in") /\ "in" \in W

Form(p, t, W) ==
    CASE p = "KCD" -> KCDForm(t, W)
      [] p = "WC" -> WCForm(t, W)
      [] p = "SET_PRIO" -> PRIOForm(t, W)

\* What these are, call by call.
Echoed == [type |-> "CRT_DISPLAY_REQUEST"]
Registered(c) == [type |-> "COMMAND_REGISTRATION", data |-> text(<<c>>)]
Refused == no_prompt(<<CR, "not OK">>)
Shown == no_prompt(<<CR, "hh:mm:ss", CR>>)
Failed == no_prompt(<<CR, "ERROR", CR>>)

LEMMA KCDCalls ==
    /\ SendIs(echo, "in", "CRT", Echoed, << >>)
    /\ First(request("out") \o echo, "request", "out", echo)
    /\ \A d : SendIs(send("out", d, << >>) \o echo, "out", d, << >>, echo)
    /\ SendIs(complain \o echo, "other", "CRT", Refused, echo)
    /\ First(request("other") \o (complain \o echo), "request", "other", complain \o echo)
    /\ not_ok \o echo = request("other") \o (complain \o echo)
    /\ << >> \o echo = echo
<1>1. SendIs(echo, "in", "CRT", Echoed, << >>)
  BY CallingLast DEF echo, Echoed
<1>2. IsSeq(echo)
  BY <1>1, FirstIsSeq
<1>3. SendIs(complain \o echo, "other", "CRT", Refused, echo)
  BY <1>2, Sending DEF complain, Refused
<1>4. IsSeq(complain \o echo)
  BY <1>3, FirstIsSeq
<1>5. IsSeq(request("other")) /\ IsSeq(complain)
  BY CallingLast, FirstIsSeq DEF complain
<1>6. not_ok \o echo = request("other") \o (complain \o echo)
  <2>1. not_ok = request("other") \o complain
    BY DEF not_ok, complain
  <2>. QED  BY <1>2, <1>5, <2>1, Regroup
<1>7. \A d : SendIs(send("out", d, << >>) \o echo, "out", d, << >>, echo)
  BY <1>2, Sending
<1>8. /\ First(request("out") \o echo, "request", "out", echo)
      /\ First(request("other") \o (complain \o echo), "request", "other", complain \o echo)
  BY <1>2, <1>4, Requesting
<1>9. << >> \o echo = echo
  BY DEF echo, send
<1>. QED  BY <1>1, <1>3, <1>6, <1>7, <1>8, <1>9

LEMMA SetupCalls ==
    ASSUME NEW c
    PROVE  /\ First(request("out"), "request", "out", << >>)
           /\ SendIs(registration(c) \o request("out"), "other", "KCD", Registered(c),
                     request("out"))
           /\ First(request("other") \o (registration(c) \o request("out")),
                    "request", "other", registration(c) \o request("out"))
           /\ register_command(c) \o request("out")
                = request("other") \o (registration(c) \o request("out"))
<1>1. First(request("out"), "request", "out", << >>)
  BY CallingLast
<1>2. IsSeq(request("out"))
  BY <1>1, FirstIsSeq
<1>3. SendIs(registration(c) \o request("out"), "other", "KCD", Registered(c),
             request("out"))
  BY <1>2, Sending DEF registration, Registered
<1>4. IsSeq(registration(c) \o request("out"))
  BY <1>3, FirstIsSeq
<1>5. IsSeq(request("other")) /\ IsSeq(registration(c))
  BY CallingLast, FirstIsSeq DEF registration
<1>6. register_command(c) \o request("out")
        = request("other") \o (registration(c) \o request("out"))
  BY <1>2, <1>5, Regroup DEF register_command, registration
<1>. QED  BY <1>1, <1>3, <1>4, <1>6, Requesting

LEMMA WCCalls ==
    /\ First(release("in"), "release", "in", << >>)
    /\ SendIs(output_clock \o release("in"), "out", "CRT", Shown, release("in"))
    /\ First(request("out") \o (output_clock \o release("in")),
             "request", "out", output_clock \o release("in"))
    /\ First(last_tick, "delayed_send", "out", release("in"))
    /\ First(ask_tick, "request", "out", last_tick)
    /\ SendIs(output_clock \o ask_tick, "out", "CRT", Shown, ask_tick)
    /\ First(request("out") \o (output_clock \o ask_tick),
             "request", "out", output_clock \o ask_tick)
    /\ << >> \o release("in") = release("in")
    /\ show \o release("in") = request("out") \o (output_clock \o release("in"))
    /\ show_and_tick \o release("in") = request("out") \o (output_clock \o ask_tick)
<1> DEFINE r == release("in")
           o == output_clock
           q == request("out")
           d == delayed_send("out")
<1>1. First(r, "release", "in", << >>) /\ IsSeq(r)
  BY CallingLast, FirstIsSeq
<1>2. IsSeq(o) /\ IsSeq(q) /\ IsSeq(d)
  BY CallingLast, FirstIsSeq DEF output_clock
<1>3. SendIs(o \o r, "out", "CRT", Shown, r)
  BY <1>1, Sending DEF output_clock, Shown
<1>4. First(last_tick, "delayed_send", "out", r)
  BY <1>1, DelayedSending DEF last_tick
<1>5. First(ask_tick, "request", "out", last_tick)
  BY <1>4, FirstIsSeq, Requesting DEF ask_tick
<1>6. SendIs(o \o ask_tick, "out", "CRT", Shown, ask_tick)
  BY <1>5, FirstIsSeq, Sending DEF output_clock, Shown
<1>7. << >> \o r = r
  BY DEF release
<1>8. show \o r = q \o (o \o r)
  BY <1>1, <1>2, Regroup DEF show
<1>9. show_and_tick \o r = q \o (o \o ask_tick)
  <2> HIDE DEF r, o, q, d
  <2>1. IsSeq(q \o o) /\ IsSeq((q \o o) \o q)
    BY <1>2, Regroup
  <2>2. (((q \o o) \o q) \o d) \o r = ((q \o o) \o q) \o (d \o r)
    BY <1>1, <1>2, <2>1, Regroup
  <2>3. IsSeq(d \o r)
    BY <1>1, <1>2, Regroup
  <2>4. ((q \o o) \o q) \o (d \o r) = (q \o o) \o (q \o (d \o r))
    BY <1>2, <2>1, <2>3, Regroup
  <2>5. IsSeq(q \o (d \o r))
    BY <1>2, <2>3, Regroup
  <2>6. (q \o o) \o (q \o (d \o r)) = q \o (o \o (q \o (d \o r)))
    BY <1>2, <2>5, Regroup
  <2>. QED  BY <2>2, <2>4, <2>6 DEF show_and_tick, show, ask_tick, last_tick, r, o, q, d
<1>10. /\ First(q \o (o \o r), "request", "out", o \o r)
       /\ First(q \o (o \o ask_tick), "request", "out", o \o ask_tick)
  <2>1. IsSeq(o \o r) /\ IsSeq(o \o ask_tick)
    BY <1>3, <1>6, FirstIsSeq
  <2>. QED  BY <2>1, Requesting
<1>. QED  BY <1>1, <1>3, <1>4, <1>5, <1>6, <1>7, <1>8, <1>9, <1>10

LEMMA PRIOCalls ==
    SendIs(error_message \o release("in"), "out", "CRT", Failed, release("in"))
<1>1. IsSeq(release("in"))
  BY WCCalls, FirstIsSeq
<1>. QED  BY <1>1, Sending DEF error_message, Failed

\* What is filled in is as long as the data of a message is.
FillOK(f) == "data" \in DOMAIN f => DOMAIN f.data = Cells

LEMMA FillsOK ==
    /\ FillOK(Echoed) /\ FillOK(Refused) /\ FillOK(Shown) /\ FillOK(Failed)
    /\ FillOK(<< >>) /\ \A c : FillOK(Registered(c))
  BY DEF FillOK, Echoed, Refused, Shown, Failed, Registered, no_prompt, text

\* The next call of process p, and what is left to do after it.
NextCall(p, t, W) ==
    LET o == Head(t).op
        w == Head(t).what
    IN  /\ IsSeq(t) /\ w \in {"in", "out", "other"}
        /\ o = "request" => Form(p, Tail(t), W \cup {w})
        /\ o # "request" /\ w \in W => Form(p, Tail(t), W \ {w})
        /\ o # "request" => \/ w \in W
                            \/ /\ p = "SET_PRIO" /\ w = "out"
                               /\ t = error_message \o release("in")
        /\ o = "delayed_send" => p = "WC"
        /\ o = "send" =>
             /\ FillOK(Head(t).fill)
             /\ Head(t).to \in {"WC", "SET_PRIO"} =>
                  p = "KCD" /\ t = send("out", Head(t).to, << >>) \o echo

\* From a call that names the rest.
LEMMA RequestNext ==
    ASSUME NEW p, NEW t, NEW W, NEW w \in {"in", "out", "other"}, NEW rest,
           First(t, "request", w, rest), Form(p, rest, W \cup {w})
    PROVE  NextCall(p, t, W)
  BY DEF NextCall, First

LEMMA GiveNext ==
    ASSUME NEW p, NEW t, NEW W, NEW w \in W \cap {"in", "out", "other"},
           NEW o \in {"release", "delayed_send"}, NEW rest,
           First(t, o, w, rest), Form(p, rest, W \ {w}), o = "delayed_send" => p = "WC"
    PROVE  NextCall(p, t, W)
  BY DEF NextCall, First

LEMMA SendNext ==
    ASSUME NEW p, NEW t, NEW W, NEW w \in W \cap {"in", "out", "other"},
           NEW d, NEW fill, NEW rest,
           SendIs(t, w, d, fill, rest), FillOK(fill), Form(p, rest, W \ {w}),
           d \in {"WC", "SET_PRIO"} =>
             p = "KCD" /\ t = send("out", d, << >>) \o echo
    PROVE  NextCall(p, t, W)
  BY DEF NextCall, First, SendIs

LEMMA KCDNext ==
    ASSUME NEW t, NEW W, KCDForm(t, W), t # << >>
    PROVE  NextCall("KCD", t, W)
<1>1. \A r, V : Form("KCD", r, V) <=> KCDForm(r, V)
  BY DEF Form
<1>2. CASE t = echo /\ "in" \in W
  <2>1. KCDForm(<< >>, W \ {"in"})
    BY DEF KCDForm
  <2>2. SendIs(t, "in", "CRT", Echoed, << >>)
    BY <1>2, KCDCalls
  <2>. QED  BY <1>1, <1>2, <2>1, <2>2, FillsOK, SendNext
<1>3. CASE t = request("out") \o echo /\ "in" \in W
  <2>1. KCDForm(echo, W \cup {"out"})
    BY <1>3 DEF KCDForm
  <2>2. First(t, "request", "out", echo)
    BY <1>3, KCDCalls
  <2>. QED  BY <1>1, <2>1, <2>2, RequestNext
<1>4. ASSUME NEW d, t = send("out", d, << >>) \o echo, {"in", "out"} \subseteq W
      PROVE  NextCall("KCD", t, W)
  <2>1. KCDForm(echo, W \ {"out"})
    BY <1>4 DEF KCDForm
  <2>2. SendIs(t, "out", d, << >>, echo)
    BY <1>4, KCDCalls
  <2>. QED  BY <1>1, <1>4, <2>1, <2>2, FillsOK, SendNext
<1>5. CASE t = request("other") \o (complain \o echo) /\ "in" \in W
  <2>1. KCDForm(complain \o echo, W \cup {"other"})
    BY <1>5 DEF KCDForm
  <2>2. First(t, "request", "other", complain \o echo)
    BY <1>5, KCDCalls
  <2>. QED  BY <1>1, <2>1, <2>2, RequestNext
<1>6. CASE t = complain \o echo /\ {"in", "other"} \subseteq W
  <2>1. KCDForm(echo, W \ {"other"})
    BY <1>6 DEF KCDForm
  <2>2. SendIs(t, "other", "CRT", Refused, echo)
    BY <1>6, KCDCalls
  <2>. QED  BY <1>1, <1>6, <2>1, <2>2, FillsOK, SendNext
<1>. QED  BY <1>2, <1>3, <1>4, <1>5, <1>6 DEF KCDForm

LEMMA SetupNext ==
    ASSUME NEW p, NEW c, NEW t, NEW W, SetupForm(c, t, W),
           \A V : Form(p, << >>, V),
           \A r, V : SetupForm(c, r, V) => Form(p, r, V)
    PROVE  NextCall(p, t, W)
<1>1. CASE t = request("other") \o (registration(c) \o request("out"))
  <2>1. SetupForm(c, registration(c) \o request("out"), W \cup {"other"})
    BY DEF SetupForm
  <2>2. First(t, "request", "other", registration(c) \o request("out"))
    BY <1>1, SetupCalls
  <2>3. Form(p, registration(c) \o request("out"), W \cup {"other"})
    BY <2>1
  <2>. QED  BY <2>2, <2>3, RequestNext
<1>2. CASE t = registration(c) \o request("out") /\ "other" \in W
  <2>1. SetupForm(c, request("out"), W \ {"other"})
    BY DEF SetupForm
  <2>2. SendIs(t, "other", "KCD", Registered(c), request("out"))
    BY <1>2, SetupCalls
  <2>3. Form(p, request("out"), W \ {"other"})
    BY <2>1
  <2>. QED  BY <1>2, <2>2, <2>3, FillsOK, SendNext
<1>3. CASE t = request("out")
  <2>1. First(t, "request", "out", << >>)
    BY <1>3, SetupCalls
  <2>. QED  BY <2>1, RequestNext
<1>. QED  BY <1>1, <1>2, <1>3 DEF SetupForm

LEMMA WCNext ==
    ASSUME NEW t, NEW W, WCForm(t, W), t # << >>
    PROVE  NextCall("WC", t, W)
<1> DEFINE r == release("in")
<1>1. \A s, V : Form("WC", s, V) <=> WCForm(s, V)
  BY DEF Form
<1>2. CASE SetupForm("W", t, W)
  <2>1. /\ \A V : Form("WC", << >>, V)
        /\ \A s, V : SetupForm("W", s, V) => Form("WC", s, V)
    BY <1>1 DEF WCForm
  <2>. QED  BY <1>2, <2>1, SetupNext
<1>3. CASE t = r /\ "in" \in W
  <2>1. WCForm(<< >>, W \ {"in"})
    BY DEF WCForm
  <2>. QED  BY <1>1, <1>3, <2>1, WCCalls, GiveNext
<1>4. CASE t = request("out") \o (output_clock \o r) /\ "in" \in W
  <2>1. WCForm(output_clock \o r, W \cup {"out"})
    BY <1>4 DEF WCForm
  <2>. QED  BY <1>1, <1>4, <2>1, WCCalls, RequestNext
<1>5. CASE t = output_clock \o r /\ {"in", "out"} \subseteq W
  <2>1. WCForm(r, W \ {"out"})
    BY <1>5 DEF WCForm
  <2>2. SendIs(t, "out", "CRT", Shown, r)
    BY <1>5, WCCalls
  <2>. QED  BY <1>1, <1>5, <2>1, <2>2, FillsOK, SendNext
<1>6. CASE t = request("out") \o (output_clock \o ask_tick) /\ "in" \in W
  <2>1. WCForm(output_clock \o ask_tick, W \cup {"out"})
    BY <1>6 DEF WCForm
  <2>. QED  BY <1>1, <1>6, <2>1, WCCalls, RequestNext
<1>7. CASE t = output_clock \o ask_tick /\ {"in", "out"} \subseteq W
  <2>1. WCForm(ask_tick, W \ {"out"})
    BY <1>7 DEF WCForm
  <2>2. SendIs(t, "out", "CRT", Shown, ask_tick)
    BY <1>7, WCCalls
  <2>. QED  BY <1>1, <1>7, <2>1, <2>2, FillsOK, SendNext
<1>8. CASE t = ask_tick /\ "in" \in W
  <2>1. WCForm(last_tick, W \cup {"out"})
    BY <1>8 DEF WCForm
  <2>. QED  BY <1>1, <1>8, <2>1, WCCalls, RequestNext
<1>9. CASE t = last_tick /\ {"in", "out"} \subseteq W
  <2>1. WCForm(r, W \ {"out"})
    BY <1>9 DEF WCForm
  <2>2. First(t, "delayed_send", "out", r)
    BY <1>9, WCCalls
  <2>. QED  BY <1>1, <1>9, <2>1, <2>2, GiveNext
<1>. QED  BY <1>2, <1>3, <1>4, <1>5, <1>6, <1>7, <1>8, <1>9 DEF WCForm

LEMMA PRIONext ==
    ASSUME NEW t, NEW W, PRIOForm(t, W), t # << >>
    PROVE  NextCall("SET_PRIO", t, W)
<1> DEFINE r == release("in")
<1>1. \A s, V : Form("SET_PRIO", s, V) <=> PRIOForm(s, V)
  BY DEF Form
<1>2. CASE SetupForm("C", t, W)
  <2>1. /\ \A V : Form("SET_PRIO", << >>, V)
        /\ \A s, V : SetupForm("C", s, V) => Form("SET_PRIO", s, V)
    BY <1>1 DEF PRIOForm
  <2>. QED  BY <1>2, <2>1, SetupNext
<1>3. CASE t = r /\ "in" \in W
  <2>1. PRIOForm(<< >>, W \ {"in"})
    BY DEF PRIOForm
  <2>. QED  BY <1>1, <1>3, <2>1, WCCalls, GiveNext
<1>4. CASE t = error_message \o r /\ "in" \in W
  <2>1. PRIOForm(r, W \ {"out"})
    BY <1>4 DEF PRIOForm
  <2>2. SendIs(t, "out", "CRT", Failed, r)
    BY <1>4, PRIOCalls
  <2>3. CASE "out" \in W
    BY <1>1, <2>1, <2>2, <2>3, FillsOK, SendNext
  <2>4. CASE "out" \notin W
    BY <1>4, <2>2, <2>4, FillsOK DEF NextCall, SendIs, First
  <2>. QED  BY <2>3, <2>4
<1>. QED  BY <1>2, <1>3, <1>4 DEF PRIOForm

LEMMA FormNext ==
    ASSUME NEW p \in Processes, NEW t, NEW W, Form(p, t, W), t # << >>
    PROVE  NextCall(p, t, W)
  BY KCDNext, WCNext, PRIONext DEF Form, Processes
-----------------------------------------------------------------------------
(* Types, and what becomes of the blocks: those that are free, delayed, in a   *)
(* mailbox or behind a pointer are never more than there are.                  *)

Message(m) == {"type", "data"} \subseteq DOMAIN m /\ DOMAIN m.data = Cells
Pointers == {"in", "out", "other"}

MailOK ==
    /\ DOMAIN mailbox = Pids
    /\ \A p \in Pids : IsSeq(mailbox[p]) /\ \A i \in DOMAIN mailbox[p] : Message(mailbox[p][i])
HoldOK ==
    /\ DOMAIN hold = Processes
    /\ \A p \in Processes :
         DOMAIN hold[p] \subseteq Pointers /\ \A w \in DOMAIN hold[p] : Message(hold[p][w])
TodoOK ==
    /\ DOMAIN todo = Processes
    /\ \A p \in Processes : Form(p, todo[p], DOMAIN hold[p])

SumOf(n) == n["KCD"] + n["WC"] + n["SET_PRIO"] + n["CRT"] + n["UART"] + n["TIMER"]
MailSum == SumOf([p \in Pids |-> Len(mailbox[p])])
one_if(x) == IF x THEN 1 ELSE 0
Behind(W) == one_if("in" \in W) + one_if("out" \in W) + one_if("other" \in W)
HoldSum == Behind(DOMAIN hold["KCD"]) + Behind(DOMAIN hold["WC"]) + Behind(DOMAIN hold["SET_PRIO"])

LEMMA SumChanges ==
    ASSUME NEW m \in [Pids -> Nat], NEW n \in [Pids -> Nat], NEW d \in Pids, NEW x \in Int,
           n[d] = m[d] + x, \A p \in Pids : p # d => n[p] = m[p]
    PROVE  SumOf(m) \in Nat /\ SumOf(n) \in Nat /\ SumOf(n) = SumOf(m) + x
  BY DEF SumOf, Pids, Processes

\* A message is put into a mailbox.
LEMMA Posted ==
    ASSUME MailOK, NEW d \in Pids, NEW m, Message(m),
           mailbox' = [mailbox EXCEPT ![d] = Append(@, m)]
    PROVE  /\ MailOK' /\ MailSum \in Nat /\ MailSum' \in Nat /\ MailSum' = MailSum + 1
           /\ mailbox'[d] = Append(mailbox[d], m)
           /\ \A p \in Pids : p # d => mailbox'[p] = mailbox[p]
<1> DEFINE s == mailbox[d]
           r == Append(s, m)
<1>1. /\ DOMAIN mailbox' = Pids /\ mailbox'[d] = r
      /\ \A p \in Pids : p # d => mailbox'[p] = mailbox[p]
  BY DEF MailOK
<1>2. IsSeq(s) /\ \A i \in DOMAIN s : Message(s[i])
  BY DEF MailOK
<1>3. /\ Len(s) \in Nat /\ DOMAIN s = 1 .. Len(s)
      /\ IsSeq(r) /\ Len(r) = Len(s) + 1 /\ DOMAIN r = 1 .. Len(s) + 1
      /\ \A i \in 1 .. Len(s) : r[i] = s[i]
      /\ r[Len(s) + 1] = m
  BY <1>2, SeqFacts, AppendIs
<1> HIDE DEF s, r
<1>4. \A i \in DOMAIN r : Message(r[i])
  <2>1. \A i \in DOMAIN r : i \in 1 .. Len(s) \/ i = Len(s) + 1
    BY <1>3
  <2>. QED  BY <1>2, <1>3, <2>1
<1>5. MailOK'
  BY <1>1, <1>3, <1>4 DEF MailOK
<1>6. MailSum \in Nat /\ MailSum' \in Nat /\ MailSum' = MailSum + 1
  <2> DEFINE before == [p \in Pids |-> Len(mailbox[p])]
             after == [p \in Pids |-> Len(mailbox'[p])]
  <2>1. before \in [Pids -> Nat] /\ after \in [Pids -> Nat]
    BY <1>5, SeqFacts DEF MailOK
  <2>2. after[d] = before[d] + 1 /\ \A p \in Pids : p # d => after[p] = before[p]
    BY <1>1, <1>3 DEF s
  <2> HIDE DEF before, after
  <2>3. /\ SumOf(before) \in Nat /\ SumOf(after) \in Nat
        /\ SumOf(after) = SumOf(before) + 1
    BY <2>1, <2>2, SumChanges
  <2>. QED  BY <2>3 DEF MailSum, before, after
<1>. QED  BY <1>1, <1>5, <1>6 DEF s, r

\* The oldest message is taken out.
LEMMA Fetched ==
    ASSUME MailOK, NEW d \in Pids, mailbox[d] # << >>,
           mailbox' = [mailbox EXCEPT ![d] = Tail(@)]
    PROVE  /\ MailOK' /\ MailSum \in Nat /\ MailSum' \in Nat /\ MailSum' = MailSum - 1
           /\ Message(Head(mailbox[d]))
           /\ mailbox'[d] = Tail(mailbox[d])
           /\ \A p \in Pids : p # d => mailbox'[p] = mailbox[p]
<1> DEFINE s == mailbox[d]
           r == Tail(s)
<1>1. /\ DOMAIN mailbox' = Pids /\ mailbox'[d] = r
      /\ \A p \in Pids : p # d => mailbox'[p] = mailbox[p]
  BY DEF MailOK
<1>2. IsSeq(s) /\ \A i \in DOMAIN s : Message(s[i])
  BY DEF MailOK
<1>3. /\ Len(s) \in Nat /\ Len(s) > 0 /\ DOMAIN s = 1 .. Len(s)
      /\ IsSeq(r) /\ Len(r) = Len(s) - 1 /\ DOMAIN r = 1 .. Len(s) - 1
      /\ \A i \in 1 .. Len(s) - 1 : r[i] = s[i + 1]
      /\ Head(s) = s[1]
  BY <1>2, SeqFacts, TailIs
<1> HIDE DEF s, r
<1>4. Message(Head(s)) /\ \A i \in DOMAIN r : Message(r[i])
  <2>1. 1 \in DOMAIN s
    BY <1>3
  <2>2. \A i \in 1 .. Len(s) - 1 : i + 1 \in DOMAIN s
    BY <1>3
  <2>3. Message(Head(s))
    BY <1>2, <1>3, <2>1
  <2>4. \A i \in DOMAIN r : Message(r[i])
    BY <1>2, <1>3, <2>2
  <2>. QED  BY <2>3, <2>4
<1>5. MailOK'
  BY <1>1, <1>3, <1>4 DEF MailOK
<1>6. MailSum \in Nat /\ MailSum' \in Nat /\ MailSum' = MailSum - 1
  <2> DEFINE before == [p \in Pids |-> Len(mailbox[p])]
             after == [p \in Pids |-> Len(mailbox'[p])]
  <2>1. before \in [Pids -> Nat] /\ after \in [Pids -> Nat]
    BY <1>5, SeqFacts DEF MailOK
  <2>2. after[d] = before[d] + (-1) /\ \A p \in Pids : p # d => after[p] = before[p]
    BY <1>1, <1>3 DEF s
  <2> HIDE DEF before, after
  <2>3. /\ SumOf(before) \in Nat /\ SumOf(after) \in Nat
        /\ SumOf(after) = SumOf(before) + (-1)
    BY <2>1, <2>2, SumChanges
  <2>4. SumOf(after) = SumOf(before) - 1
    BY <2>3
  <2>. QED  BY <2>3, <2>4 DEF MailSum, before, after
<1>. QED  BY <1>1, <1>4, <1>5, <1>6 DEF s, r

\* A pointer of p gets a block, and the messages p has may have been written to.
LEMMA Held ==
    ASSUME HoldOK, NEW p \in Processes, NEW w \in Pointers, NEW m, Message(m), NEW f,
           DOMAIN f = DOMAIN hold[p], \A x \in DOMAIN f : Message(f[x]),
           hold' = [hold EXCEPT ![p] = with(f, w, m)]
    PROVE  /\ HoldOK' /\ HoldSum \in Nat /\ HoldSum' \in Nat /\ HoldSum' <= HoldSum + 1
           /\ DOMAIN hold'[p] = DOMAIN hold[p] \cup {w} /\ hold'[p][w] = m
           /\ \A x \in DOMAIN f : x # w => hold'[p][x] = f[x]
           /\ \A q \in Processes : q # p => hold'[q] = hold[q]
<1>1. /\ DOMAIN hold' = Processes /\ hold'[p] = with(f, w, m)
      /\ \A q \in Processes : q # p => hold'[q] = hold[q]
  BY DEF HoldOK
<1>2. /\ DOMAIN hold'[p] = DOMAIN hold[p] \cup {w} /\ hold'[p][w] = m
      /\ \A x \in DOMAIN f : x # w => hold'[p][x] = f[x]
  BY <1>1 DEF with
<1>3. HoldOK'
  BY <1>1, <1>2 DEF HoldOK
<1>4. HoldSum \in Nat /\ HoldSum' \in Nat /\ HoldSum' <= HoldSum + 1
  <2>1. Behind(DOMAIN hold'[p]) <= Behind(DOMAIN hold[p]) + 1
    BY <1>2 DEF Behind, one_if, Pointers
  <2>2. \A W : Behind(W) \in Nat
    BY DEF Behind, one_if
  <2>. QED  BY <1>1, <2>1, <2>2 DEF HoldSum, Processes
<1>. QED  BY <1>1, <1>2, <1>3, <1>4

\* A block of p is given away.
LEMMA Given ==
    ASSUME HoldOK, NEW p \in Processes, NEW w \in DOMAIN hold[p],
           hold' = [hold EXCEPT ![p] = without(@, w)]
    PROVE  /\ HoldOK' /\ HoldSum \in Nat /\ HoldSum' \in Nat /\ HoldSum' = HoldSum - 1
           /\ DOMAIN hold'[p] = DOMAIN hold[p] \ {w}
           /\ \A x \in DOMAIN hold'[p] : hold'[p][x] = hold[p][x]
           /\ \A q \in Processes : q # p => hold'[q] = hold[q]
<1>1. /\ DOMAIN hold' = Processes /\ hold'[p] = without(hold[p], w)
      /\ \A q \in Processes : q # p => hold'[q] = hold[q]
  BY DEF HoldOK
<1>2. /\ DOMAIN hold'[p] = DOMAIN hold[p] \ {w}
      /\ \A x \in DOMAIN hold'[p] : hold'[p][x] = hold[p][x]
  BY <1>1 DEF without
<1>3. HoldOK'
  BY <1>1, <1>2 DEF HoldOK
<1>4. HoldSum \in Nat /\ HoldSum' \in Nat /\ HoldSum' = HoldSum - 1
  <2>1. Behind(DOMAIN hold'[p]) = Behind(DOMAIN hold[p]) - 1
    BY <1>2 DEF Behind, one_if, Pointers, HoldOK
  <2>2. \A W : Behind(W) \in Nat
    BY DEF Behind, one_if
  <2>. QED  BY <1>1, <2>1, <2>2 DEF HoldSum, Processes
<1>. QED  BY <1>1, <1>2, <1>3, <1>4
-----------------------------------------------------------------------------
DecoderOK ==
    /\ kcd = [map |-> kcd.map, i |-> kcd.i, buffer_flag |-> kcd.buffer_flag,
              char_typed |-> kcd.char_typed]
    /\ kcd.i \in 0 .. MAX_COMMAND_SIZE /\ kcd.buffer_flag \in BOOLEAN
    /\ kcd.char_typed \in 0 .. 3
ClockOK == clock \in [time : Int \X Int \X Int, on : BOOLEAN] /\ accepted(clock.time)

\* While a command is typed there is a block for it, or one is requested.
CommandOK ==
    /\ kcd.buffer_flag => \/ "out" \in DOMAIN hold["KCD"]
                          \/ todo["KCD"] = request("out") \o echo
    /\ \A d : todo["KCD"] = send("out", d, << >>) \o echo => ~kcd.buffer_flag

Typed ==
    /\ free \in Nat /\ delayed \in Nat
    /\ MailOK /\ HoldOK /\ TodoOK
    /\ DecoderOK /\ CommandOK /\ ClockOK
    /\ typing \in Seq(Keys)

Accounted == free + delayed + MailSum + HoldSum <= NUM_MEM_BLOCKS

\* What a call does to todo.
LEMMA CalledIs ==
    ASSUME TodoOK, NEW p \in Processes, todo[p] # << >>, Called(p)
    PROVE  /\ NextCall(p, todo[p], DOMAIN hold[p])
           /\ DOMAIN todo' = Processes /\ todo'[p] = Tail(todo[p])
           /\ \A q \in Processes : q # p => todo'[q] = todo[q]
  BY FormNext DEF TodoOK, Called

\* The others have what they had.
LEMMA TodoChanges ==
    ASSUME TodoOK, NEW p \in Processes, DOMAIN todo' = Processes,
           Form(p, todo'[p], DOMAIN hold'[p]),
           \A q \in Processes : q # p => todo'[q] = todo[q] /\ hold'[q] = hold[q]
    PROVE  TodoOK'
  BY DEF TodoOK

LEMMA RequestIs ==
    ASSUME HoldOK, TodoOK, NEW p \in Processes, Request(p)
    PROVE  /\ HoldOK' /\ HoldSum \in Nat /\ HoldSum' \in Nat /\ HoldSum' <= HoldSum + 1
           /\ TodoOK'
           /\ DOMAIN hold'[p] = DOMAIN hold[p] \cup {pointer(p)}
           /\ \A x \in DOMAIN hold[p] : x # pointer(p) => hold'[p][x] = hold[p][x]
           /\ p = "KCD" /\ pointer(p) = "out" => hold'[p]["out"] \in Stale
           /\ todo'[p] = Tail(todo[p]) /\ Head(todo[p]).op = "request" /\ todo[p] # << >>
           /\ \A q \in Processes : q # p => todo'[q] = todo[q] /\ hold'[q] = hold[q]
<1>1. /\ todo[p] # << >> /\ Called(p) /\ Head(todo[p]).op = "request"
  BY DEF Request, Calls
<1>2. PICK x : /\ x \in IF p = "KCD" /\ pointer(p) = "out" THEN Stale ELSE {Blank}
               /\ hold' = [hold EXCEPT ![p] = with(@, pointer(p), x)]
  BY DEF Request
<1>3. Message(x)
  <2>1. Message(Blank)
    BY DEF Message, Blank, text
  <2>2. \A y \in Stale : Message(y)
    BY ConsoleAssumption DEF Message
  <2>. QED  BY <1>2, <2>1, <2>2
<1>4. /\ NextCall(p, todo[p], DOMAIN hold[p])
      /\ DOMAIN todo' = Processes /\ todo'[p] = Tail(todo[p])
      /\ \A q \in Processes : q # p => todo'[q] = todo[q]
  BY <1>1, CalledIs
<1>5. pointer(p) \in Pointers
  BY <1>4 DEF NextCall, pointer, Pointers
<1>6. /\ HoldOK' /\ HoldSum \in Nat /\ HoldSum' \in Nat /\ HoldSum' <= HoldSum + 1
      /\ DOMAIN hold'[p] = DOMAIN hold[p] \cup {pointer(p)} /\ hold'[p][pointer(p)] = x
      /\ \A y \in DOMAIN hold[p] : y # pointer(p) => hold'[p][y] = hold[p][y]
      /\ \A q \in Processes : q # p => hold'[q] = hold[q]
  <2> DEFINE f == hold[p]
  <2>1. DOMAIN f = DOMAIN hold[p] /\ \A y \in DOMAIN f : Message(f[y])
    BY DEF HoldOK
  <2>2. hold' = [hold EXCEPT ![p] = with(f, pointer(p), x)]
    BY <1>2
  <2>. QED  BY <1>3, <1>5, <2>1, <2>2, Held
<1>7. Form(p, todo'[p], DOMAIN hold'[p])
  BY <1>1, <1>4, <1>6 DEF NextCall, pointer
<1>8. TodoOK'
  BY <1>4, <1>6, <1>7, TodoChanges
<1>. QED  BY <1>1, <1>2, <1>4, <1>6, <1>8

\* The other three give a block away.
LEMMA GivingIs ==
    ASSUME HoldOK, TodoOK, NEW p \in Processes, todo[p] # << >>, Owns(p),
           Head(todo[p]).op # "request", GivenAway(p), Called(p)
    PROVE  /\ HoldOK' /\ HoldSum \in Nat /\ HoldSum' \in Nat /\ HoldSum' = HoldSum - 1
           /\ TodoOK'
           /\ DOMAIN hold'[p] = DOMAIN hold[p] \ {pointer(p)}
           /\ \A x \in DOMAIN hold'[p] : hold'[p][x] = hold[p][x]
           /\ todo'[p] = Tail(todo[p])
           /\ \A q \in Processes : q # p => todo'[q] = todo[q] /\ hold'[q] = hold[q]
<1>1. /\ NextCall(p, todo[p], DOMAIN hold[p])
      /\ DOMAIN todo' = Processes /\ todo'[p] = Tail(todo[p])
      /\ \A q \in Processes : q # p => todo'[q] = todo[q]
  BY CalledIs
<1>2. pointer(p) \in DOMAIN hold[p] /\ hold' = [hold EXCEPT ![p] = without(@, pointer(p))]
  BY DEF Owns, GivenAway
<1>3. /\ HoldOK' /\ HoldSum \in Nat /\ HoldSum' \in Nat /\ HoldSum' = HoldSum - 1
      /\ DOMAIN hold'[p] = DOMAIN hold[p] \ {pointer(p)}
      /\ \A x \in DOMAIN hold'[p] : hold'[p][x] = hold[p][x]
      /\ \A q \in Processes : q # p => hold'[q] = hold[q]
  BY <1>2, Given
<1>4. Form(p, todo'[p], DOMAIN hold'[p])
  BY <1>1, <1>2, <1>3 DEF NextCall, pointer
<1>5. TodoOK'
  BY <1>1, <1>3, <1>4, TodoChanges
<1>. QED  BY <1>1, <1>3, <1>5

\* What is sent is a message.
LEMMA SentMessage ==
    ASSUME HoldOK, TodoOK, NEW p \in Processes, Send(p)
    PROVE  Message(filled(Head(todo[p]).fill, hold[p][pointer(p)], p))
<1>1. NextCall(p, todo[p], DOMAIN hold[p]) /\ Head(todo[p]).op = "send"
  BY CalledIs DEF Send, Calls
<1>2. FillOK(Head(todo[p]).fill)
  BY <1>1 DEF NextCall
<1>3. Message(hold[p][pointer(p)])
  BY DEF HoldOK, Send, Owns
<1>. QED  BY <1>2, <1>3 DEF FillOK, Message, filled

\* A process receives m and does calls.
LEMMA ReceiveIs ==
    ASSUME MailOK, HoldOK, TodoOK, NEW p \in Processes, NEW m, NEW mine, NEW calls,
           Receive(p, m, mine, calls), Message(m),
           DOMAIN mine = DOMAIN hold[p], \A w \in DOMAIN mine : Message(mine[w]),
           Form(p, calls, DOMAIN hold[p] \cup {"in"})
    PROVE  /\ MailOK' /\ HoldOK' /\ TodoOK'
           /\ MailSum \in Nat /\ MailSum' \in Nat /\ MailSum' = MailSum - 1
           /\ HoldSum \in Nat /\ HoldSum' \in Nat /\ HoldSum' <= HoldSum + 1
           /\ todo[p] = << >> /\ mailbox[p] # << >>
           /\ mailbox'[p] = Tail(mailbox[p]) /\ todo'[p] = calls
           /\ \A q \in Pids : q # p => mailbox'[q] = mailbox[q]
           /\ DOMAIN hold'[p] = DOMAIN hold[p] \cup {"in"}
           /\ \A w \in DOMAIN mine : w # "in" => hold'[p][w] = mine[w]
           /\ \A q \in Processes : q # p => todo'[q] = todo[q] /\ hold'[q] = hold[q]
<1>1. /\ todo[p] = << >> /\ mailbox[p] # << >>
      /\ mailbox' = [mailbox EXCEPT ![p] = Tail(@)]
      /\ hold' = [hold EXCEPT ![p] = with(mine, "in", m)]
      /\ todo' = [todo EXCEPT ![p] = calls]
  BY DEF Receive, has_message
<1>2. p \in Pids
  BY DEF Pids
<1>3. /\ MailOK' /\ MailSum \in Nat /\ MailSum' \in Nat /\ MailSum' = MailSum - 1
      /\ mailbox'[p] = Tail(mailbox[p])
      /\ \A q \in Pids : q # p => mailbox'[q] = mailbox[q]
  BY <1>1, <1>2, Fetched
<1>4. /\ HoldOK' /\ HoldSum \in Nat /\ HoldSum' \in Nat /\ HoldSum' <= HoldSum + 1
      /\ DOMAIN hold'[p] = DOMAIN hold[p] \cup {"in"}
      /\ \A w \in DOMAIN mine : w # "in" => hold'[p][w] = mine[w]
      /\ \A q \in Processes : q # p => hold'[q] = hold[q]
  <2>1. "in" \in Pointers
    BY DEF Pointers
  <2>2. hold' = [hold EXCEPT ![p] = with(mine, "in", m)]
    BY <1>1
  <2>3. \A x \in DOMAIN mine : Message(mine[x])
    OBVIOUS
  <2>4. /\ HoldOK' /\ HoldSum \in Nat /\ HoldSum' \in Nat /\ HoldSum' <= HoldSum + 1
        /\ DOMAIN hold'[p] = DOMAIN hold[p] \cup {"in"}
    BY <2>1, <2>2, <2>3, Held
  <2>5. \A w \in DOMAIN mine : w # "in" => hold'[p][w] = mine[w]
    BY <2>2 DEF HoldOK, with
  <2>6. \A q \in Processes : q # p => hold'[q] = hold[q]
    BY <2>1, <2>2, <2>3, Held
  <2>. QED  BY <2>4, <2>5, <2>6
<1>5. /\ DOMAIN todo' = Processes /\ todo'[p] = calls
      /\ \A q \in Processes : q # p => todo'[q] = todo[q]
  BY <1>1 DEF TodoOK
<1>6. TodoOK'
  BY <1>4, <1>5, TodoChanges
<1>. QED  BY <1>1, <1>3, <1>4, <1>5, <1>6

\* What is received is a message.
LEMMA ReceivedMessage ==
    ASSUME MailOK, NEW p \in Processes, mailbox[p] # << >>
    PROVE  Message(received(p)) /\ received(p) = mailbox[p][1] /\ 1 \in DOMAIN mailbox[p]
<1>1. IsSeq(mailbox[p]) /\ \A i \in DOMAIN mailbox[p] : Message(mailbox[p][i])
  BY DEF MailOK, Pids
<1>2. /\ Len(mailbox[p]) > 0 /\ Head(mailbox[p]) = mailbox[p][1]
      /\ DOMAIN mailbox[p] = 1 .. Len(mailbox[p]) /\ Len(mailbox[p]) \in Nat
  BY <1>1, TailIs, SeqFacts
<1>. QED  BY <1>1, <1>2 DEF received
-----------------------------------------------------------------------------
(* The steps keep the types and the account.                                   *)

LEMMA KCDTail ==
    ASSUME NEW t, NEW W, KCDForm(t, W), t # << >>
    PROVE  /\ \A d : Tail(t) # send("out", d, << >>) \o echo
           /\ Tail(t) # request("out") \o echo
           /\ Head(t).what = "out" =>
                \/ t = request("out") \o echo /\ Head(t).op = "request"
                \/ /\ \E d : t = send("out", d, << >>) \o echo
                   /\ Head(t).op = "send"
           /\ t = request("out") \o echo => Head(t).op = "request" /\ Head(t).what = "out"
           /\ \A d : t = send("out", d, << >>) \o echo =>
                Head(t).op = "send" /\ Head(t).what = "out"
<1>1. Tail(t) \in {<< >>, echo, complain \o echo}
  BY KCDCalls DEF KCDForm, SendIs, First
<1>2. \A r \in {<< >>, echo, complain \o echo} :
        /\ \A d : r # send("out", d, << >>) \o echo
        /\ r # request("out") \o echo
  BY KCDCalls DEF SendIs, First
<1>3. Head(t).what = "out" =>
        \/ t = request("out") \o echo /\ Head(t).op = "request"
        \/ (\E d : t = send("out", d, << >>) \o echo) /\ Head(t).op = "send"
  BY KCDCalls DEF KCDForm, SendIs, First
<1>4. t = request("out") \o echo => Head(t).op = "request" /\ Head(t).what = "out"
  BY KCDCalls DEF First
<1>5. \A d : t = send("out", d, << >>) \o echo =>
        Head(t).op = "send" /\ Head(t).what = "out"
  BY KCDCalls DEF SendIs, First
<1>. QED  BY <1>1, <1>2, <1>3, <1>4, <1>5

LEMMA MailSumIsNat == MailOK => MailSum \in Nat
<1> DEFINE n == [p \in Pids |-> Len(mailbox[p])]
<1>1. MailOK => n \in [Pids -> Nat]
  BY SeqFacts DEF MailOK
<1> HIDE DEF n
<1>2. n \in [Pids -> Nat] => SumOf(n) \in Nat
  BY DEF SumOf, Pids, Processes
<1>. QED  BY <1>1, <1>2 DEF MailSum, n

\* The account: what moves is not more than was there.
LEMMA Balance ==
    ASSUME NEW f \in Nat, NEW d \in Nat, NEW m \in Nat, NEW h \in Nat,
           NEW f2 \in Nat, NEW d2 \in Nat, NEW m2 \in Nat, NEW h2 \in Nat,
           NEW n \in Nat, f + d + m + h <= n, NEW x \in -1 .. 1, NEW y \in -1 .. 1,
           f2 + d2 <= f + d + (x - y), m2 <= m + y, h2 <= h - x
    PROVE  f2 + d2 + m2 + h2 <= n
  OBVIOUS

\* The block of the command that is being typed stays where it is.
LEMMA CommandKept ==
    ASSUME Typed, NEW p \in Processes, Request(p) \/ Send(p) \/ DelayedSend(p) \/ Release(p)
    PROVE  CommandOK'
<1>1. kcd' = kcd
  BY DEF Request, Send, DelayedSend, Release
<1>2. /\ todo[p] # << >> /\ HoldOK /\ TodoOK
      /\ KCDForm(todo["KCD"], DOMAIN hold["KCD"])
  BY DEF Typed, TodoOK, Form, Processes, Request, Send, DelayedSend, Release, Calls
<1>3. CASE p # "KCD"
  <2>1. todo'["KCD"] = todo["KCD"] /\ hold'["KCD"] = hold["KCD"]
    BY <1>2, <1>3 DEF Request, Send, DelayedSend, Release, Called, GivenAway, TodoOK, HoldOK,
                      Processes
  <2>. QED  BY <1>1, <2>1 DEF CommandOK, Typed
<1>4. CASE p = "KCD" /\ Request(p)
  <2>1. /\ todo'["KCD"] = Tail(todo["KCD"]) /\ Head(todo["KCD"]).op = "request"
        /\ DOMAIN hold'["KCD"] = DOMAIN hold["KCD"] \cup {Head(todo["KCD"]).what}
    BY <1>2, <1>4, RequestIs DEF pointer
  <2>. QED  BY <1>1, <1>2, <1>4, <2>1, KCDTail DEF CommandOK, Typed
<1>5. CASE p = "KCD" /\ ~Request(p)
  <2>1. Owns(p) /\ Head(todo[p]).op # "request" /\ GivenAway(p) /\ Called(p)
    BY <1>5 DEF Send, DelayedSend, Release, Calls
  <2>2. /\ todo'["KCD"] = Tail(todo["KCD"])
        /\ DOMAIN hold'["KCD"] = DOMAIN hold["KCD"] \ {Head(todo["KCD"]).what}
        /\ Head(todo["KCD"]).op # "request"
    BY <1>2, <1>5, <2>1, GivingIs DEF pointer
  <2>3. kcd.buffer_flag => "out" \in DOMAIN hold'["KCD"]
    BY <1>2, <1>5, <2>2, KCDTail DEF CommandOK, Typed
  <2>. QED  BY <1>1, <1>2, <1>5, <2>2, <2>3, KCDTail DEF CommandOK
<1>. QED  BY <1>3, <1>4, <1>5

LEMMA CallTyped ==
    ASSUME Typed, Accounted, NEW p \in Processes,
           Request(p) \/ Send(p) \/ DelayedSend(p) \/ Release(p)
    PROVE  Typed' /\ Accounted'
<1>1. /\ UNCHANGED <<kcd, clock, typing>> /\ todo[p] # << >>
      /\ DecoderOK' /\ ClockOK'
  BY DEF Request, Send, DelayedSend, Release, Calls, Typed, DecoderOK, ClockOK, bounds
<1>2. /\ free \in Nat /\ delayed \in Nat /\ MailSum \in Nat /\ NUM_MEM_BLOCKS \in Nat
      /\ free + delayed + MailSum + HoldSum <= NUM_MEM_BLOCKS
  BY MailSumIsNat, ConsoleAssumption DEF Typed, Accounted
<1>3. MailOK /\ HoldOK /\ TodoOK
  BY DEF Typed
<1>4. SUFFICES /\ MailOK' /\ HoldOK' /\ TodoOK' /\ free' \in Nat /\ delayed' \in Nat
               /\ Accounted'
  <2>1. CommandOK'
    BY CommandKept
  <2>. QED  BY <1>1, <2>1, <1>4 DEF Typed
<1>5. CASE Request(p)
  <2>1. HoldSum \in Nat /\ HoldSum' \in Nat /\ HoldSum' <= HoldSum + 1
    BY <1>3, <1>5, RequestIs
  <2>2. HoldOK' /\ TodoOK'
    BY <1>3, <1>5, RequestIs
  <2>3. free > 0 /\ free' = free - 1 /\ mailbox' = mailbox /\ delayed' = delayed
    BY <1>5 DEF Request
  <2>4. MailOK'
    BY <1>3, <2>3 DEF MailOK
  <2>5. MailSum' = MailSum
    BY <2>3 DEF MailSum
  <2>6. free' \in Nat /\ delayed' \in Nat /\ free' + delayed' <= free + delayed + (-1 - 0)
    BY <1>2, <2>3
  <2>7. /\ MailSum' \in Nat /\ MailSum' <= MailSum + 0 /\ HoldSum' <= HoldSum - (-1)
        /\ -1 \in -1 .. 1 /\ 0 \in -1 .. 1
    BY <1>2, <2>1, <2>5
  <2>8. Accounted'
    BY <1>2, <2>1, <2>6, <2>7, Balance DEF Accounted
  <2>. QED  BY <2>2, <2>4, <2>6, <2>8
<1>6. CASE ~Request(p)
  <2>1. Owns(p) /\ Head(todo[p]).op # "request" /\ GivenAway(p) /\ Called(p)
    BY <1>6 DEF Send, DelayedSend, Release, Calls
  <2>2. HoldSum \in Nat /\ HoldSum' \in Nat /\ HoldSum' = HoldSum - 1
    BY <1>1, <1>3, <2>1, GivingIs
  <2>3. HoldOK' /\ TodoOK'
    BY <1>1, <1>3, <2>1, GivingIs
  <2>4. CASE Send(p)
    <3> DEFINE d == Head(todo[p]).to
               m == filled(Head(todo[p]).fill, hold[p][pointer(p)], p)
    <3>1. /\ free' = free /\ delayed' = delayed
          /\ mailbox' = IF d \notin Pids THEN mailbox
                        ELSE [mailbox EXCEPT ![d] = Append(@, m)]
      BY <2>4 DEF Send, pointer
    <3>2. Message(m)
      BY <1>3, <2>4, SentMessage
    <3> HIDE DEF m, d
    <3>3. MailOK' /\ MailSum' \in Nat /\ MailSum' <= MailSum + 1
      <4>1. CASE d \in Pids
        <5>1. mailbox' = [mailbox EXCEPT ![d] = Append(@, m)]
          BY <3>1, <4>1
        <5>2. MailOK' /\ MailSum' \in Nat /\ MailSum' = MailSum + 1
          BY <1>3, <3>2, <4>1, <5>1, Posted
        <5>. QED  BY <1>2, <5>2
      <4>2. CASE d \notin Pids
        <5>1. mailbox' = mailbox
          BY <3>1, <4>2
        <5>2. MailOK'
          BY <1>3, <5>1 DEF MailOK
        <5>3. MailSum' = MailSum
          BY <5>1 DEF MailSum
        <5>. QED  BY <1>2, <5>2, <5>3
      <4>. QED  BY <4>1, <4>2
    <3>4. free' \in Nat /\ delayed' \in Nat /\ free' + delayed' <= free + delayed + (1 - 1)
      BY <1>2, <3>1
    <3>5. 1 \in -1 .. 1 /\ HoldSum' <= HoldSum - 1
      BY <1>2, <2>2
    <3>6. Accounted'
      BY <1>2, <2>2, <3>3, <3>4, <3>5, Balance DEF Accounted
    <3>. QED  BY <2>3, <3>3, <3>4, <3>6
  <2>5. CASE DelayedSend(p) \/ Release(p)
    <3>1. /\ mailbox' = mailbox /\ free' \in Nat /\ delayed' \in Nat
          /\ free' + delayed' <= free + delayed + (1 - 0)
      BY <1>2, <2>5 DEF DelayedSend, Release
    <3>2. MailOK'
      BY <1>3, <3>1 DEF MailOK
    <3>3. MailSum' = MailSum
      BY <3>1 DEF MailSum
    <3>4. /\ MailSum' \in Nat /\ MailSum' <= MailSum + 0 /\ HoldSum' <= HoldSum - 1
          /\ 1 \in -1 .. 1 /\ 0 \in -1 .. 1
      BY <1>2, <2>2, <3>3
    <3>5. Accounted'
      BY <1>2, <2>2, <3>1, <3>4, Balance DEF Accounted
    <3>. QED  BY <2>3, <3>1, <3>2, <3>5
  <2>. QED  BY <1>6, <2>4, <2>5
<1>. QED  BY <1>5, <1>6

\* A process receives a message.
LEMMA ReceiveTyped ==
    ASSUME Typed, Accounted, NEW p \in Processes, NEW m, NEW mine, NEW calls,
           Receive(p, m, mine, calls), Message(m), UNCHANGED free,
           DOMAIN mine = DOMAIN hold[p], \A w \in DOMAIN mine : Message(mine[w]),
           Form(p, calls, DOMAIN hold[p] \cup {"in"}),
           DecoderOK', CommandOK', ClockOK'
    PROVE  Typed' /\ Accounted'
<1>1. MailOK /\ HoldOK /\ TodoOK /\ free \in Nat /\ delayed \in Nat /\ NUM_MEM_BLOCKS \in Nat
  BY ConsoleAssumption DEF Typed
<1>2. /\ MailOK' /\ HoldOK' /\ TodoOK'
      /\ MailSum \in Nat /\ MailSum' \in Nat /\ MailSum' = MailSum - 1
      /\ HoldSum \in Nat /\ HoldSum' \in Nat /\ HoldSum' <= HoldSum + 1
  BY <1>1, ReceiveIs
<1>3. UNCHANGED <<free, delayed, typing>>
  BY DEF Receive, bounds
<1>4. /\ MailSum' <= MailSum + (-1) /\ HoldSum' <= HoldSum - (-1)
      /\ -1 \in -1 .. 1
  BY <1>2
<1>5. /\ free' + delayed' <= free + delayed + (-1 - (-1))
      /\ free' \in Nat /\ delayed' \in Nat
  BY <1>1, <1>3
<1>6. Accounted'
  BY <1>1, <1>2, <1>4, <1>5, Balance DEF Accounted
<1>. QED  BY <1>1, <1>2, <1>3, <1>6 DEF Typed

\* A block that is not for a command is no command (kcd_process.c).
LEMMA KCDIdle ==
    ASSUME Typed, has_message("KCD")
    PROVE  /\ todo["KCD"] = << >> /\ HoldOK
           /\ kcd.buffer_flag => "out" \in DOMAIN hold["KCD"]
           /\ Message(received("KCD")) /\ mailbox["KCD"] # << >>
           /\ \A d : echo # send("out", d, << >>) \o echo
           /\ \A d : request("out") \o echo # send("out", d, << >>) \o echo
<1>1. << >> # request("out") \o echo
  BY KCDCalls DEF First
<1>2. todo["KCD"] = << >> /\ mailbox["KCD"] # << >>
  BY DEF has_message
<1>3. Message(received("KCD"))
  BY <1>2, ReceivedMessage DEF Typed, Processes
<1>4. \A d : echo # send("out", d, << >>) \o echo
  BY KCDCalls DEF SendIs, First
<1>5. \A d : request("out") \o echo # send("out", d, << >>) \o echo
  BY KCDCalls DEF SendIs, First
<1>. QED  BY <1>1, <1>2, <1>3, <1>4, <1>5 DEF Typed, CommandOK

\* The decoder receives something that has nothing to do with the command it
\* fills, or the next key of it.
LEMMA KCDOnTyped ==
    ASSUME Typed, Accounted, NEW m, NEW mine, Message(m),
           Receive("KCD", m, mine, echo), UNCHANGED <<free, clock>>,
           DOMAIN mine = DOMAIN hold["KCD"], \A w \in DOMAIN mine : Message(mine[w]),
           DecoderOK', kcd'.buffer_flag = kcd.buffer_flag
    PROVE  Typed' /\ Accounted'
<1>1. /\ has_message("KCD") /\ "KCD" \in Processes /\ free' = free
      /\ MailOK /\ HoldOK /\ TodoOK
  BY DEF Receive, Processes, Typed
<1>2. Form("KCD", echo, DOMAIN hold["KCD"] \cup {"in"})
  BY DEF Form, KCDForm
<1>3. DOMAIN hold'["KCD"] = DOMAIN hold["KCD"] \cup {"in"} /\ todo'["KCD"] = echo
  <2>1. DOMAIN hold'["KCD"] = DOMAIN hold["KCD"] \cup {"in"}
    BY <1>1, <1>2, ReceiveIs
  <2>2. todo'["KCD"] = echo
    BY <1>1 DEF Receive, TodoOK
  <2>. QED  BY <2>1, <2>2
<1>4. CommandOK'
  BY <1>1, <1>3, KCDIdle DEF CommandOK
<1>5. ClockOK'
  BY DEF Typed, ClockOK
<1>. QED  BY <1>1, <1>2, <1>4, <1>5, ReceiveTyped

\* The decoder receives something when no command is begun any more.
LEMMA KCDOffTyped ==
    ASSUME Typed, Accounted, NEW calls,
           Receive("KCD", received("KCD"), hold["KCD"], calls), UNCHANGED <<free, clock>>,
           Form("KCD", calls, DOMAIN hold["KCD"] \cup {"in"}),
           DecoderOK', ~kcd'.buffer_flag
    PROVE  Typed' /\ Accounted'
<1>1. /\ has_message("KCD") /\ "KCD" \in Processes /\ free' = free
  BY DEF Receive, Processes
<1>2. Message(received("KCD")) /\ \A w \in DOMAIN hold["KCD"] : Message(hold["KCD"][w])
  BY <1>1, KCDIdle DEF HoldOK
<1>3. CommandOK'
  BY DEF CommandOK
<1>4. ClockOK'
  BY DEF Typed, ClockOK
<1>. QED  BY <1>1, <1>2, <1>3, <1>4, ReceiveTyped

LEMMA KCDTyped ==
    ASSUME Typed, Accounted,
           \/ kcd_registration \/ kcd_percent \/ kcd_command
           \/ kcd_key \/ kcd_text \/ kcd_other
    PROVE  Typed' /\ Accounted'
<1> DEFINE m == received("KCD")
           mine == hold["KCD"]
<1>1. /\ has_message("KCD") /\ UNCHANGED <<free, clock>>
      /\ DecoderOK /\ MAX_COMMAND_SIZE \in Nat
  BY ConsoleAssumption DEF kcd_registration, kcd_percent, kcd_command, kcd_key, kcd_text,
     kcd_other, key_arrives, Key, Typed
<1>2. /\ Message(m) /\ \A w \in DOMAIN mine : Message(mine[w])
      /\ kcd.buffer_flag => "out" \in DOMAIN mine
  BY <1>1, KCDIdle DEF HoldOK, Processes
<1>3. CASE kcd_registration
  <2> DEFINE m2 == [m EXCEPT !.data[1] = END]
  <2>1. Receive("KCD", m2, mine, echo)
    BY <1>3 DEF kcd_registration
  <2>2. Message(m2)
    BY <1>2 DEF Message
  <2>3. DecoderOK' /\ kcd'.buffer_flag = kcd.buffer_flag
    BY <1>1, <1>3 DEF DecoderOK, kcd_registration
  <2> HIDE DEF m2, mine
  <2>. QED  BY <1>1, <1>2, <2>1, <2>2, <2>3, KCDOnTyped DEF mine
<1>4. CASE kcd_percent
  <2>1. /\ kcd' = [kcd EXCEPT !.buffer_flag = TRUE]
        /\ Receive("KCD", m, mine, request("out") \o echo)
    BY <1>4 DEF kcd_percent, Key
  <2>2. DecoderOK'
    BY <1>1, <2>1 DEF DecoderOK
  <2>3. Form("KCD", request("out") \o echo, DOMAIN mine \cup {"in"})
    BY DEF Form, KCDForm
  <2>4. "KCD" \in Processes /\ MailOK /\ HoldOK /\ TodoOK
    BY DEF Typed, Processes
  <2>5. todo'["KCD"] = request("out") \o echo
    BY <2>1 DEF Receive, Typed, TodoOK, Processes
  <2>6. CommandOK'
    BY <1>1, <2>5, KCDIdle DEF CommandOK
  <2>7. ClockOK'
    BY <1>1 DEF Typed, ClockOK
  <2>. QED  BY <1>1, <1>2, <2>1, <2>2, <2>3, <2>4, <2>6, <2>7, ReceiveTyped
<1>5. CASE kcd_command
  <2>1. PICK d : Receive("KCD", m, mine, send("out", d, << >>) \o echo)
    BY <1>5 DEF kcd_command, Key
  <2>2. kcd' = command_done /\ kcd.buffer_flag
    BY <1>5 DEF kcd_command
  <2>3. DecoderOK' /\ ~kcd'.buffer_flag
    <3> DEFINE done == [map |-> kcd.map, i |-> 0, buffer_flag |-> FALSE,
                        char_typed |-> kcd.char_typed]
    <3>1. kcd' = done
      BY <1>1, <2>2 DEF DecoderOK, command_done
    <3>2. /\ kcd'.i = 0 /\ kcd'.buffer_flag = FALSE /\ kcd'.map = kcd.map
          /\ kcd'.char_typed = kcd.char_typed
      BY <3>1
    <3>3. kcd' = [map |-> kcd'.map, i |-> kcd'.i, buffer_flag |-> kcd'.buffer_flag,
                  char_typed |-> kcd'.char_typed]
      BY <3>1, <3>2
    <3>4. ~kcd'.buffer_flag /\ kcd'.buffer_flag \in BOOLEAN
      BY <3>2
    <3>5. kcd'.i \in 0 .. MAX_COMMAND_SIZE /\ kcd'.char_typed \in 0 .. 3
      BY <1>1, <3>2 DEF DecoderOK
    <3>. QED  BY <3>3, <3>4, <3>5 DEF DecoderOK
  <2>4. Form("KCD", send("out", d, << >>) \o echo, DOMAIN mine \cup {"in"})
    BY <1>2, <2>2 DEF Form, KCDForm
  <2>. QED  BY <1>1, <2>1, <2>3, <2>4, KCDOffTyped
<1>6. CASE kcd_key
  <2>1. CASE room
    <3> DEFINE new == [mine EXCEPT !["out"].data[kcd.i] = key]
    <3>1. Receive("KCD", m, new, echo) /\ kcd' = [kcd EXCEPT !.i = @ + 1]
      BY <1>6, <2>1 DEF kcd_key, Key
    <3>2. DecoderOK' /\ kcd'.buffer_flag = kcd.buffer_flag
      BY <1>1, <2>1, <3>1 DEF DecoderOK, room
    <3>3. DOMAIN new = DOMAIN mine /\ \A w \in DOMAIN new : Message(new[w])
      BY <1>2 DEF Message
    <3> HIDE DEF new, mine
    <3>. QED  BY <1>1, <1>2, <3>1, <3>2, <3>3, KCDOnTyped DEF mine
  <2>2. CASE ~room
    <3>1. Receive("KCD", m, mine, echo) /\ kcd' = kcd
      BY <1>6, <2>2 DEF kcd_key, Key
    <3>2. DecoderOK' /\ kcd'.buffer_flag = kcd.buffer_flag
      BY <1>1, <3>1 DEF DecoderOK
    <3>. QED  BY <1>1, <1>2, <3>1, <3>2, KCDOnTyped
  <2>. QED  BY <2>1, <2>2
<1>7. CASE kcd_text
  <2> DEFINE calls == (IF key = CR /\ kcd.char_typed > 2 THEN not_ok ELSE << >>) \o echo
  <2>1. Receive("KCD", m, mine, calls) /\ ~kcd.buffer_flag
    BY <1>7 DEF kcd_text, Key
  <2>2. DecoderOK' /\ ~kcd'.buffer_flag
    BY <1>1, <1>7, <2>1 DEF DecoderOK, kcd_text
  <2>3. Form("KCD", calls, DOMAIN mine \cup {"in"})
    <3>1. calls = request("other") \o (complain \o echo) \/ calls = echo
      BY KCDCalls
    <3>. QED  BY <3>1 DEF Form, KCDForm
  <2> HIDE DEF calls
  <2>. QED  BY <1>1, <2>1, <2>2, <2>3, KCDOffTyped
<1>8. CASE kcd_other
  <2>1. Receive("KCD", m, mine, echo) /\ kcd' = kcd
    BY <1>8 DEF kcd_other
  <2>2. DecoderOK' /\ kcd'.buffer_flag = kcd.buffer_flag
    BY <1>1, <2>1 DEF DecoderOK
  <2>. QED  BY <1>1, <1>2, <2>1, <2>2, KCDOnTyped
<1>. QED  BY <1>3, <1>4, <1>5, <1>6, <1>7, <1>8

\* The wall clock or the set priority process receives a message.
LEMMA OtherTyped ==
    ASSUME Typed, Accounted, NEW p \in {"WC", "SET_PRIO"}, NEW calls,
           Receive(p, received(p), hold[p], calls), UNCHANGED <<free, kcd>>,
           Form(p, calls, DOMAIN hold[p] \cup {"in"}), ClockOK'
    PROVE  Typed' /\ Accounted'
<1>1. /\ has_message(p) /\ p \in Processes /\ free' = free /\ mailbox[p] # << >>
      /\ MailOK /\ HoldOK /\ TodoOK
  BY DEF Receive, Processes, has_message, Typed
<1>2. Message(received(p)) /\ \A w \in DOMAIN hold[p] : Message(hold[p][w])
  BY <1>1, ReceivedMessage DEF HoldOK
<1>3. todo'["KCD"] = todo["KCD"] /\ hold'["KCD"] = hold["KCD"]
  BY <1>1 DEF Receive, TodoOK, HoldOK, Processes
<1>4. CommandOK'
  BY <1>3 DEF Typed, CommandOK
<1>5. DecoderOK'
  BY DEF Typed, DecoderOK
<1>. QED  BY <1>1, <1>2, <1>4, <1>5, ReceiveTyped

LEMMA NextSecond ==
    ASSUME NEW t \in Int \X Int \X Int, accepted(t)
    PROVE  next_second(t) \in Int \X Int \X Int /\ accepted(next_second(t))
<1>1. /\ t[1] \in 0 .. 23 /\ t[2] \in 0 .. 59 /\ t[3] \in Int /\ t[3] >= 0
  BY DEF accepted
<1>2. CASE t[3] + 1 < 60
  <2>1. next_second(t) = <<t[1], t[2], t[3] + 1>>
    BY <1>2 DEF next_second
  <2>. QED  BY <1>1, <2>1 DEF accepted
<1>3. CASE ~(t[3] + 1 < 60) /\ t[2] + 1 < 60
  <2>1. next_second(t) = <<t[1], t[2] + 1, 0>>
    BY <1>3 DEF next_second
  <2>. QED  BY <1>1, <1>3, <2>1 DEF accepted
<1>4. CASE ~(t[3] + 1 < 60) /\ ~(t[2] + 1 < 60) /\ t[1] + 1 < 24
  <2>1. next_second(t) = <<t[1] + 1, 0, 0>>
    BY <1>4 DEF next_second
  <2>. QED  BY <1>1, <1>4, <2>1 DEF accepted
<1>5. CASE ~(t[3] + 1 < 60) /\ ~(t[2] + 1 < 60) /\ ~(t[1] + 1 < 24)
  <2>1. next_second(t) = <<0, 0, 0>>
    BY <1>5 DEF next_second
  <2>. QED  BY <2>1 DEF accepted
<1>. QED  BY <1>2, <1>3, <1>4, <1>5

LEMMA SecondPasses ==
    ASSUME NEW t \in Int \X Int \X Int, accepted(t)
    PROVE  seconds(next_second(t)) = (seconds(t) + 1) % 86400
<1> DEFINE h == t[1]
           m == t[2]
           s == t[3]
<1>1. /\ h \in Nat /\ h < 24 /\ m \in Nat /\ m < 60 /\ s \in Nat
      /\ seconds(t) = (h * 60 + m) * 60 + (IF s < 60 THEN s ELSE 59)
  BY DEF accepted, seconds
<1>2. /\ s + 1 < 60 => next_second(t) = <<h, m, s + 1>>
      /\ ~(s + 1 < 60) /\ m + 1 < 60 => next_second(t) = <<h, m + 1, 0>>
      /\ ~(s + 1 < 60) /\ ~(m + 1 < 60) /\ h + 1 < 24 => next_second(t) = <<h + 1, 0, 0>>
      /\ ~(s + 1 < 60) /\ ~(m + 1 < 60) /\ ~(h + 1 < 24) => next_second(t) = <<0, 0, 0>>
  BY DEF next_second
<1>3. \A n \in Nat : n < 86400 => n % 86400 = n
  OBVIOUS
<1>4. 86400 % 86400 = 0
  OBVIOUS
<1>5. \A a, b, c : seconds(<<a, b, c>>) = (a * 60 + b) * 60 + (IF c < 60 THEN c ELSE 59)
  BY DEF seconds
<1> HIDE DEF h, m, s
<1> DEFINE before == seconds(t)
           after == seconds(next_second(t))
<1>6. CASE s + 1 < 60
  <2>1. after = (h * 60 + m) * 60 + (s + 1)
    BY <1>1, <1>2, <1>5, <1>6
  <2>2. before = (h * 60 + m) * 60 + s
    BY <1>1, <1>6
  <2> HIDE DEF before, after
  <2>3. after \in Nat /\ after < 86400 /\ after = before + 1
    BY <1>1, <1>6, <2>1, <2>2
  <2>4. (before + 1) % 86400 = after
    BY <1>3, <2>3
  <2>. QED  BY <2>4 DEF before, after
<1>7. CASE ~(s + 1 < 60)
  <2>1. before = (h * 60 + m) * 60 + 59
    BY <1>1, <1>7
  <2>2. CASE m + 1 < 60
    <3>1. after = (h * 60 + (m + 1)) * 60
      BY <1>1, <1>2, <1>5, <1>7, <2>2
    <3> HIDE DEF before, after
    <3>2. after \in Nat /\ after < 86400 /\ after = before + 1
      BY <1>1, <2>1, <2>2, <3>1
    <3>3. (before + 1) % 86400 = after
      BY <1>3, <3>2
    <3>. QED  BY <3>3 DEF before, after
  <2>3. CASE ~(m + 1 < 60) /\ h + 1 < 24
    <3>1. after = (h + 1) * 60 * 60
      BY <1>1, <1>2, <1>5, <1>7, <2>3
    <3> HIDE DEF before, after
    <3>2. after \in Nat /\ after < 86400 /\ after = before + 1
      BY <1>1, <2>1, <2>3, <3>1
    <3>3. (before + 1) % 86400 = after
      BY <1>3, <3>2
    <3>. QED  BY <3>3 DEF before, after
  <2>4. CASE ~(m + 1 < 60) /\ ~(h + 1 < 24)
    <3>1. after = 0
      BY <1>2, <1>5, <1>7, <2>4
    <3> HIDE DEF before, after
    <3>2. m = 59 /\ h = 23
      BY <1>1, <2>4
    <3>3. before + 1 = 86400
      BY <2>1, <3>2
    <3>. QED  BY <1>4, <3>1, <3>3 DEF before, after
  <2>. QED  BY <2>2, <2>3, <2>4
<1>. QED  BY <1>6, <1>7

\* What the wall clock does with a message.
LEMMA WCReceives ==
    ASSUME ClockOK, wc_set \/ wc_get \/ wc_stop \/ wc_tick \/ wc_other
    PROVE  \E calls : /\ Receive("WC", received("WC"), hold["WC"], calls)
                      /\ UNCHANGED <<free, kcd, history>>
                      /\ \A W : "in" \in W => Form("WC", calls, W)
                      /\ ClockOK'
<1>1. clock = [time |-> clock.time, on |-> clock.on] /\ clock.time \in Int \X Int \X Int
  BY DEF ClockOK
<1>2. ASSUME NEW calls \in {<< >>, show, show_and_tick}, WallClock(calls), ClockOK'
      PROVE  \E c : /\ Receive("WC", received("WC"), hold["WC"], c)
                    /\ UNCHANGED <<free, kcd, history>>
                    /\ \A W : "in" \in W => Form("WC", c, W)
                    /\ ClockOK'
  <2> DEFINE c == calls \o release("in")
  <2>1. Receive("WC", received("WC"), hold["WC"], c) /\ UNCHANGED <<free, kcd, history>>
    BY <1>2 DEF WallClock
  <2>2. c \in {release("in"), request("out") \o (output_clock \o release("in")),
               request("out") \o (output_clock \o ask_tick)}
    BY WCCalls
  <2> HIDE DEF c
  <2>3. \A W : "in" \in W => Form("WC", c, W)
    BY <2>2 DEF Form, WCForm
  <2>. QED  BY <1>2, <2>1, <2>3
<1>3. CASE wc_set /\ sets_clock(received("WC").data)
  <2> DEFINE data == received("WC").data
  <2>1. WallClock(show_and_tick) /\ clock' = [time |-> Times[data[2]], on |-> TRUE]
    BY <1>3 DEF wc_set
  <2>2. data[2] \in DOMAIN Times /\ accepted(Times[data[2]])
    BY <1>3 DEF sets_clock
  <2>3. ClockOK'
    BY <2>1, <2>2, ConsoleAssumption DEF ClockOK
  <2>. QED  BY <1>2, <2>1, <2>3
<1>4. CASE wc_set /\ ~sets_clock(received("WC").data)
  <2>1. WallClock(<< >>) /\ clock' = clock
    BY <1>4 DEF wc_set
  <2>. QED  BY <1>2, <2>1 DEF ClockOK
<1>5. CASE wc_get
  <2>1. WallClock(show) /\ clock' = clock
    BY <1>5 DEF wc_get
  <2>. QED  BY <1>2, <2>1 DEF ClockOK
<1>6. CASE wc_stop
  <2>1. WallClock(<< >>) /\ clock' = [time |-> clock.time, on |-> FALSE]
    BY <1>1, <1>6 DEF wc_stop
  <2>2. ClockOK'
    BY <1>1, <2>1 DEF ClockOK
  <2>. QED  BY <1>2, <2>1, <2>2
<1>7. CASE wc_tick
  <2>1. WallClock(show_and_tick) /\ clock' = [time |-> next_second(clock.time), on |-> clock.on]
    BY <1>1, <1>7 DEF wc_tick
  <2>2. ClockOK'
    BY <1>1, <2>1, NextSecond DEF ClockOK
  <2>. QED  BY <1>2, <2>1, <2>2
<1>8. CASE wc_other
  <2>1. WallClock(<< >>) /\ clock' = clock
    BY <1>8 DEF wc_other
  <2>. QED  BY <1>2, <2>1 DEF ClockOK
<1>. QED  BY <1>3, <1>4, <1>5, <1>6, <1>7, <1>8

LEMMA WCTyped ==
    ASSUME Typed, Accounted, wc_set \/ wc_get \/ wc_stop \/ wc_tick \/ wc_other
    PROVE  Typed' /\ Accounted'
<1>1. PICK calls : /\ Receive("WC", received("WC"), hold["WC"], calls)
                   /\ UNCHANGED <<free, kcd, history>>
                   /\ \A W : "in" \in W => Form("WC", calls, W)
                   /\ ClockOK'
  BY WCReceives DEF Typed
<1>2. Form("WC", calls, DOMAIN hold["WC"] \cup {"in"})
  BY <1>1
<1>. QED  BY <1>1, <1>2, OtherTyped

LEMMA PRIOTyped ==
    ASSUME Typed, Accounted, set_prio_process
    PROVE  Typed' /\ Accounted'
<1> DEFINE m == received("SET_PRIO")
           first == IF m.sender = "KCD" /\ refused(m.data) THEN error_message ELSE << >>
           calls == first \o release("in")
<1>1. /\ Receive("SET_PRIO", m, hold["SET_PRIO"], calls)
      /\ UNCHANGED <<free, kcd, clock>>
  BY DEF set_prio_process
<1>2. calls \in {error_message \o release("in"), release("in")}
  BY WCCalls
<1> HIDE DEF calls, m
<1>3. Form("SET_PRIO", calls, DOMAIN hold["SET_PRIO"] \cup {"in"})
  BY <1>2 DEF Form, PRIOForm
<1>4. ClockOK'
  BY <1>1 DEF Typed, ClockOK
<1>. QED  BY <1>1, <1>3, <1>4, OtherTyped DEF m
-----------------------------------------------------------------------------
LEMMA CRTTyped ==
    ASSUME Typed, Accounted, crt_process
    PROVE  Typed' /\ Accounted'
<1> DEFINE n == lost_for(Head(mailbox["CRT"]))
<1>1. /\ mailbox["CRT"] # << >> /\ free > n /\ free' = free - n + 1
      /\ mailbox' = [mailbox EXCEPT !["CRT"] = Tail(@)]
      /\ UNCHANGED <<delayed, hold, todo, kcd, clock, typing>>
  BY DEF crt_process, bounds
<1>2. /\ MailOK /\ HoldOK /\ TodoOK /\ free \in Nat /\ delayed \in Nat
      /\ NUM_MEM_BLOCKS \in Nat /\ MAX_COMMAND_SIZE \in Nat
  BY ConsoleAssumption DEF Typed
<1>3. n \in Nat
  <2>1. \A data : returns(data) \subseteq 0 .. MAX_COMMAND_SIZE
    BY DEF returns, Cells
  <2>2. IsFiniteSet(0 .. MAX_COMMAND_SIZE)
    BY <1>2, FS_Interval
  <2>3. \A data : Cardinality(returns(data)) \in Nat
    BY <2>1, <2>2, FS_Subset, FS_CardinalityType
  <2>. QED  BY <2>3 DEF lost_for
<1> HIDE DEF n
<1>4. "CRT" \in Pids
  BY DEF Pids
<1>5. MailOK' /\ MailSum \in Nat /\ MailSum' \in Nat /\ MailSum' = MailSum - 1
  BY <1>1, <1>2, <1>4, Fetched
<1>6. HoldSum' = HoldSum /\ HoldSum \in Nat
  <2>1. \A W : Behind(W) \in Nat
    BY DEF Behind, one_if
  <2>. QED  BY <1>1, <2>1 DEF HoldSum
<1>7. /\ free' \in Nat /\ delayed' \in Nat /\ free' + delayed' <= free + delayed + (0 - (-1))
      /\ -1 \in -1 .. 1 /\ 0 \in -1 .. 1
  BY <1>1, <1>2, <1>3
<1>8. MailSum' <= MailSum + (-1) /\ HoldSum' <= HoldSum - 0 /\ HoldSum' \in Nat
  BY <1>5, <1>6
<1>9. Accounted'
  BY <1>2, <1>5, <1>6, <1>7, <1>8, Balance DEF Accounted
<1>. QED  BY <1>1, <1>5, <1>7, <1>9
          DEF Typed, HoldOK, TodoOK, DecoderOK, CommandOK, ClockOK

\* The UART and the timer put a message into a mailbox.
LEMMA PostTyped ==
    ASSUME Typed, Accounted, NEW d \in Pids, NEW m, Message(m),
           mailbox' = [mailbox EXCEPT ![d] = Append(@, m)],
           free' \in Nat, delayed' \in Nat, free' + delayed' <= free + delayed + (-1),
           UNCHANGED <<hold, todo, kcd, clock>>, typing' \in Seq(Keys)
    PROVE  Typed' /\ Accounted'
<1>1. /\ MailOK /\ HoldOK /\ TodoOK /\ free \in Nat /\ delayed \in Nat
      /\ NUM_MEM_BLOCKS \in Nat
  BY ConsoleAssumption DEF Typed
<1>2. MailOK' /\ MailSum \in Nat /\ MailSum' \in Nat /\ MailSum' = MailSum + 1
  BY <1>1, Posted
<1>3. HoldSum' = HoldSum /\ HoldSum \in Nat
  <2>1. \A W : Behind(W) \in Nat
    BY DEF Behind, one_if
  <2>. QED  BY <2>1 DEF HoldSum
<1>4. free' + delayed' <= free + delayed + (0 - 1) /\ 1 \in -1 .. 1 /\ 0 \in -1 .. 1
  <2>1. -1 = 0 - 1 /\ 1 \in -1 .. 1 /\ 0 \in -1 .. 1
    OBVIOUS
  <2>. QED  BY <2>1
<1>5. MailSum' <= MailSum + 1 /\ HoldSum' <= HoldSum - 0 /\ HoldSum' \in Nat
  BY <1>2, <1>3
<1>6. Accounted'
  BY <1>1, <1>2, <1>3, <1>4, <1>5, Balance DEF Accounted
<1>. QED  BY <1>2, <1>6
          DEF Typed, HoldOK, TodoOK, DecoderOK, CommandOK, ClockOK

\* What concerns neither messages nor processes.
LEMMA TypingTyped ==
    ASSUME Typed, Accounted, typing' \in Seq(Keys),
           UNCHANGED <<free, mailbox, delayed, hold, todo, kcd, clock>>
    PROVE  Typed' /\ Accounted'
<1>1. Typed'
  BY DEF Typed, MailOK, HoldOK, TodoOK, DecoderOK, CommandOK, ClockOK
<1>2. Accounted'
  BY DEF Accounted, MailSum, HoldSum
<1>. QED  BY <1>1, <1>2

LEMMA UsersTyped ==
    ASSUME Typed, Accounted, type_line \/ uart_key \/ timer_expire
    PROVE  Typed' /\ Accounted'
<1>1. CASE type_line
  <2>1. typing' \in Seq(Keys)
    BY <1>1, ConsoleAssumption DEF type_line
  <2>. QED  BY <1>1, <2>1, TypingTyped DEF type_line
<1>2. CASE uart_key
  <2>1. typing \in Seq(Keys) /\ typing # << >> /\ typing' = Tail(typing) /\ free \in Nat
        /\ delayed \in Nat
    BY <1>2 DEF uart_key, Typed
  <2>2. typing' \in Seq(Keys)
    BY <2>1
  <2>3. CASE free = 0
    BY <1>2, <2>2, <2>3, TypingTyped DEF uart_key
  <2>4. CASE free # 0
    <3> DEFINE m == [type |-> "KEYBOARD_INPUT", sender |-> "UART",
                     data |-> text(<<Head(typing)>>)]
    <3>1. /\ mailbox' = [mailbox EXCEPT !["KCD"] = Append(@, m)]
          /\ free' = free - 1 /\ UNCHANGED <<delayed, hold, todo, kcd, clock>>
      BY <1>2, <2>4 DEF uart_key
    <3>2. Message(m) /\ "KCD" \in Pids
      BY DEF Message, text, Pids, Processes
    <3>3. free' \in Nat /\ delayed' \in Nat /\ free' + delayed' <= free + delayed + (-1)
      BY <2>1, <2>4, <3>1
    <3> HIDE DEF m
    <3>. QED  BY <2>2, <3>1, <3>2, <3>3, PostTyped
  <2>. QED  BY <2>3, <2>4
<1>3. CASE timer_expire
  <2> DEFINE m == [Blank EXCEPT !.sender = "TIMER"]
  <2>1. /\ mailbox' = [mailbox EXCEPT !["WC"] = Append(@, m)] /\ typing' = typing
        /\ delayed > 0 /\ delayed' = delayed - 1
        /\ UNCHANGED <<free, hold, todo, kcd, clock>>
    BY <1>3 DEF timer_expire
  <2>2. Message(m) /\ "WC" \in Pids
    BY DEF Message, Blank, text, Pids, Processes
  <2>3. free' \in Nat /\ delayed' \in Nat /\ free' + delayed' <= free + delayed + (-1)
    BY <2>1 DEF Typed
  <2>4. typing' \in Seq(Keys)
    BY <2>1 DEF Typed
  <2> HIDE DEF m
  <2>. QED  BY <2>1, <2>2, <2>3, <2>4, PostTyped
<1>. QED  BY <1>1, <1>2, <1>3

LEMMA InitTyped == Init => Typed /\ Accounted
<1> SUFFICES ASSUME Init PROVE Typed /\ Accounted
  OBVIOUS
<1>1. MailOK
  BY EmptyIsSeq DEF Init, MailOK
<1>2. HoldOK
  BY DEF Init, HoldOK
<1>3. /\ todo["KCD"] = << >> /\ DOMAIN todo = Processes
      /\ todo["WC"] = register_command("W") \o request("out")
      /\ todo["SET_PRIO"] = register_command("C") \o request("out")
  BY DEF Init, Processes
<1>4. TodoOK
  <2>1. Form("KCD", todo["KCD"], DOMAIN hold["KCD"])
    BY <1>3 DEF Form, KCDForm
  <2>2. Form("WC", todo["WC"], DOMAIN hold["WC"])
    BY <1>3, SetupCalls DEF Form, WCForm, SetupForm
  <2>3. Form("SET_PRIO", todo["SET_PRIO"], DOMAIN hold["SET_PRIO"])
    BY <1>3, SetupCalls DEF Form, PRIOForm, SetupForm
  <2>. QED  BY <1>3, <2>1, <2>2, <2>3 DEF TodoOK, Processes
<1>5. DecoderOK
  BY ConsoleAssumption DEF Init, DecoderOK
<1>6. CommandOK
  <2>1. \A d : << >> # send("out", d, << >>) \o echo
    BY KCDCalls DEF SendIs, First
  <2>. QED  BY <1>3, <2>1 DEF Init, CommandOK
<1>7. ClockOK
  BY DEF Init, ClockOK, accepted
<1>8. free \in Nat /\ delayed \in Nat /\ typing \in Seq(Keys)
  BY ConsoleAssumption DEF Init
<1>9. Accounted
  <2>1. MailSum = 0
    <3> DEFINE n == [p \in Pids |-> Len(mailbox[p])]
    <3>1. \A p \in Pids : n[p] = 0
      BY DEF Init
    <3> HIDE DEF n
    <3>2. SumOf(n) = 0
      BY <3>1 DEF SumOf, Pids, Processes
    <3>. QED  BY <3>2 DEF MailSum, n
  <2>2. HoldSum = 0
    <3>1. \A p \in Processes : DOMAIN hold[p] = {}
      BY DEF Init
    <3>2. Behind({}) = 0
      BY DEF Behind, one_if
    <3>. QED  BY <3>1, <3>2 DEF HoldSum, Processes
  <2>. QED  BY <2>1, <2>2, ConsoleAssumption DEF Init, Accounted
<1>. QED  BY <1>1, <1>2, <1>4, <1>5, <1>6, <1>7, <1>8, <1>9 DEF Typed

LEMMA NextTyped == Typed /\ Accounted /\ [Next]_vars => Typed' /\ Accounted'
<1> SUFFICES ASSUME Typed, Accounted, [Next]_vars PROVE Typed' /\ Accounted'
  OBVIOUS
<1>1. CASE \E p \in Processes : Request(p) \/ Send(p) \/ DelayedSend(p) \/ Release(p)
  BY <1>1, CallTyped
<1>2. CASE \/ kcd_registration \/ kcd_percent \/ kcd_command
           \/ kcd_key \/ kcd_text \/ kcd_other
  BY <1>2, KCDTyped
<1>3. CASE crt_process
  BY <1>3, CRTTyped
<1>4. CASE wc_set \/ wc_get \/ wc_stop \/ wc_tick \/ wc_other
  BY <1>4, WCTyped
<1>5. CASE set_prio_process
  BY <1>5, PRIOTyped
<1>6. CASE type_line \/ uart_key \/ timer_expire
  BY <1>6, UsersTyped
<1>7. CASE UNCHANGED vars
  BY <1>7, TypingTyped DEF vars, bounds, Typed
<1>. QED  BY <1>1, <1>2, <1>3, <1>4, <1>5, <1>6, <1>7 DEF Next

\* Every message has a type and data, no process has a block behind a pointer that
\* is not one of its own, the decoder never writes behind the end of a command,
\* the time is one that is displayed, and no more blocks wait or are free than
\* there are.
THEOREM ConsoleTyped == Spec => []TypeOK
<1>1. Typed /\ Accounted => TypeOK
  <2> SUFFICES ASSUME Typed, Accounted PROVE TypeOK
    OBVIOUS
  <2>1. free \in 0 .. NUM_MEM_BLOCKS /\ delayed \in 0 .. NUM_MEM_BLOCKS
    <3>1. free \in Nat /\ delayed \in Nat /\ MailSum \in Nat /\ NUM_MEM_BLOCKS \in Nat
      BY MailSumIsNat, ConsoleAssumption DEF Typed
    <3>2. HoldSum \in Nat
      <4>1. \A W : Behind(W) \in Nat
        BY DEF Behind, one_if
      <4>. QED  BY <4>1 DEF HoldSum
    <3>. QED  BY <3>1, <3>2 DEF Accounted
  <2>2. \A p \in Pids : \A i \in DOMAIN mailbox[p] : DOMAIN mailbox[p][i].data = Cells
    BY DEF Typed, MailOK, Message
  <2>3. \A p \in Processes : DOMAIN hold[p] \subseteq {"in", "out", "other"}
    BY DEF Typed, HoldOK, Pointers
  <2>. QED  BY <2>1, <2>2, <2>3 DEF TypeOK, Typed, DecoderOK, ClockOK
<1>. QED  BY <1>1, InitTyped, NextTyped, PTL DEF Spec

\* A tick moves the clock on by exactly one second, past midnight too, and the
\* time changes in no other way but by a %WS command with a time that is accepted.
THEOREM TicksAreSeconds == Spec => TickIsOneSecond
<1> DEFINE Second ==
             clock.on /\ clock'.on /\ clock'.time # clock.time =>
               \/ seconds(clock'.time) = (seconds(clock.time) + 1) % 86400
               \/ clock'.time \in {Times[k] : k \in DOMAIN Times}
<1>1. Typed /\ [Next]_vars => [Second]_vars
  <2> SUFFICES ASSUME Typed, [Next]_vars, clock'.on, clock'.time # clock.time
               PROVE  \/ seconds(clock'.time) = (seconds(clock.time) + 1) % 86400
                      \/ clock'.time \in {Times[k] : k \in DOMAIN Times}
    OBVIOUS
  <2>1. /\ clock = [time |-> clock.time, on |-> clock.on]
        /\ clock.time \in Int \X Int \X Int /\ accepted(clock.time)
    BY DEF Typed, ClockOK
  <2>2. wc_set \/ wc_stop \/ wc_tick
    BY DEF Next, vars, Request, Send, DelayedSend, Release, kcd_registration, kcd_percent,
           kcd_command, kcd_key, kcd_text, kcd_other, Key, crt_process, wc_get, wc_other,
           set_prio_process, type_line, uart_key, timer_expire
  <2>3. CASE wc_set
    <3>1. /\ received("WC").data[2] \in DOMAIN Times
          /\ clock' = [time |-> Times[received("WC").data[2]], on |-> TRUE]
      BY <2>3 DEF wc_set, sets_clock
    <3>. QED  BY <3>1
  <2>4. CASE wc_stop
    <3>1. clock' = [time |-> clock.time, on |-> FALSE]
      BY <2>1, <2>4 DEF wc_stop
    <3>. QED  BY <3>1
  <2>5. CASE wc_tick
    <3>1. clock' = [time |-> next_second(clock.time), on |-> clock.on]
      BY <2>1, <2>5 DEF wc_tick
    <3>. QED  BY <2>1, <3>1, SecondPasses
  <2>. QED  BY <2>2, <2>3, <2>4, <2>5
<1>2. TickIsOneSecond <=> [][Second]_vars
  BY DEF TickIsOneSecond
<1>. QED  BY <1>1, <1>2, InitTyped, NextTyped, PTL DEF Spec
-----------------------------------------------------------------------------
(* What the commands ask for: a tick of the wall clock (p = "WC") or an error  *)
(* message (p = "SET_PRIO").                                                   *)

Asks(p, data) == IF p = "WC" THEN sets_clock(data) ELSE refused(data)

\* The messages that ask process p, the ticks among messages s, the calls of t
\* for a tick, and the commands that asked p.
Asking(p, s) == {i \in DOMAIN s : s[i].sender = "KCD" /\ Asks(p, s[i].data)}
Timed(s) == {i \in DOMAIN s : s[i].sender = "TIMER"}
Delaying(t) == {i \in DOMAIN t : t[i].op = "delayed_send"}
Wanted(p, c) == {n \in DOMAIN c : c[n].to = p /\ Asks(p, c[n].data)}

LEMMA IndexAppend ==
    ASSUME NEW s, IsSeq(s), NEW m, NEW I \in SUBSET (DOMAIN s),
           NEW K \in SUBSET (DOMAIN Append(s, m)),
           \A i \in DOMAIN s : i \in K <=> i \in I
    PROVE  /\ Cardinality(I) \in Nat /\ Cardinality(K) \in Nat
           /\ Cardinality(K) = Cardinality(I) + one_if(Len(s) + 1 \in K)
<1>1. /\ Len(s) \in Nat /\ DOMAIN s = 1 .. Len(s)
      /\ DOMAIN Append(s, m) = 1 .. Len(s) + 1
  BY SeqFacts, AppendIs
<1>. QED  BY <1>1, CountAppend DEF one_if

LEMMA IndexTail ==
    ASSUME NEW s, IsSeq(s), s # << >>, NEW I \in SUBSET (DOMAIN s),
           NEW K \in SUBSET (DOMAIN Tail(s)),
           \A i \in DOMAIN Tail(s) : i \in K <=> i + 1 \in I
    PROVE  /\ Cardinality(I) \in Nat /\ Cardinality(K) \in Nat
           /\ Cardinality(I) = Cardinality(K) + one_if(1 \in I)
<1>1. /\ Len(s) \in Nat /\ DOMAIN s = 1 .. Len(s) /\ Len(s) > 0
      /\ DOMAIN Tail(s) = 1 .. Len(s) - 1
  BY SeqFacts, TailIs
<1>2. /\ Cardinality(I) \in Nat /\ Cardinality(K) \in Nat
      /\ Cardinality(K) = IF 1 \in I THEN Cardinality(I) - 1 ELSE Cardinality(I)
  <2> DEFINE n == Len(s)
  <2>1. /\ n \in Nat /\ n > 0 /\ I \in SUBSET (1 .. n) /\ K \in SUBSET (1 .. n - 1)
        /\ \A i \in 1 .. n - 1 : i \in K <=> i + 1 \in I
    BY <1>1
  <2> HIDE DEF n
  <2>. QED  BY ONLY <2>1, CountTail
<1>. QED  BY <1>2 DEF one_if

LEMMA AskingAppend ==
    ASSUME NEW p, NEW s, IsSeq(s), NEW m
    PROVE  /\ Cardinality(Asking(p, s)) \in Nat /\ Cardinality(Asking(p, Append(s, m))) \in Nat
           /\ Cardinality(Asking(p, Append(s, m)))
                = Cardinality(Asking(p, s)) + one_if(m.sender = "KCD" /\ Asks(p, m.data))
           /\ Cardinality(Timed(s)) \in Nat /\ Cardinality(Timed(Append(s, m))) \in Nat
           /\ Cardinality(Timed(Append(s, m)))
                = Cardinality(Timed(s)) + one_if(m.sender = "TIMER")
<1> DEFINE r == Append(s, m)
           l == Len(s) + 1
<1>1. /\ DOMAIN s = 1 .. Len(s) /\ DOMAIN r = 1 .. l /\ Len(s) \in Nat
      /\ \A i \in DOMAIN s : r[i] = s[i] /\ i \in DOMAIN r
      /\ r[l] = m /\ l \in DOMAIN r
  BY SeqFacts, AppendIs
<1>2. /\ Asking(p, s) \in SUBSET (DOMAIN s) /\ Asking(p, r) \in SUBSET (DOMAIN r)
      /\ \A i \in DOMAIN s : i \in Asking(p, r) <=> i \in Asking(p, s)
      /\ l \in Asking(p, r) <=> m.sender = "KCD" /\ Asks(p, m.data)
  <2> HIDE DEF r, l
  <2>. QED  BY <1>1 DEF Asking
<1>3. /\ Timed(s) \in SUBSET (DOMAIN s) /\ Timed(r) \in SUBSET (DOMAIN r)
      /\ \A i \in DOMAIN s : i \in Timed(r) <=> i \in Timed(s)
      /\ l \in Timed(r) <=> m.sender = "TIMER"
  <2> HIDE DEF r, l
  <2>. QED  BY <1>1 DEF Timed
<1>4. /\ Cardinality(Asking(p, s)) \in Nat /\ Cardinality(Asking(p, r)) \in Nat
      /\ Cardinality(Asking(p, r)) = Cardinality(Asking(p, s)) + one_if(l \in Asking(p, r))
  BY <1>2, IndexAppend
<1>5. /\ Cardinality(Timed(s)) \in Nat /\ Cardinality(Timed(r)) \in Nat
      /\ Cardinality(Timed(r)) = Cardinality(Timed(s)) + one_if(l \in Timed(r))
  BY <1>3, IndexAppend
<1>6. /\ one_if(l \in Asking(p, r)) = one_if(m.sender = "KCD" /\ Asks(p, m.data))
      /\ one_if(l \in Timed(r)) = one_if(m.sender = "TIMER")
  <2> HIDE DEF r, l
  <2>. QED  BY <1>2, <1>3 DEF one_if
<1>. QED  BY <1>4, <1>5, <1>6

LEMMA AskingTail ==
    ASSUME NEW p, NEW s, IsSeq(s), s # << >>
    PROVE  /\ Cardinality(Asking(p, s)) \in Nat /\ Cardinality(Asking(p, Tail(s))) \in Nat
           /\ Cardinality(Asking(p, s))
                = Cardinality(Asking(p, Tail(s)))
                    + one_if(Head(s).sender = "KCD" /\ Asks(p, Head(s).data))
           /\ Cardinality(Timed(s)) \in Nat /\ Cardinality(Timed(Tail(s))) \in Nat
           /\ Cardinality(Timed(s))
                = Cardinality(Timed(Tail(s))) + one_if(Head(s).sender = "TIMER")
<1> DEFINE r == Tail(s)
           m == Head(s)
<1>1. /\ DOMAIN s = 1 .. Len(s) /\ DOMAIN r = 1 .. Len(s) - 1 /\ Len(s) \in Nat /\ Len(s) > 0
      /\ \A i \in DOMAIN r : r[i] = s[i + 1] /\ i + 1 \in DOMAIN s
      /\ s[1] = m /\ 1 \in DOMAIN s
  BY SeqFacts, TailIs
<1>2. /\ Asking(p, s) \in SUBSET (DOMAIN s) /\ Asking(p, r) \in SUBSET (DOMAIN r)
      /\ \A i \in DOMAIN r : i \in Asking(p, r) <=> i + 1 \in Asking(p, s)
      /\ 1 \in Asking(p, s) <=> m.sender = "KCD" /\ Asks(p, m.data)
  <2> HIDE DEF r, m
  <2>. QED  BY <1>1 DEF Asking
<1>3. /\ Timed(s) \in SUBSET (DOMAIN s) /\ Timed(r) \in SUBSET (DOMAIN r)
      /\ \A i \in DOMAIN r : i \in Timed(r) <=> i + 1 \in Timed(s)
      /\ 1 \in Timed(s) <=> m.sender = "TIMER"
  <2> HIDE DEF r, m
  <2>. QED  BY <1>1 DEF Timed
<1>4. /\ Cardinality(Asking(p, s)) \in Nat /\ Cardinality(Asking(p, r)) \in Nat
      /\ Cardinality(Asking(p, s)) = Cardinality(Asking(p, r)) + one_if(1 \in Asking(p, s))
  BY <1>2, IndexTail
<1>5. /\ Cardinality(Timed(s)) \in Nat /\ Cardinality(Timed(r)) \in Nat
      /\ Cardinality(Timed(s)) = Cardinality(Timed(r)) + one_if(1 \in Timed(s))
  BY <1>3, IndexTail
<1>6. /\ one_if(1 \in Asking(p, s)) = one_if(m.sender = "KCD" /\ Asks(p, m.data))
      /\ one_if(1 \in Timed(s)) = one_if(m.sender = "TIMER")
  <2> HIDE DEF r, m
  <2>. QED  BY <1>2, <1>3 DEF one_if
<1>. QED  BY <1>4, <1>5, <1>6

LEMMA DelayingTail ==
    ASSUME NEW t, IsSeq(t), t # << >>
    PROVE  /\ Cardinality(Delaying(t)) \in Nat /\ Cardinality(Delaying(Tail(t))) \in Nat
           /\ Cardinality(Delaying(t))
                = Cardinality(Delaying(Tail(t))) + one_if(Head(t).op = "delayed_send")
<1> DEFINE r == Tail(t)
           m == Head(t)
<1>1. /\ DOMAIN t = 1 .. Len(t) /\ DOMAIN r = 1 .. Len(t) - 1 /\ Len(t) \in Nat /\ Len(t) > 0
      /\ \A i \in DOMAIN r : r[i] = t[i + 1] /\ i + 1 \in DOMAIN t
      /\ t[1] = m /\ 1 \in DOMAIN t
  BY SeqFacts, TailIs
<1>2. /\ Delaying(t) \in SUBSET (DOMAIN t) /\ Delaying(r) \in SUBSET (DOMAIN r)
      /\ \A i \in DOMAIN r : i \in Delaying(r) <=> i + 1 \in Delaying(t)
      /\ 1 \in Delaying(t) <=> m.op = "delayed_send"
  <2> HIDE DEF r, m
  <2>. QED  BY <1>1 DEF Delaying
<1>3. /\ Cardinality(Delaying(t)) \in Nat /\ Cardinality(Delaying(r)) \in Nat
      /\ Cardinality(Delaying(t)) = Cardinality(Delaying(r)) + one_if(1 \in Delaying(t))
  BY <1>2, IndexTail
<1>4. one_if(1 \in Delaying(t)) = one_if(m.op = "delayed_send")
  <2> HIDE DEF r, m
  <2>. QED  BY <1>2 DEF one_if
<1>. QED  BY <1>3, <1>4

LEMMA WantedAppend ==
    ASSUME NEW p, NEW s, IsSeq(s), NEW m
    PROVE  /\ Cardinality(Wanted(p, s)) \in Nat /\ Cardinality(Wanted(p, Append(s, m))) \in Nat
           /\ Cardinality(Wanted(p, Append(s, m)))
                = Cardinality(Wanted(p, s)) + one_if(m.to = p /\ Asks(p, m.data))
<1> DEFINE r == Append(s, m)
           l == Len(s) + 1
<1>1. /\ DOMAIN s = 1 .. Len(s) /\ DOMAIN r = 1 .. l /\ Len(s) \in Nat
      /\ \A i \in DOMAIN s : r[i] = s[i] /\ i \in DOMAIN r
      /\ r[l] = m /\ l \in DOMAIN r
  BY SeqFacts, AppendIs
<1>2. /\ Wanted(p, s) \in SUBSET (DOMAIN s) /\ Wanted(p, r) \in SUBSET (DOMAIN r)
      /\ \A i \in DOMAIN s : i \in Wanted(p, r) <=> i \in Wanted(p, s)
      /\ l \in Wanted(p, r) <=> m.to = p /\ Asks(p, m.data)
  <2> HIDE DEF r, l
  <2>. QED  BY <1>1 DEF Wanted
<1>3. /\ Cardinality(Wanted(p, s)) \in Nat /\ Cardinality(Wanted(p, r)) \in Nat
      /\ Cardinality(Wanted(p, r)) = Cardinality(Wanted(p, s)) + one_if(l \in Wanted(p, r))
  BY <1>2, IndexAppend
<1>4. one_if(l \in Wanted(p, r)) = one_if(m.to = p /\ Asks(p, m.data))
  <2> HIDE DEF r, l
  <2>. QED  BY <1>2 DEF one_if
<1>. QED  BY <1>3, <1>4

\* What process p does about what it was asked, with d messages delayed, messages
\* s in its mailbox, calls t to make and blocks behind the pointers W: a tick is
\* on its way, or an error message will be sent or was sent already.
Starting(t) ==
    t \in {request("other") \o (registration("C") \o request("out")),
           registration("C") \o request("out"), request("out")}
Handled(p, d, s, t, W) ==
    IF p = "WC" THEN d + Cardinality(Timed(s)) + Cardinality(Delaying(t))
    ELSE one_if(t = error_message \o release("in")) + one_if("out" \notin W /\ ~Starting(t))

\* The decoder, with calls t and messages h, is about to ask p.
Handing(p, t, h) ==
    one_if(t = send("out", p, << >>) \o echo /\ Asks(p, h["out"].data))

HandledNow(p) == Handled(p, delayed, mailbox[p], todo[p], DOMAIN hold[p])
AskingNow(p) == Cardinality(Asking(p, mailbox[p]))
HandingNow(p) == Handing(p, todo["KCD"], hold["KCD"])
WantedNow(p) == Cardinality(Wanted(p, commands))
Asked == {"WC", "SET_PRIO"}

\* No more is asked, or done about it, than the commands wanted.
Served(p) == HandledNow(p) + AskingNow(p) + HandingNow(p) <= WantedNow(p)

LEMMA OneIfIsNat == \A x : one_if(x) \in Nat
  BY DEF one_if

LEMMA HandledIsNat ==
    ASSUME NEW p, NEW d \in Nat, NEW s, NEW t, NEW W,
           Cardinality(Timed(s)) \in Nat, Cardinality(Delaying(t)) \in Nat
    PROVE  Handled(p, d, s, t, W) \in Nat
  BY DEF Handled, one_if

LEMMA CountsAreNat ==
    ASSUME NEW p, NEW s, IsSeq(s)
    PROVE  /\ Cardinality(Asking(p, s)) \in Nat /\ Cardinality(Timed(s)) \in Nat
           /\ Cardinality(Delaying(s)) \in Nat /\ Cardinality(Wanted(p, s)) \in Nat
<1>1. Len(s) \in Nat /\ DOMAIN s = 1 .. Len(s)
  BY SeqFacts
<1>2. \A I \in SUBSET (DOMAIN s) : Cardinality(I) \in Nat
  BY <1>1, CountIsNat
<1>3. /\ Asking(p, s) \in SUBSET (DOMAIN s) /\ Timed(s) \in SUBSET (DOMAIN s)
      /\ Delaying(s) \in SUBSET (DOMAIN s) /\ Wanted(p, s) \in SUBSET (DOMAIN s)
  BY DEF Asking, Timed, Delaying, Wanted
<1>. QED  BY <1>2, <1>3

LEMMA TodoIsSeq ==
    ASSUME TodoOK, NEW p \in Processes
    PROVE  IsSeq(todo[p])
<1>1. Form(p, todo[p], DOMAIN hold[p])
  BY DEF TodoOK
<1>2. CASE todo[p] = << >>
  BY <1>2, EmptyIsSeq
<1>3. CASE todo[p] # << >>
  BY <1>1, <1>3, FormNext DEF NextCall
<1>. QED  BY <1>2, <1>3

LEMMA ServedCounts ==
    ASSUME Typed, IsSeq(commands), NEW p \in Asked
    PROVE  /\ HandledNow(p) \in Nat /\ AskingNow(p) \in Nat
           /\ HandingNow(p) \in Nat /\ WantedNow(p) \in Nat
<1>1. IsSeq(mailbox[p]) /\ IsSeq(todo[p]) /\ delayed \in Nat
  BY TodoIsSeq DEF Typed, MailOK, Asked, Pids, Processes
<1>2. HandledNow(p) \in Nat
  <2>1. Cardinality(Timed(mailbox[p])) \in Nat /\ Cardinality(Delaying(todo[p])) \in Nat
    BY <1>1, CountsAreNat
  <2>. QED  BY <1>1, <2>1, HandledIsNat DEF HandledNow
<1>3. AskingNow(p) \in Nat /\ WantedNow(p) \in Nat
  BY <1>1, CountsAreNat DEF AskingNow, WantedNow
<1>4. HandingNow(p) \in Nat
  BY OneIfIsNat DEF HandingNow, Handing
<1>. QED  BY <1>2, <1>3, <1>4

\* Counts of this step and of the next.
LEMMA Ledger ==
    ASSUME NEW h \in Nat, NEW a \in Nat, NEW u \in Nat, NEW w \in Nat,
           NEW h2 \in Nat, NEW a2 \in Nat, NEW u2 \in Nat, NEW w2 \in Nat, NEW k \in Nat,
           h + a + u <= w,
           \/ h2 <= h /\ a2 <= a /\ u2 <= u /\ w2 = w
           \/ h2 <= h /\ a2 = a + k /\ u2 + k <= u /\ w2 = w
           \/ h2 <= h + k /\ a = a2 + k /\ u2 <= u /\ w2 = w
           \/ h2 <= h /\ a2 <= a /\ u2 <= k /\ w + k <= w2
    PROVE  h2 + a2 + u2 <= w2
  OBVIOUS

\* Typed holds after the step.
LEMMA ServedStep ==
    ASSUME Typed, IsSeq(commands), Typed', IsSeq(commands)', NEW p \in Asked, Served(p),
           NEW k \in Nat,
           \/ /\ HandledNow(p)' <= HandledNow(p) /\ AskingNow(p)' <= AskingNow(p)
              /\ HandingNow(p)' <= HandingNow(p) /\ WantedNow(p)' = WantedNow(p)
           \/ /\ HandledNow(p)' <= HandledNow(p) /\ AskingNow(p)' = AskingNow(p) + k
              /\ HandingNow(p)' + k <= HandingNow(p) /\ WantedNow(p)' = WantedNow(p)
           \/ /\ HandledNow(p)' <= HandledNow(p) + k /\ AskingNow(p) = AskingNow(p)' + k
              /\ HandingNow(p)' <= HandingNow(p) /\ WantedNow(p)' = WantedNow(p)
           \/ /\ HandledNow(p)' <= HandledNow(p) /\ AskingNow(p)' <= AskingNow(p)
              /\ HandingNow(p)' <= k /\ WantedNow(p) + k <= WantedNow(p)'
    PROVE  Served(p)'
<1>1. /\ HandledNow(p) \in Nat /\ AskingNow(p) \in Nat
      /\ HandingNow(p) \in Nat /\ WantedNow(p) \in Nat
  BY ServedCounts
<1>2. /\ HandledNow(p)' \in Nat /\ AskingNow(p)' \in Nat
      /\ HandingNow(p)' \in Nat /\ WantedNow(p)' \in Nat
  <2>1. IsSeq(mailbox'[p]) /\ IsSeq(todo'[p]) /\ delayed' \in Nat
    <3>1. IsSeq(mailbox'[p]) /\ delayed' \in Nat
      BY DEF Typed, MailOK, Asked, Pids, Processes
    <3>2. Form(p, todo'[p], DOMAIN hold'[p]) /\ p \in Processes
      BY DEF Typed, TodoOK, Asked, Processes
    <3>3. IsSeq(todo'[p])
      BY <3>2, FormNext, EmptyIsSeq DEF NextCall
    <3>. QED  BY <3>1, <3>3
  <2>2. HandledNow(p)' \in Nat
    <3>1. Cardinality(Timed(mailbox'[p])) \in Nat /\ Cardinality(Delaying(todo'[p])) \in Nat
      BY <2>1, CountsAreNat
    <3>. QED  BY <2>1, <3>1, HandledIsNat DEF HandledNow
  <2>3. AskingNow(p)' \in Nat
    BY <2>1, CountsAreNat DEF AskingNow
  <2>4. WantedNow(p)' \in Nat
    BY CountsAreNat DEF WantedNow
  <2>5. HandingNow(p)' \in Nat
    BY OneIfIsNat DEF HandingNow, Handing
  <2>. QED  BY <2>2, <2>3, <2>4, <2>5
<1>. QED  BY <1>1, <1>2, Ledger DEF Served

\* How often calls ask for a tick.
LEMMA DelayingFirst ==
    ASSUME NEW t, NEW o, NEW w, NEW rest, First(t, o, w, rest)
    PROVE  /\ Cardinality(Delaying(t)) \in Nat /\ Cardinality(Delaying(rest)) \in Nat
           /\ o = "delayed_send" => Cardinality(Delaying(t)) = Cardinality(Delaying(rest)) + 1
           /\ o # "delayed_send" => Cardinality(Delaying(t)) = Cardinality(Delaying(rest))
<1>1. IsSeq(t) /\ t # << >> /\ Tail(t) = rest /\ Head(t).op = o
  BY DEF First
<1>2. /\ Cardinality(Delaying(t)) \in Nat /\ Cardinality(Delaying(rest)) \in Nat
      /\ Cardinality(Delaying(t)) = Cardinality(Delaying(rest)) + one_if(o = "delayed_send")
  BY <1>1, DelayingTail
<1>3. CASE o = "delayed_send"
  <2>1. one_if(o = "delayed_send") = 1
    BY <1>3 DEF one_if
  <2>. QED  BY <1>2, <1>3, <2>1
<1>4. CASE o # "delayed_send"
  <2>1. one_if(o = "delayed_send") = 0
    BY <1>4 DEF one_if
  <2>2. \A n \in Nat : n + 0 = n
    OBVIOUS
  <2>. QED  BY <1>2, <1>4, <2>1, <2>2
<1>. QED  BY <1>3, <1>4

LEMMA TicksAsked ==
    /\ Cardinality(Delaying(<< >>)) = 0
    /\ Cardinality(Delaying(release("in"))) = 0
    /\ Cardinality(Delaying(show \o release("in"))) = 0
    /\ Cardinality(Delaying(show_and_tick \o release("in"))) = 1
<1>1. Cardinality(Delaying(<< >>)) = 0
  <2>1. Delaying(<< >>) = {}
    BY DEF Delaying
  <2>. QED  BY <2>1, FS_EmptySet
<1>2. Cardinality(Delaying(release("in"))) = 0
  BY <1>1, WCCalls, DelayingFirst
<1>3. Cardinality(Delaying(output_clock \o release("in"))) = 0
  BY <1>2, WCCalls, DelayingFirst DEF SendIs
<1>4. Cardinality(Delaying(show \o release("in"))) = 0
  <2>1. First(show \o release("in"), "request", "out", output_clock \o release("in"))
    BY WCCalls
  <2>. QED  BY <1>3, <2>1, DelayingFirst
<1>5. Cardinality(Delaying(last_tick)) = 1
  BY <1>2, WCCalls, DelayingFirst
<1>6. Cardinality(Delaying(ask_tick)) = 1
  BY <1>5, WCCalls, DelayingFirst
<1>7. Cardinality(Delaying(output_clock \o ask_tick)) = 1
  BY <1>6, WCCalls, DelayingFirst DEF SendIs
<1>8. Cardinality(Delaying(show_and_tick \o release("in"))) = 1
  <2>1. First(show_and_tick \o release("in"), "request", "out", output_clock \o ask_tick)
    BY WCCalls
  <2>. QED  BY <1>7, <2>1, DelayingFirst
<1>. QED  BY <1>1, <1>2, <1>4, <1>8

\* The calls that start the set priority process are no others.
LEMMA StartingIs ==
    /\ ~Starting(<< >>) /\ ~Starting(release("in"))
    /\ ~Starting(error_message \o release("in"))
    /\ << >> # error_message \o release("in")
    /\ release("in") # error_message \o release("in")
    /\ \A t : Starting(t) => /\ t # error_message \o release("in")
                             /\ Tail(t) # error_message \o release("in")
                             /\ \/ Head(t).op = "request" /\ Head(t).what = "out"
                                \/ Starting(Tail(t))
<1> DEFINE a == request("other") \o (registration("C") \o request("out"))
           b == registration("C") \o request("out")
           c == request("out")
           e == error_message \o release("in")
           r == release("in")
<1>1. /\ First(a, "request", "other", b) /\ First(b, "send", "other", c)
      /\ First(c, "request", "out", << >>) /\ First(e, "send", "out", r)
      /\ First(r, "release", "in", << >>)
  BY SetupCalls, WCCalls, PRIOCalls DEF SendIs
<1>2. \A t : Starting(t) <=> t \in {a, b, c}
  BY DEF Starting
<1> HIDE DEF a, b, c, e, r
<1>3. << >> \notin {a, b, c, e} /\ r \notin {a, b, c, e} /\ e \notin {a, b, c}
  BY <1>1 DEF First
<1>4. \A t \in {a, b, c} : Tail(t) # e
  BY <1>1, <1>3 DEF First
<1>5. \A t \in {a, b, c} :
        (Head(t).op = "request" /\ Head(t).what = "out") \/ Tail(t) \in {a, b, c}
  BY <1>1 DEF First
<1>. QED  BY <1>2, <1>3, <1>4, <1>5 DEF e, r

\* A call of p itself leaves what is done about what it was asked.
LEMMA CallHandles ==
    ASSUME Typed, Accounted, NEW p \in Asked, mailbox'[p] = mailbox[p],
           Request(p) \/ Send(p) \/ DelayedSend(p) \/ Release(p)
    PROVE  HandledNow(p)' <= HandledNow(p) /\ (p = "WC" => HandledNow(p)' = HandledNow(p))
<1>1. /\ p \in Processes /\ TodoOK /\ HoldOK /\ MailOK /\ delayed \in Nat
      /\ todo[p] # << >> /\ Called(p)
  BY DEF Typed, Asked, Processes, Request, Send, DelayedSend, Release, Calls
<1>2. /\ NextCall(p, todo[p], DOMAIN hold[p]) /\ todo'[p] = Tail(todo[p])
  BY <1>1, CalledIs
<1>3. IsSeq(todo[p]) /\ IsSeq(mailbox[p])
  BY <1>1, TodoIsSeq DEF MailOK, Pids
<1>4. CASE p = "WC"
  <2> DEFINE n == Cardinality(Timed(mailbox[p]))
             m == Cardinality(Delaying(todo[p]))
             m2 == Cardinality(Delaying(todo'[p]))
  <2>1. n \in Nat /\ m \in Nat /\ m2 \in Nat
    BY <1>1, <1>2, <1>3, CountsAreNat, DelayingTail
  <2>2. m = m2 + one_if(Head(todo[p]).op = "delayed_send")
    BY <1>1, <1>2, <1>3, DelayingTail
  <2>3. HandledNow(p) = delayed + n + m /\ HandledNow(p)' = delayed' + n + m2
    BY <1>4 DEF HandledNow, Handled
  <2> HIDE DEF n, m, m2
  <2>4. CASE DelayedSend(p)
    <3>1. m = m2 + 1 /\ delayed' = delayed + 1
      BY <2>2, <2>4 DEF DelayedSend, Calls, one_if
    <3>2. delayed + n + m = delayed' + n + m2 /\ delayed + n + m <= delayed + n + m
      BY <1>1, <2>1, <3>1
    <3>. QED  BY <2>3, <3>2
  <2>5. CASE ~DelayedSend(p)
    <3>1. m = m2 + 0 /\ delayed' = delayed
      BY <2>2, <2>5 DEF Request, Send, Release, Calls, one_if
    <3>2. delayed + n + m = delayed' + n + m2 /\ delayed + n + m <= delayed + n + m
      BY <1>1, <2>1, <3>1
    <3>. QED  BY <2>3, <3>2
  <2>. QED  BY <2>4, <2>5
<1>5. CASE p = "SET_PRIO"
  <2> DEFINE t == todo[p]
             e == error_message \o release("in")
             W == DOMAIN hold[p]
             W2 == DOMAIN hold'[p]
  <2>1. /\ HandledNow(p) = one_if(t = e) + one_if("out" \notin W /\ ~Starting(t))
        /\ HandledNow(p)' = one_if(Tail(t) = e) + one_if("out" \notin W2 /\ ~Starting(Tail(t)))
    BY <1>2, <1>5 DEF HandledNow, Handled
  <2>2. \/ Head(t).op = "request" /\ W2 = W \cup {Head(t).what}
        \/ Head(t).op # "request" /\ W2 = W \ {Head(t).what} /\ Head(t).what \in W
    <3>1. CASE Request(p)
      BY <1>1, <3>1, RequestIs DEF pointer
    <3>2. CASE ~Request(p)
      <4>1. Owns(p) /\ Head(todo[p]).op # "request" /\ GivenAway(p)
        BY <3>2 DEF Send, DelayedSend, Release, Calls
      <4>. QED  BY <1>1, <4>1, GivingIs DEF pointer, Owns
    <3>. QED  BY <3>1, <3>2
  <2>3. PRIOForm(t, W) /\ t # << >>
    BY <1>1, <1>5 DEF TodoOK, Form
  <2>4. CASE Starting(t)
    <3>1. "out" \in W2 \/ Starting(Tail(t))
      BY <2>2, <2>4, StartingIs
    <3>2. Tail(t) # e
      BY <2>4, StartingIs
    <3> HIDE DEF t, e, W, W2
    <3>3. HandledNow(p)' = 0
      BY <2>1, <3>1, <3>2 DEF one_if
    <3>4. HandledNow(p) \in Nat
      BY <2>1 DEF one_if
    <3>. QED  BY <1>5, <3>3, <3>4
  <2>5. CASE ~Starting(t)
    <3>1. t \in {e, release("in")}
      BY <2>3, <2>5 DEF PRIOForm, SetupForm, Starting
    <3>2. CASE t = e
      <4>1. Head(t).what = "out" /\ Head(t).op = "send" /\ Tail(t) = release("in")
        BY <3>2, PRIOCalls DEF SendIs, First
      <4>2. "out" \in W /\ Tail(t) # e
        BY <2>2, <4>1, StartingIs
      <4> HIDE DEF t, e, W, W2
      <4>3. HandledNow(p) = 1 /\ HandledNow(p)' <= 1
        BY <2>1, <3>2, <4>2 DEF one_if
      <4>. QED  BY <1>5, <4>3
    <3>3. CASE t = release("in")
      <4>1. Head(t).what = "in" /\ Head(t).op = "release" /\ Tail(t) = << >>
        BY <3>3, WCCalls DEF First
      <4>2. "out" \in W2 <=> "out" \in W
        BY <2>2, <4>1
      <4>3. t # e /\ Tail(t) # e /\ ~Starting(t) /\ ~Starting(Tail(t))
        BY <3>3, <4>1, StartingIs
      <4> HIDE DEF t, e, W, W2
      <4>4. HandledNow(p) = HandledNow(p)' /\ HandledNow(p) \in Nat
        BY <2>1, <4>2, <4>3 DEF one_if
      <4>. QED  BY <1>5, <4>4
    <3>. QED  BY <3>1, <3>2, <3>3
  <2>. QED  BY <2>4, <2>5
<1>. QED  BY <1>4, <1>5 DEF Asked

\* Only the decoder sends anything to those that are asked.
LEMMA SendsAsked ==
    ASSUME Typed, NEW q \in Processes, NEW p \in Asked,
           Request(q) \/ Send(q) \/ DelayedSend(q) \/ Release(q),
           mailbox'[p] # mailbox[p]
    PROVE  /\ q = "KCD" /\ todo["KCD"] = send("out", p, << >>) \o echo
           /\ \E m : /\ mailbox'[p] = Append(mailbox[p], m)
                     /\ m.sender = "KCD" /\ m.data = hold["KCD"]["out"].data
<1>1. Send(q) /\ TodoOK /\ MailOK /\ todo[q] # << >> /\ Called(q)
  BY DEF Request, Send, DelayedSend, Release, Calls, Typed
<1> DEFINE call == Head(todo[q])
           m == filled(call.fill, hold[q][call.what], q)
<1>2. /\ mailbox' = IF call.to \notin Pids THEN mailbox
                    ELSE [mailbox EXCEPT ![call.to] = Append(@, m)]
      /\ call.op = "send"
  BY <1>1 DEF Send, Calls
<1>3. p \in Pids /\ DOMAIN mailbox = Pids
  BY <1>1 DEF Asked, Pids, Processes, MailOK
<1>4. call.to = p /\ mailbox'[p] = Append(mailbox[p], m)
  <2> HIDE DEF m, call
  <2>. QED  BY <1>2, <1>3
<1>5. NextCall(q, todo[q], DOMAIN hold[q])
  BY <1>1, CalledIs
<1>6. q = "KCD" /\ todo["KCD"] = send("out", p, << >>) \o echo
  BY <1>2, <1>4, <1>5 DEF NextCall, Asked
<1>7. call.fill = << >> /\ call.what = "out"
  BY <1>6, KCDCalls DEF SendIs, First
<1>8. m.sender = "KCD" /\ m.data = hold["KCD"]["out"].data
  <2>1. "data" \notin DOMAIN << >>
    OBVIOUS
  <2>. QED  BY <1>6, <1>7, <2>1 DEF filled
<1>. QED  BY <1>4, <1>6, <1>8

\* A call of one process leaves the counts of another.
LEMMA CallElsewhere ==
    ASSUME Typed, NEW q \in Processes, NEW p \in Asked, q # p,
           Request(q) \/ Send(q) \/ DelayedSend(q) \/ Release(q)
    PROVE  /\ todo'[p] = todo[p] /\ hold'[p] = hold[p]
           /\ delayed' = delayed \/ p = "SET_PRIO"
<1>1. /\ todo[q] # << >> /\ Called(q) /\ TodoOK /\ HoldOK /\ p \in Processes
  BY DEF Request, Send, DelayedSend, Release, Calls, Typed, Asked, Processes
<1>2. todo'[p] = todo[p]
  BY <1>1, CalledIs
<1>3. hold'[p] = hold[p]
  BY <1>1 DEF Request, Send, DelayedSend, Release, GivenAway, HoldOK
<1>4. delayed' = delayed \/ p = "SET_PRIO"
  <2>1. NextCall(q, todo[q], DOMAIN hold[q])
    BY <1>1, CalledIs
  <2>2. DelayedSend(q) => q = "WC"
    BY <2>1 DEF DelayedSend, Calls, NextCall
  <2>. QED  BY <2>2 DEF Request, Send, DelayedSend, Release, Asked
<1>. QED  BY <1>2, <1>3, <1>4

LEMMA HandledElsewhere ==
    ASSUME Typed, NEW q \in Processes, NEW p \in Asked, q # p,
           Request(q) \/ Send(q) \/ DelayedSend(q) \/ Release(q)
    PROVE  HandledNow(p)' = HandledNow(p)
<1>1. todo'[p] = todo[p] /\ hold'[p] = hold[p] /\ (delayed' = delayed \/ p = "SET_PRIO")
  BY CallElsewhere
<1>2. Cardinality(Timed(mailbox'[p])) = Cardinality(Timed(mailbox[p]))
  <2>1. CASE mailbox'[p] # mailbox[p]
    <3>1. PICK m : mailbox'[p] = Append(mailbox[p], m) /\ m.sender = "KCD"
      BY <2>1, SendsAsked
    <3>2. IsSeq(mailbox[p])
      BY DEF Typed, MailOK, Asked, Pids, Processes
    <3>3. /\ Cardinality(Timed(mailbox[p])) \in Nat
          /\ Cardinality(Timed(mailbox'[p]))
               = Cardinality(Timed(mailbox[p])) + one_if(m.sender = "TIMER")
      BY <3>1, <3>2, AskingAppend
    <3>4. one_if(m.sender = "TIMER") = 0
      BY <3>1 DEF one_if
    <3>5. \A n \in Nat : n + 0 = n
      OBVIOUS
    <3>. QED  BY <3>3, <3>4, <3>5
  <2>2. CASE mailbox'[p] = mailbox[p]
    BY <2>2
  <2>. QED  BY <2>1, <2>2
<1>. QED  BY <1>1, <1>2 DEF HandledNow, Handled

LEMMA CallServed ==
    ASSUME Typed, Accounted, IsSeq(commands), NEW p \in Asked, Served(p), NEW q \in Processes,
           Request(q) \/ Send(q) \/ DelayedSend(q) \/ Release(q)
    PROVE  Served(p)'
<1>1. Typed' /\ commands' = commands
  BY CallTyped DEF Request, Send, DelayedSend, Release, history
<1>2. WantedNow(p)' = WantedNow(p) /\ IsSeq(commands)' /\ WantedNow(p) \in Nat
  BY <1>1, ServedCounts DEF WantedNow
<1>3. /\ HandledNow(p) \in Nat /\ AskingNow(p) \in Nat /\ HandingNow(p) \in Nat
  BY ServedCounts
<1>4. CASE q = p
  <2>1. mailbox'[p] = mailbox[p]
    BY <1>4, SendsAsked DEF Asked
  <2>2. HandledNow(p)' <= HandledNow(p)
    BY <1>4, <2>1, CallHandles
  <2>3. todo'["KCD"] = todo["KCD"] /\ hold'["KCD"] = hold["KCD"]
    BY <1>4 DEF Asked, Request, Send, DelayedSend, Release, Called, GivenAway, Typed, TodoOK,
                HoldOK, Processes
  <2>4. HandingNow(p)' = HandingNow(p)
    BY <2>3 DEF HandingNow
  <2>5. AskingNow(p)' = AskingNow(p)
    BY <2>1 DEF AskingNow
  <2>6. HandingNow(p)' <= HandingNow(p) /\ AskingNow(p)' <= AskingNow(p)
    BY <1>3, <2>4, <2>5
  <2>. QED  BY <1>1, <1>2, <2>2, <2>6, ServedStep
<1>5. CASE q # p
  <2>2. CASE mailbox'[p] = mailbox[p]
    <3>1. HandledNow(p)' = HandledNow(p)
      BY <1>5, HandledElsewhere
    <3>2. AskingNow(p)' = AskingNow(p)
      BY <2>2 DEF AskingNow
    <3>3. HandingNow(p)' <= HandingNow(p)
      <4>1. CASE q = "KCD"
        <5>1. todo'["KCD"] = Tail(todo["KCD"]) /\ KCDForm(todo["KCD"], DOMAIN hold["KCD"])
              /\ todo["KCD"] # << >>
          BY <4>1 DEF Request, Send, DelayedSend, Release, Called, Calls, Typed, TodoOK, Form,
                      Processes
        <5>2. todo'["KCD"] # send("out", p, << >>) \o echo
          BY <5>1, KCDTail
        <5>3. HandingNow(p)' = 0
          BY <5>2 DEF HandingNow, Handing, one_if
        <5>. QED  BY <1>3, <5>3
      <4>2. CASE q # "KCD"
        <5>1. todo'["KCD"] = todo["KCD"] /\ hold'["KCD"] = hold["KCD"]
          BY <4>2 DEF Request, Send, DelayedSend, Release, Called, GivenAway, Typed, TodoOK,
                      HoldOK, Processes
        <5>2. HandingNow(p)' = HandingNow(p)
          BY <5>1 DEF HandingNow
        <5>. QED  BY <1>3, <5>2
      <4>. QED  BY <4>1, <4>2
    <3>4. HandledNow(p)' <= HandledNow(p) /\ AskingNow(p)' <= AskingNow(p)
      BY <1>3, <3>1, <3>2
    <3>. QED  BY <1>1, <1>2, <3>3, <3>4, ServedStep
  <2>3. CASE mailbox'[p] # mailbox[p]
    <3>1. q = "KCD" /\ todo["KCD"] = send("out", p, << >>) \o echo
      BY <2>3, SendsAsked
    <3>2. PICK m : /\ mailbox'[p] = Append(mailbox[p], m)
                   /\ m.sender = "KCD" /\ m.data = hold["KCD"]["out"].data
      BY <2>3, SendsAsked
    <3>3. IsSeq(mailbox[p])
      BY DEF Typed, MailOK, Asked, Pids, Processes
    <3> DEFINE k == one_if(Asks(p, hold["KCD"]["out"].data))
    <3>4. k \in Nat
      BY DEF one_if
    <3>5. AskingNow(p)' = AskingNow(p) + k
      <4>1. AskingNow(p)' = AskingNow(p) + one_if(m.sender = "KCD" /\ Asks(p, m.data))
        <5> DEFINE s == mailbox[p]
        <5>1. /\ AskingNow(p)' = Cardinality(Asking(p, Append(s, m)))
              /\ AskingNow(p) = Cardinality(Asking(p, s)) /\ IsSeq(s)
          BY <3>2, <3>3 DEF AskingNow
        <5> HIDE DEF s
        <5>2. Cardinality(Asking(p, Append(s, m)))
                = Cardinality(Asking(p, s)) + one_if(m.sender = "KCD" /\ Asks(p, m.data))
          BY <5>1, AskingAppend
        <5>. QED  BY <5>1, <5>2
      <4>2. one_if(m.sender = "KCD" /\ Asks(p, m.data)) = k
        BY <3>2 DEF one_if
      <4>. QED  BY <4>1, <4>2
    <3>6. HandledNow(p)' = HandledNow(p)
      BY <1>5, HandledElsewhere
    <3>7. HandingNow(p) = k
      BY <3>1 DEF HandingNow, Handing, one_if
    <3>8. HandingNow(p)' = 0
      <4>1. todo'["KCD"] = echo
        <5>1. todo'["KCD"] = Tail(todo["KCD"])
          BY <3>1 DEF Request, Send, DelayedSend, Release, Called, Typed, TodoOK, Processes
        <5>. QED  BY <3>1, <5>1, KCDCalls DEF SendIs, First
      <4>2. echo # send("out", p, << >>) \o echo
        BY KCDCalls DEF SendIs, First
      <4>. QED  BY <4>1, <4>2 DEF HandingNow, Handing, one_if
    <3> HIDE DEF k
    <3>9. HandingNow(p)' + k <= HandingNow(p) /\ HandledNow(p)' <= HandledNow(p)
      BY <1>3, <3>4, <3>6, <3>7, <3>8
    <3>. QED  BY <1>1, <1>2, <3>4, <3>5, <3>9, ServedStep
  <2>. QED  BY <2>2, <2>3
<1>. QED  BY <1>4, <1>5
-----------------------------------------------------------------------------
(* The message that is filled with a command: behind what was typed it is what *)
(* the block held when it was requested.                                       *)

Begun ==
    /\ IsSeq(commands)
    /\ ~kcd.buffer_flag => kcd.i = 0
    /\ todo["KCD"] = request("out") \o echo => kcd.i = 0
    /\ kcd.buffer_flag /\ todo["KCD"] # request("out") \o echo =>
         \E x \in Stale :
           \A j \in Cells : j >= kcd.i => hold["KCD"]["out"].data[j] = x.data[j]

\* A call leaves it alone, but the one that requests it.
LEMMA CallLeavesCommand ==
    ASSUME Typed, NEW q \in Processes,
           Request(q) \/ Send(q) \/ DelayedSend(q) \/ Release(q),
           kcd.buffer_flag, todo["KCD"] # request("out") \o echo
    PROVE  hold'["KCD"]["out"] = hold["KCD"]["out"]
<1>1. /\ todo[q] # << >> /\ HoldOK /\ TodoOK
  BY DEF Request, Send, DelayedSend, Release, Calls, Typed
<1>2. CASE q # "KCD"
  BY <1>1, <1>2 DEF Request, Send, DelayedSend, Release, GivenAway, HoldOK, Processes
<1>3. CASE q = "KCD"
  <2> DEFINE t == todo["KCD"]
  <2>1. /\ KCDForm(t, DOMAIN hold["KCD"]) /\ t # << >>
    BY <1>1, <1>3 DEF TodoOK, Form, Processes
  <2>2. "out" \in DOMAIN hold["KCD"] /\ \A d : t # send("out", d, << >>) \o echo
    BY DEF Typed, CommandOK
  <2>3. Head(t).what # "out"
    <3>1. t # request("out") \o echo
      OBVIOUS
    <3> HIDE DEF t
    <3>2. Head(t).what = "out" =>
            \/ t = request("out") \o echo /\ Head(t).op = "request"
            \/ (\E d : t = send("out", d, << >>) \o echo) /\ Head(t).op = "send"
      BY ONLY <2>1, KCDTail
    <3>. QED  BY <2>2, <3>1, <3>2
  <2>4. CASE Request("KCD")
    BY <1>1, <2>2, <2>3, <2>4, RequestIs DEF pointer, Processes
  <2>5. CASE ~Request("KCD")
    <3>1. /\ Owns("KCD") /\ Head(t).op # "request" /\ GivenAway("KCD") /\ Called("KCD")
          /\ "KCD" \in Processes
      BY <1>3, <2>5 DEF Send, DelayedSend, Release, Calls, Processes
    <3>2. /\ DOMAIN hold'["KCD"] = DOMAIN hold["KCD"] \ {Head(t).what}
          /\ \A x \in DOMAIN hold'["KCD"] : hold'["KCD"][x] = hold["KCD"][x]
      BY <1>1, <2>1, <3>1, GivingIs DEF pointer
    <3>. QED  BY <2>2, <2>3, <3>2
  <2>. QED  BY <2>4, <2>5
<1>. QED  BY <1>2, <1>3

LEMMA CallBegun ==
    ASSUME Typed, Begun, NEW q \in Processes,
           Request(q) \/ Send(q) \/ DelayedSend(q) \/ Release(q)
    PROVE  Begun'
<1>1. /\ kcd' = kcd /\ commands' = commands /\ todo[q] # << >> /\ Called(q)
      /\ HoldOK /\ TodoOK
  BY DEF Request, Send, DelayedSend, Release, history, Calls, Typed
<1>2. CASE q # "KCD"
  <2>1. todo'["KCD"] = todo["KCD"] /\ hold'["KCD"] = hold["KCD"]
    BY <1>1, <1>2 DEF Request, Send, DelayedSend, Release, Called, GivenAway, TodoOK, HoldOK,
                      Processes
  <2>. QED  BY <1>1, <2>1 DEF Begun
<1>3. CASE q = "KCD"
  <2> DEFINE t == todo["KCD"]
  <2>1. /\ KCDForm(t, DOMAIN hold["KCD"]) /\ t # << >> /\ todo'["KCD"] = Tail(t)
    BY <1>1, <1>3 DEF TodoOK, Form, Called, Processes
  <2>2. todo'["KCD"] # request("out") \o echo
    BY <2>1, KCDTail
  <2>3. CASE t = request("out") \o echo
    <3>1. Head(t).op = "request" /\ Head(t).what = "out"
      BY <2>1, <2>3, KCDTail
    <3>2. Request("KCD")
      BY <1>3, <3>1 DEF Send, DelayedSend, Release, Calls
    <3>3. hold'["KCD"]["out"] \in Stale
      BY <1>1, <3>1, <3>2, RequestIs DEF pointer, Processes
    <3>. QED  BY <1>1, <2>2, <2>3, <3>3 DEF Begun
  <2>4. CASE t # request("out") \o echo /\ kcd.buffer_flag
    <3>1. hold'["KCD"]["out"] = hold["KCD"]["out"]
      BY <2>4, CallLeavesCommand
    <3>. QED  BY <1>1, <2>2, <2>4, <3>1 DEF Begun
  <2>5. CASE t # request("out") \o echo /\ ~kcd.buffer_flag
    BY <1>1, <2>2, <2>5 DEF Begun
  <2>. QED  BY <2>3, <2>4, <2>5
<1>. QED  BY <1>2, <1>3

\* What the decoder receives leaves the counts of the others.
LEMMA KCDElsewhere ==
    ASSUME Typed, NEW m, NEW mine, NEW calls, Receive("KCD", m, mine, calls), NEW p \in Asked
    PROVE  /\ HandledNow(p)' = HandledNow(p) /\ AskingNow(p)' = AskingNow(p)
           /\ HandingNow(p) = 0
           /\ todo'["KCD"] = calls /\ hold'["KCD"] = with(mine, "in", m)
<1>1. /\ todo["KCD"] = << >> /\ delayed' = delayed /\ mailbox'[p] = mailbox[p]
      /\ todo'[p] = todo[p] /\ hold'[p] = hold[p] /\ todo'["KCD"] = calls
      /\ hold'["KCD"] = with(mine, "in", m)
  BY DEF Receive, has_message, Typed, MailOK, HoldOK, TodoOK, Asked, Pids, Processes
<1>2. << >> # send("out", p, << >>) \o echo
  BY KCDCalls DEF SendIs, First
<1>3. HandingNow(p) = 0
  BY <1>1, <1>2 DEF HandingNow, Handing, one_if
<1>. QED  BY <1>1, <1>3 DEF HandledNow, AskingNow

\* Calls by which nobody is asked anything.
LEMMA KCDServed ==
    ASSUME Typed, Accounted, Begun, NEW m, NEW mine, NEW calls, Receive("KCD", m, mine, calls),
           Typed', commands' = commands, \A d : calls # send("out", d, << >>) \o echo,
           NEW p \in Asked, Served(p)
    PROVE  Served(p)'
<1>1. /\ HandledNow(p)' = HandledNow(p) /\ AskingNow(p)' = AskingNow(p)
      /\ HandingNow(p) = 0 /\ todo'["KCD"] = calls
  BY KCDElsewhere
<1>2. HandingNow(p)' = 0
  BY <1>1 DEF HandingNow, Handing, one_if
<1>3. /\ HandledNow(p) \in Nat /\ AskingNow(p) \in Nat /\ IsSeq(commands)
      /\ IsSeq(commands)' /\ WantedNow(p)' = WantedNow(p)
  BY ServedCounts DEF Begun, WantedNow
<1>4. /\ HandledNow(p)' <= HandledNow(p) /\ AskingNow(p)' <= AskingNow(p)
      /\ HandingNow(p)' <= HandingNow(p)
  BY <1>1, <1>2, <1>3
<1>. QED  BY <1>3, <1>4, ServedStep

\* The decoder is told of a command, or receives something that is no key.
LEMMA BegunKept ==
    ASSUME Typed, Begun, NEW m, NEW mine, Receive("KCD", m, mine, echo),
           mine["out"] = hold["KCD"]["out"], "out" \in DOMAIN hold["KCD"] => "out" \in DOMAIN mine,
           commands' = commands, kcd'.i = kcd.i, kcd'.buffer_flag = kcd.buffer_flag
    PROVE  Begun'
<1>1. /\ todo["KCD"] = << >> /\ todo'["KCD"] = echo /\ hold'["KCD"] = with(mine, "in", m)
  BY DEF Receive, has_message, Typed, HoldOK, TodoOK, Processes
<1>2. << >> # request("out") \o echo /\ echo # request("out") \o echo
  BY KCDCalls DEF SendIs, First
<1>3. kcd.buffer_flag => hold'["KCD"]["out"] = hold["KCD"]["out"]
  BY <1>1, <1>2 DEF with, Typed, CommandOK
<1>. QED  BY <1>1, <1>2, <1>3 DEF Begun

LEMMA KCDBegun ==
    ASSUME Typed, Accounted, Begun,
           \/ kcd_registration \/ kcd_percent \/ kcd_command
           \/ kcd_key \/ kcd_text \/ kcd_other
    PROVE  Begun' /\ \A p \in Asked : Served(p) => Served(p)'
<1> DEFINE m == received("KCD")
           mine == hold["KCD"]
<1>1. /\ Typed' /\ DecoderOK /\ MAX_COMMAND_SIZE \in Nat /\ has_message("KCD")
      /\ IsSeq(commands)
  BY KCDTyped, ConsoleAssumption
  DEF Typed, Begun, kcd_registration, kcd_percent, kcd_command, kcd_key, kcd_text,
      kcd_other, key_arrives
<1>2. /\ \A d : echo # send("out", d, << >>) \o echo
      /\ \A d : request("out") \o echo # send("out", d, << >>) \o echo
      /\ todo["KCD"] = << >> /\ << >> # request("out") \o echo
      /\ echo # request("out") \o echo
      /\ kcd.buffer_flag => "out" \in DOMAIN mine
  BY <1>1, KCDIdle, KCDCalls DEF SendIs, First
<1>3. CASE kcd_registration
  <2>1. PICK m2 : Receive("KCD", m2, mine, echo)
    BY <1>3 DEF kcd_registration
  <2>2. commands' = commands /\ kcd'.i = kcd.i /\ kcd'.buffer_flag = kcd.buffer_flag
    BY <1>1, <1>3 DEF kcd_registration, history, DecoderOK
  <2>3. Begun'
    BY <2>1, <2>2, BegunKept
  <2>. QED  BY <1>1, <1>2, <2>1, <2>2, <2>3, KCDServed
<1>4. CASE kcd_percent
  <2>1. /\ Receive("KCD", m, mine, request("out") \o echo) /\ commands' = commands
        /\ kcd' = [kcd EXCEPT !.buffer_flag = TRUE] /\ ~kcd.buffer_flag
    BY <1>4 DEF kcd_percent, Key
  <2>2. kcd'.i = kcd.i /\ kcd'.buffer_flag
    BY <1>1, <2>1 DEF DecoderOK
  <2>3. todo'["KCD"] = request("out") \o echo
    BY <2>1 DEF Receive, Typed, TodoOK, Processes
  <2>4. Begun'
    BY <2>1, <2>2, <2>3 DEF Begun
  <2>. QED  BY <1>1, <1>2, <2>1, <2>4, KCDServed
<1>5. CASE kcd_command
  <2> DEFINE data == mine["out"].data
             c(d) == [data |-> data, to |-> d, registered |-> data[0] \in DOMAIN kcd.map]
  <2>1. PICK d : /\ Receive("KCD", m, mine, send("out", d, << >>) \o echo)
                 /\ commands' = Append(commands, c(d))
    BY <1>5 DEF kcd_command, Key
  <2>2. kcd.buffer_flag
    BY <1>5 DEF kcd_command
  <2>3. kcd'.i = 0 /\ ~kcd'.buffer_flag
    BY <1>1, <1>5 DEF kcd_command, command_done, DecoderOK
  <2>4. IsSeq(commands')
    BY <1>1, <2>1, AppendIs
  <2>5. Begun'
    BY <2>3, <2>4 DEF Begun
  <2>6. ASSUME NEW p \in Asked, Served(p) PROVE Served(p)'
    <3>1. /\ HandledNow(p)' = HandledNow(p) /\ AskingNow(p)' = AskingNow(p)
          /\ HandingNow(p) = 0
          /\ todo'["KCD"] = send("out", d, << >>) \o echo
          /\ hold'["KCD"] = with(mine, "in", m)
      BY <2>1, KCDElsewhere
    <3>2. hold'["KCD"]["out"].data = data
      BY <1>2, <2>2, <3>1 DEF with
    <3> DEFINE k == one_if(d = p /\ Asks(p, data))
    <3>3. k \in Nat
      BY OneIfIsNat
    <3>4. WantedNow(p)' = WantedNow(p) + k /\ WantedNow(p) \in Nat
      <4>1. c(d).to = d /\ c(d).data = data
        OBVIOUS
      <4> HIDE DEF c
      <4>. QED  BY <1>1, <2>1, <4>1, WantedAppend DEF WantedNow
    <3>5. HandingNow(p)' <= k
      <4>1. send("out", d, << >>) \o echo = send("out", p, << >>) \o echo => d = p
        BY KCDCalls DEF SendIs
      <4>2. HandingNow(p)' = k \/ HandingNow(p)' = 0
        BY <3>1, <3>2, <4>1 DEF HandingNow, Handing, one_if
      <4> HIDE DEF k
      <4>. QED  BY <3>3, <4>2
    <3> HIDE DEF k
    <3>6. WantedNow(p) + k <= WantedNow(p)'
      BY <3>3, <3>4
    <3>7. /\ HandledNow(p) \in Nat /\ AskingNow(p) \in Nat
      BY <1>1, ServedCounts
    <3>8. HandledNow(p)' <= HandledNow(p) /\ AskingNow(p)' <= AskingNow(p)
      BY <3>1, <3>7
    <3>. QED  BY <1>1, <2>4, <2>6, <3>3, <3>5, <3>6, <3>8, ServedStep
  <2>. QED  BY <2>5, <2>6
<1>6. CASE kcd_key
  <2>1. commands' = commands /\ kcd.buffer_flag
    BY <1>6 DEF kcd_key
  <2>2. CASE room
    <3> DEFINE new == [mine EXCEPT !["out"].data[kcd.i] = key]
    <3>1. Receive("KCD", m, new, echo) /\ kcd' = [kcd EXCEPT !.i = @ + 1]
      BY <1>6, <2>2 DEF kcd_key, Key
    <3>2. kcd'.i = kcd.i + 1 /\ kcd'.buffer_flag /\ kcd.i \in Nat
      BY <1>1, <2>1, <3>1 DEF DecoderOK
    <3>3. PICK x \in Stale :
            \A j \in Cells : j >= kcd.i => mine["out"].data[j] = x.data[j]
      BY <1>2, <2>1 DEF Begun
    <3>4. todo'["KCD"] = echo /\ hold'["KCD"] = with(new, "in", m)
      BY <3>1 DEF Receive, Typed, TodoOK, HoldOK, Processes
    <3>5. \A j \in Cells : j >= kcd.i + 1 => hold'["KCD"]["out"].data[j] = x.data[j]
      <4>1. hold'["KCD"]["out"] = new["out"]
        <5>1. "out" \in DOMAIN new
          BY <1>2, <2>1
        <5> HIDE DEF new
        <5>. QED  BY <3>4, <5>1 DEF with
      <4>2. /\ DOMAIN mine["out"].data = Cells /\ "data" \in DOMAIN mine["out"]
        BY <1>2, <2>1 DEF Typed, HoldOK, Message, Processes
      <4>3. \A j \in Cells : j # kcd.i => new["out"].data[j] = mine["out"].data[j]
        BY <1>2, <2>1, <4>2
      <4> HIDE DEF new, mine
      <4>4. \A j \in Cells : j \in Nat
        BY <1>1 DEF Cells
      <4>. QED  BY <3>2, <3>3, <4>1, <4>3, <4>4
    <3>6. Begun'
      BY <1>1, <2>1, <3>2, <3>4, <3>5, <1>2 DEF Begun
    <3> HIDE DEF new
    <3>. QED  BY <1>1, <1>2, <2>1, <3>1, <3>6, KCDServed
  <2>3. CASE ~room
    <3>1. Receive("KCD", m, mine, echo) /\ kcd' = kcd
      BY <1>6, <2>3 DEF kcd_key, Key
    <3>2. Begun'
      BY <2>1, <3>1, BegunKept
    <3>. QED  BY <1>1, <1>2, <2>1, <3>1, <3>2, KCDServed
  <2>. QED  BY <2>2, <2>3
<1>7. CASE kcd_text
  <2> DEFINE calls == (IF key = CR /\ kcd.char_typed > 2 THEN not_ok ELSE << >>) \o echo
  <2>1. Receive("KCD", m, mine, calls) /\ ~kcd.buffer_flag /\ commands' = commands
    BY <1>7 DEF kcd_text, Key
  <2>2. kcd'.i = kcd.i /\ ~kcd'.buffer_flag
    BY <1>1, <1>7, <2>1 DEF DecoderOK, kcd_text
  <2>3. (\A d : calls # send("out", d, << >>) \o echo) /\ calls # request("out") \o echo
    <3>1. calls = request("other") \o (complain \o echo) \/ calls = echo
      BY KCDCalls
    <3>2. /\ \A d : request("other") \o (complain \o echo) # send("out", d, << >>) \o echo
          /\ request("other") \o (complain \o echo) # request("out") \o echo
      BY KCDCalls DEF SendIs, First
    <3>. QED  BY <1>2, <3>1, <3>2
  <2> HIDE DEF calls
  <2>4. Begun'
    BY <1>1, <2>1, <2>2, <2>3 DEF Begun, Receive, Typed, TodoOK, Processes
  <2>. QED  BY <1>1, <2>1, <2>3, <2>4, KCDServed
<1>8. CASE kcd_other
  <2>1. Receive("KCD", m, mine, echo) /\ kcd' = kcd /\ commands' = commands
    BY <1>8 DEF kcd_other, history
  <2>2. Begun'
    BY <2>1, BegunKept
  <2>. QED  BY <1>1, <1>2, <2>1, <2>2, KCDServed
<1>. QED  BY <1>3, <1>4, <1>5, <1>6, <1>7, <1>8
-----------------------------------------------------------------------------
\* What the decoder has done does not change.
LEMMA BegunStays ==
    ASSUME Begun, UNCHANGED <<kcd, commands>>, todo'["KCD"] = todo["KCD"],
           hold'["KCD"] = hold["KCD"]
    PROVE  Begun' /\ \A p : HandingNow(p)' = HandingNow(p) /\ WantedNow(p)' = WantedNow(p)
<1>1. Begun'
  BY DEF Begun
<1>. QED  BY <1>1 DEF HandingNow, WantedNow

\* Nothing changes that the counts of p are made from.
LEMMA ServedStays ==
    ASSUME Typed, Begun, Typed', Begun', NEW p \in Asked, Served(p),
           HandledNow(p)' <= HandledNow(p), mailbox'[p] = mailbox[p],
           HandingNow(p)' = HandingNow(p), WantedNow(p)' = WantedNow(p)
    PROVE  Served(p)'
<1>1. /\ IsSeq(commands) /\ IsSeq(commands)' /\ HandingNow(p) \in Nat /\ AskingNow(p) \in Nat
  BY ServedCounts DEF Begun
<1>2. AskingNow(p)' = AskingNow(p)
  BY DEF AskingNow
<1>3. HandingNow(p)' <= HandingNow(p) /\ AskingNow(p)' <= AskingNow(p)
  BY <1>1, <1>2
<1>. QED  BY <1>1, <1>3, ServedStep

\* A process that is asked receives a message and does calls.
LEMMA AskedReceives ==
    ASSUME Typed, Accounted, Begun, NEW q \in Asked, NEW calls, Typed',
           Receive(q, received(q), hold[q], calls), UNCHANGED <<kcd, history>>
    PROVE  /\ Begun'
           /\ \A p \in Asked : p # q => HandledNow(p)' = HandledNow(p)
           /\ \A p \in Asked : p # q /\ Served(p) => Served(p)'
           /\ AskingNow(q) = AskingNow(q)'
                + one_if(received(q).sender = "KCD" /\ Asks(q, received(q).data))
           /\ Cardinality(Timed(mailbox[q])) \in Nat /\ Cardinality(Timed(mailbox'[q])) \in Nat
           /\ Cardinality(Timed(mailbox[q]))
                = Cardinality(Timed(mailbox'[q])) + one_if(received(q).sender = "TIMER")
           /\ HandingNow(q)' = HandingNow(q) /\ WantedNow(q)' = WantedNow(q)
           /\ todo[q] = << >> /\ todo'[q] = calls /\ delayed' = delayed
           /\ DOMAIN hold'[q] = DOMAIN hold[q] \cup {"in"}
<1>1. /\ todo[q] = << >> /\ mailbox[q] # << >> /\ delayed' = delayed
      /\ mailbox'[q] = Tail(mailbox[q]) /\ todo'[q] = calls
      /\ hold'[q] = with(hold[q], "in", received(q))
      /\ \A p \in Pids : p # q => mailbox'[p] = mailbox[p]
      /\ \A p \in Processes : p # q => todo'[p] = todo[p] /\ hold'[p] = hold[p]
  BY DEF Receive, has_message, Typed, MailOK, HoldOK, TodoOK, Asked, Pids, Processes
<1>2. /\ Begun' /\ \A p : HandingNow(p)' = HandingNow(p) /\ WantedNow(p)' = WantedNow(p)
  <2>1. todo'["KCD"] = todo["KCD"] /\ hold'["KCD"] = hold["KCD"]
    BY <1>1 DEF Asked, Processes
  <2>. QED  BY <2>1, BegunStays DEF history
<1>3. ASSUME NEW p \in Asked, p # q
      PROVE  HandledNow(p)' = HandledNow(p) /\ (Served(p) => Served(p)')
  <2>1. mailbox'[p] = mailbox[p] /\ todo'[p] = todo[p] /\ hold'[p] = hold[p]
    BY <1>1, <1>3 DEF Asked, Pids, Processes
  <2>2. HandledNow(p)' = HandledNow(p) /\ HandledNow(p) \in Nat
    BY <1>1, <2>1, ServedCounts DEF HandledNow, Begun
  <2>3. HandledNow(p)' <= HandledNow(p)
    BY <2>2
  <2>. QED  BY <1>2, <2>1, <2>2, <2>3, ServedStays
<1>4. IsSeq(mailbox[q])
  BY DEF Typed, MailOK, Asked, Pids, Processes
<1>5. /\ AskingNow(q) = AskingNow(q)'
           + one_if(received(q).sender = "KCD" /\ Asks(q, received(q).data))
      /\ Cardinality(Timed(mailbox[q])) \in Nat /\ Cardinality(Timed(mailbox'[q])) \in Nat
      /\ Cardinality(Timed(mailbox[q]))
           = Cardinality(Timed(mailbox'[q])) + one_if(received(q).sender = "TIMER")
  <2> DEFINE s == mailbox[q]
  <2>1. IsSeq(s) /\ s # << >> /\ mailbox'[q] = Tail(s) /\ received(q) = Head(s)
    BY <1>1, <1>4 DEF received
  <2>2. AskingNow(q) = Cardinality(Asking(q, s)) /\ AskingNow(q)' = Cardinality(Asking(q, Tail(s)))
    BY <2>1 DEF AskingNow
  <2> HIDE DEF s
  <2>3. /\ Cardinality(Asking(q, s))
             = Cardinality(Asking(q, Tail(s)))
               + one_if(Head(s).sender = "KCD" /\ Asks(q, Head(s).data))
        /\ Cardinality(Timed(s)) \in Nat /\ Cardinality(Timed(Tail(s))) \in Nat
        /\ Cardinality(Timed(s))
             = Cardinality(Timed(Tail(s))) + one_if(Head(s).sender = "TIMER")
    BY <2>1, AskingTail
  <2>. QED  BY <2>1, <2>2, <2>3 DEF s
<1>6. DOMAIN hold'[q] = DOMAIN hold[q] \cup {"in"}
  BY <1>1 DEF with
<1>. QED  BY <1>1, <1>2, <1>3, <1>5, <1>6

\* While the clock is on there is a tick for it.
Awake == clock.on => HandledNow("WC") > 0

LEMMA PRIOServed ==
    ASSUME Typed, Accounted, Begun, \A p \in Asked : Served(p), set_prio_process
    PROVE  /\ Begun' /\ \A p \in Asked : Served(p)'
           /\ HandledNow("WC")' = HandledNow("WC")
<1> DEFINE m == received("SET_PRIO")
           asks == m.sender = "KCD" /\ refused(m.data)
           calls == (IF asks THEN error_message ELSE << >>) \o release("in")
           W == DOMAIN hold["SET_PRIO"]
           W2 == DOMAIN hold'["SET_PRIO"]
           k == one_if(m.sender = "KCD" /\ Asks("SET_PRIO", m.data))
<1>1. /\ Receive("SET_PRIO", m, hold["SET_PRIO"], calls)
      /\ UNCHANGED <<kcd, history>> /\ "SET_PRIO" \in Asked /\ "WC" \in Asked
      /\ Typed'
  BY PRIOTyped DEF set_prio_process, Asked
<1>2. /\ Begun'
      /\ \A p \in Asked : p # "SET_PRIO" => HandledNow(p)' = HandledNow(p)
      /\ \A p \in Asked : p # "SET_PRIO" /\ Served(p) => Served(p)'
      /\ AskingNow("SET_PRIO") = AskingNow("SET_PRIO")' + k
      /\ HandingNow("SET_PRIO")' = HandingNow("SET_PRIO")
      /\ WantedNow("SET_PRIO")' = WantedNow("SET_PRIO")
      /\ todo["SET_PRIO"] = << >> /\ todo'["SET_PRIO"] = calls
      /\ W2 = W \cup {"in"}
  <2> HIDE DEF calls, k
  <2>1. AskingNow("SET_PRIO") = AskingNow("SET_PRIO")' + k
    BY <1>1, AskedReceives DEF k
  <2>. QED  BY <1>1, <2>1, AskedReceives
<1>3. HandledNow("SET_PRIO") = one_if("out" \notin W)
  BY <1>2, StartingIs DEF HandledNow, Handled, one_if
<1>4. HandledNow("SET_PRIO")' <= one_if("out" \notin W) + k /\ k \in Nat
  <2>1. CASE asks
    <3>1. calls = error_message \o release("in") /\ k = 1
      BY <2>1 DEF Asks, one_if
    <3>2. HandledNow("SET_PRIO")' = 1 + one_if("out" \notin W)
      BY <1>2, <3>1, StartingIs DEF HandledNow, Handled, one_if
    <3> HIDE DEF k
    <3>. QED  BY <3>1, <3>2 DEF one_if
  <2>2. CASE ~asks
    <3>1. calls = release("in") /\ k = 0
      BY <2>2, WCCalls DEF Asks, one_if
    <3>2. HandledNow("SET_PRIO")' = 0 + one_if("out" \notin W)
      BY <1>2, <3>1, StartingIs DEF HandledNow, Handled, one_if
    <3> HIDE DEF k
    <3>. QED  BY <3>1, <3>2 DEF one_if
  <2>. QED  BY <2>1, <2>2
<1> HIDE DEF k, W, W2
<1>5. HandledNow("SET_PRIO")' <= HandledNow("SET_PRIO") + k
  BY <1>3, <1>4
<1>6. HandingNow("SET_PRIO") \in Nat /\ IsSeq(commands) /\ IsSeq(commands)'
  BY <1>1, <1>2, ServedCounts DEF Begun
<1>7. HandingNow("SET_PRIO")' <= HandingNow("SET_PRIO")
  BY <1>2, <1>6
<1>8. Served("SET_PRIO")'
  BY <1>1, <1>2, <1>4, <1>5, <1>6, <1>7, ServedStep
<1>. QED  BY <1>1, <1>2, <1>8 DEF Asked

\* The wall clock asks for a tick when it is set and for every tick it gets while
\* it is on.
WCAsksTick(calls, m) ==
    \/ /\ Cardinality(Delaying(calls)) = 1
       /\ m.sender = "TIMER" \/ (m.sender = "KCD" /\ sets_clock(m.data))
    \/ /\ Cardinality(Delaying(calls)) = 0
       /\ clock'.on => clock.on /\ m.sender # "TIMER"

LEMMA WCTicks ==
    ASSUME ClockOK, wc_set \/ wc_get \/ wc_stop \/ wc_tick \/ wc_other
    PROVE  \E calls : /\ Receive("WC", received("WC"), hold["WC"], calls)
                      /\ WCAsksTick(calls, received("WC"))
<1> DEFINE m == received("WC")
<1>1. clock = [time |-> clock.time, on |-> clock.on]
  BY DEF ClockOK
<1>2. << >> \o release("in") = release("in")
  BY WCCalls
<1>3. CASE wc_set /\ sets_clock(m.data)
  <2>1. Receive("WC", m, hold["WC"], show_and_tick \o release("in")) /\ m.sender = "KCD"
    BY <1>3 DEF wc_set, wc_command, WallClock
  <2>. QED  BY <1>3, <2>1, TicksAsked DEF WCAsksTick
<1>4. CASE wc_set /\ ~sets_clock(m.data)
  <2>1. /\ Receive("WC", m, hold["WC"], release("in")) /\ m.sender = "KCD" /\ clock' = clock
    BY <1>2, <1>4 DEF wc_set, wc_command, WallClock
  <2>. QED  BY <2>1, TicksAsked DEF WCAsksTick
<1>5. CASE wc_get
  <2>1. /\ Receive("WC", m, hold["WC"], show \o release("in")) /\ m.sender = "KCD"
        /\ clock' = clock
    BY <1>5 DEF wc_get, wc_command, WallClock
  <2>. QED  BY <2>1, TicksAsked DEF WCAsksTick
<1>6. CASE wc_stop
  <2>1. /\ Receive("WC", m, hold["WC"], release("in"))
        /\ clock' = [time |-> clock.time, on |-> FALSE]
    BY <1>1, <1>2, <1>6 DEF wc_stop, WallClock
  <2>. QED  BY <2>1, TicksAsked DEF WCAsksTick
<1>7. CASE wc_tick
  <2>1. Receive("WC", m, hold["WC"], show_and_tick \o release("in")) /\ m.sender = "TIMER"
    BY <1>7 DEF wc_tick, WallClock
  <2>2. Cardinality(Delaying(show_and_tick \o release("in"))) = 1
    BY TicksAsked
  <2>3. \A c, x : Cardinality(Delaying(c)) = 1 /\ x.sender = "TIMER" => WCAsksTick(c, x)
    BY DEF WCAsksTick
  <2>4. WCAsksTick(show_and_tick \o release("in"), m)
    BY <2>1, <2>2, <2>3
  <2>. QED  BY <2>1, <2>4
<1>8. CASE wc_other
  <2>1. /\ Receive("WC", m, hold["WC"], release("in")) /\ clock' = clock
        /\ m.sender = "TIMER" => ~clock.on
    BY <1>2, <1>8 DEF wc_other, WallClock
  <2>. QED  BY <2>1, TicksAsked DEF WCAsksTick
<1>. QED  BY <1>3, <1>4, <1>5, <1>6, <1>7, <1>8

LEMMA WCServed ==
    ASSUME Typed, Accounted, Begun, \A p \in Asked : Served(p), Awake,
           wc_set \/ wc_get \/ wc_stop \/ wc_tick \/ wc_other
    PROVE  Begun' /\ (\A p \in Asked : Served(p)') /\ Awake'
<1> DEFINE m == received("WC")
           k == one_if(m.sender = "KCD" /\ Asks("WC", m.data))
<1>0. PICK calls : Receive("WC", m, hold["WC"], calls) /\ WCAsksTick(calls, m)
  BY WCTicks DEF Typed
<1>1. /\ Receive("WC", m, hold["WC"], calls)
      /\ \/ /\ Cardinality(Delaying(calls)) = 1
            /\ m.sender = "TIMER" \/ (m.sender = "KCD" /\ sets_clock(m.data))
         \/ /\ Cardinality(Delaying(calls)) = 0
            /\ clock'.on => clock.on /\ m.sender # "TIMER"
  BY <1>0 DEF WCAsksTick
<1>2. UNCHANGED <<kcd, history>> /\ Typed' /\ "WC" \in Asked
  BY WCReceives, WCTyped DEF Typed, Asked
<1> DEFINE n == Cardinality(Timed(mailbox["WC"]))
           n2 == Cardinality(Timed(mailbox'["WC"]))
           d == Cardinality(Delaying(calls))
<1>3. /\ Begun'
      /\ \A p \in Asked : p # "WC" /\ Served(p) => Served(p)'
      /\ n \in Nat /\ n2 \in Nat /\ n = n2 + one_if(m.sender = "TIMER")
      /\ HandingNow("WC")' = HandingNow("WC") /\ WantedNow("WC")' = WantedNow("WC")
      /\ todo["WC"] = << >> /\ todo'["WC"] = calls /\ delayed' = delayed
  <2> HIDE DEF k
  <2>. QED  BY <1>1, <1>2, AskedReceives
<1>4. AskingNow("WC") = AskingNow("WC")' + k
  BY <1>1, <1>2, AskedReceives
<1>5. HandledNow("WC") = delayed + n + 0 /\ HandledNow("WC")' = delayed + n2 + d
  BY <1>3, TicksAsked DEF HandledNow, Handled
<1>6. /\ k \in Nat /\ d \in {0, 1} /\ delayed \in Nat
      /\ m.sender = "KCD" /\ sets_clock(m.data) => k = 1
  <2>1. k \in Nat
    BY OneIfIsNat
  <2>2. m.sender = "KCD" /\ sets_clock(m.data) => k = 1
    BY DEF Asks, one_if
  <2>. QED  BY <1>1, <2>1, <2>2 DEF Typed
<1>7. d = 1 => m.sender = "TIMER" \/ (m.sender = "KCD" /\ sets_clock(m.data))
  BY <1>1
<1>8. d = 0 => (clock'.on => clock.on /\ m.sender # "TIMER")
  BY <1>1
<1>9. /\ m.sender = "TIMER" => n = n2 + 1
      /\ m.sender # "TIMER" => n = n2
  BY <1>3 DEF one_if
<1> HIDE DEF k, d, n, n2
<1>10. d <= k + (n - n2) /\ n2 <= n
  <2>1. n2 <= n /\ n - n2 \in Nat
    BY <1>3, <1>9
  <2>2. d = 1 => n = n2 + 1 \/ k = 1
    BY <1>6, <1>7, <1>9
  <2>. QED  BY <1>3, <1>6, <2>1, <2>2
<1>11. HandledNow("WC")' <= HandledNow("WC") + k
  <2>1. delayed + n2 + d <= (delayed + n + 0) + k
    BY <1>3, <1>6, <1>10
  <2>. QED  BY <1>5, <2>1
<1>12. HandingNow("WC") \in Nat /\ IsSeq(commands) /\ IsSeq(commands)'
  BY <1>2, <1>3, ServedCounts DEF Begun
<1>13. HandingNow("WC")' <= HandingNow("WC")
  BY <1>3, <1>12
<1>14. Served("WC")'
  BY <1>2, <1>3, <1>4, <1>6, <1>11, <1>12, <1>13, ServedStep
<1>15. Awake'
  <2>1. CASE d = 1
    <3>1. delayed + n2 + d > 0
      BY <1>3, <1>6, <2>1
    <3>. QED  BY <1>5, <3>1 DEF Awake
  <2>2. CASE d = 0 /\ clock'.on
    <3>1. clock.on /\ n2 = n
      BY <1>8, <1>9, <2>2
    <3>2. HandledNow("WC")' = HandledNow("WC")
      BY <1>5, <2>2, <3>1
    <3>. QED  BY <3>1, <3>2 DEF Awake
  <2>. QED  BY <1>6, <2>1, <2>2 DEF Awake
<1>. QED  BY <1>3, <1>14, <1>15 DEF Asked

\* The display, the UART and the user touch nothing of this.
LEMMA UsersServed ==
    ASSUME Typed, Accounted, Begun, \A p \in Asked : Served(p), Awake,
           crt_process \/ type_line \/ uart_key
    PROVE  Begun' /\ (\A p \in Asked : Served(p)') /\ Awake'
<1>1. /\ Typed' /\ UNCHANGED <<delayed, hold, todo, kcd, clock, commands>>
      /\ \A p \in Asked : mailbox'[p] = mailbox[p]
  <2>1. Typed'
    BY CRTTyped, UsersTyped
  <2>. QED  BY <2>1 DEF crt_process, type_line, uart_key, history, Typed, MailOK, Asked,
                         Pids, Processes
<1>2. Begun' /\ \A p : HandingNow(p)' = HandingNow(p) /\ WantedNow(p)' = WantedNow(p)
  BY <1>1, BegunStays
<1>3. \A p \in Asked : HandledNow(p)' = HandledNow(p) /\ HandledNow(p) \in Nat
  BY <1>1, ServedCounts DEF HandledNow, Begun
<1>4. \A p \in Asked : HandledNow(p)' <= HandledNow(p)
  BY <1>3
<1>5. \A p \in Asked : Served(p)'
  BY <1>1, <1>2, <1>4, ServedStays
<1>6. Awake'
  BY <1>1, <1>3 DEF Awake, Asked
<1>. QED  BY <1>2, <1>5, <1>6

\* A tick that is due goes from the queue of delayed messages to the mailbox.
LEMMA TimerServed ==
    ASSUME Typed, Accounted, Begun, \A p \in Asked : Served(p), Awake, timer_expire
    PROVE  Begun' /\ (\A p \in Asked : Served(p)') /\ Awake'
<1> DEFINE m == [Blank EXCEPT !.sender = "TIMER"]
           s == mailbox["WC"]
<1>1. /\ Typed' /\ UNCHANGED <<hold, todo, kcd, clock, commands>>
      /\ delayed > 0 /\ delayed' = delayed - 1 /\ delayed \in Nat
      /\ mailbox'["WC"] = Append(s, m) /\ mailbox'["SET_PRIO"] = mailbox["SET_PRIO"]
      /\ IsSeq(s)
  <2>1. Typed'
    BY UsersTyped
  <2>. QED  BY <2>1 DEF timer_expire, history, Typed, MailOK, Pids, Processes
<1>2. Begun' /\ \A p : HandingNow(p)' = HandingNow(p) /\ WantedNow(p)' = WantedNow(p)
  BY <1>1, BegunStays
<1>3. m.sender = "TIMER" /\ "WC" \in Asked /\ "SET_PRIO" \in Asked
  BY DEF Blank, Asked
<1> HIDE DEF m
<1>4. HandledNow("WC")' = HandledNow("WC") /\ HandledNow("WC") \in Nat
  <2> DEFINE n == Cardinality(Timed(s))
             n2 == Cardinality(Timed(mailbox'["WC"]))
             d == Cardinality(Delaying(todo["WC"]))
  <2>1. n \in Nat /\ n2 \in Nat /\ n2 = n + one_if(m.sender = "TIMER")
    <3>1. n2 = Cardinality(Timed(Append(s, m)))
      BY <1>1
    <3> HIDE DEF s, n2
    <3>. QED  BY <1>1, <3>1, AskingAppend
  <2>2. n2 = n + 1
    BY <1>3, <2>1 DEF one_if
  <2>3. IsSeq(todo["WC"])
    BY TodoIsSeq DEF Typed, Processes
  <2>4. d \in Nat
    BY <2>3, CountsAreNat
  <2>5. HandledNow("WC") = delayed + n + d /\ HandledNow("WC")' = delayed' + n2 + d
    BY <1>1 DEF HandledNow, Handled
  <2> HIDE DEF n, n2, d
  <2>6. \A x \in Nat : x > 0 => x + n + d = (x - 1) + (n + 1) + d /\ x + n + d \in Nat
    BY <2>1, <2>4
  <2>. QED  BY <1>1, <2>2, <2>5, <2>6
<1>5. Awake'
  BY <1>1, <1>4 DEF Awake
<1>6. Served("SET_PRIO")'
  <2>1. HandledNow("SET_PRIO")' = HandledNow("SET_PRIO") /\ HandledNow("SET_PRIO") \in Nat
    BY <1>1, <1>3, ServedCounts DEF HandledNow, Handled, Begun
  <2>2. HandledNow("SET_PRIO")' <= HandledNow("SET_PRIO")
    BY <2>1
  <2>. QED  BY <1>1, <1>2, <1>3, <2>2, ServedStays
<1>7. Served("WC")'
  <2>1. AskingNow("WC")' = AskingNow("WC") + one_if(m.sender = "KCD" /\ Asks("WC", m.data))
    <3> HIDE DEF s
    <3>1. mailbox'["WC"] = Append(s, m) /\ IsSeq(s)
      BY <1>1
    <3>2. AskingNow("WC")' = Cardinality(Asking("WC", Append(s, m)))
      BY <3>1 DEF AskingNow
    <3>3. AskingNow("WC") = Cardinality(Asking("WC", s))
      BY DEF AskingNow, s
    <3>. QED  BY <3>1, <3>2, <3>3, AskingAppend
  <2>2. one_if(m.sender = "KCD" /\ Asks("WC", m.data)) = 0
    BY <1>3 DEF one_if
  <2>3. AskingNow("WC") \in Nat /\ HandingNow("WC") \in Nat /\ IsSeq(commands)
        /\ IsSeq(commands)'
    BY <1>2, <1>3, ServedCounts DEF Begun
  <2>4. /\ AskingNow("WC")' <= AskingNow("WC") /\ HandingNow("WC")' <= HandingNow("WC")
        /\ HandledNow("WC")' <= HandledNow("WC")
    BY <1>2, <1>4, <2>1, <2>2, <2>3
  <2>. QED  BY <1>1, <1>2, <1>3, <2>3, <2>4, ServedStep
<1>. QED  BY <1>2, <1>5, <1>6, <1>7 DEF Asked

ConsoleInv == Typed /\ Accounted /\ Begun /\ (\A p \in Asked : Served(p)) /\ Awake

LEMMA ConsoleInit == Init => ConsoleInv
<1> SUFFICES ASSUME Init PROVE ConsoleInv
  OBVIOUS
<1>1. Typed /\ Accounted
  BY InitTyped
<1>2. /\ todo["KCD"] = << >> /\ commands = << >> /\ delayed = 0 /\ ~clock.on
      /\ kcd.i = 0 /\ ~kcd.buffer_flag
      /\ \A p \in Asked : mailbox[p] = << >>
      /\ todo["WC"] = register_command("W") \o request("out")
      /\ todo["SET_PRIO"] = register_command("C") \o request("out")
  BY DEF Init, Asked, Pids, Processes
<1>3. Begun
  BY <1>2, EmptyIsSeq DEF Begun
<1>4. /\ Cardinality(Timed(<< >>)) = 0
      /\ \A p : Cardinality(Asking(p, << >>)) = 0 /\ Cardinality(Wanted(p, << >>)) = 0
  <2>1. Timed(<< >>) = {} /\ \A p : Asking(p, << >>) = {} /\ Wanted(p, << >>) = {}
    BY DEF Timed, Asking, Wanted
  <2>. QED  BY <2>1, FS_EmptySet
<1>5. \A p : HandingNow(p) = 0
  <2>1. \A p : << >> # send("out", p, << >>) \o echo
    BY KCDCalls DEF SendIs, First
  <2>. QED  BY <1>2, <2>1 DEF HandingNow, Handing, one_if
<1>6. HandledNow("WC") = 0
  <2>1. Cardinality(Delaying(request("out"))) = 0
    BY SetupCalls, TicksAsked, DelayingFirst
  <2>2. Cardinality(Delaying(registration("W") \o request("out"))) = 0
    <3>1. First(registration("W") \o request("out"), "send", "other", request("out"))
      BY SetupCalls DEF SendIs
    <3>. QED  BY <2>1, <3>1, DelayingFirst
  <2>3. Cardinality(Delaying(todo["WC"])) = 0
    <3>1. First(todo["WC"], "request", "other", registration("W") \o request("out"))
      BY <1>2, SetupCalls
    <3>. QED  BY <2>2, <3>1, DelayingFirst
  <2>. QED  BY <1>2, <1>4, <2>3 DEF HandledNow, Handled, Asked
<1>7. HandledNow("SET_PRIO") = 0
  <2>1. Starting(todo["SET_PRIO"])
    BY <1>2, SetupCalls DEF Starting
  <2>2. todo["SET_PRIO"] # error_message \o release("in")
    BY <2>1, StartingIs
  <2>. QED  BY <2>1, <2>2 DEF HandledNow, Handled, one_if
<1>8. \A p \in Asked : Served(p)
  <2> SUFFICES ASSUME NEW p \in Asked PROVE Served(p)
    OBVIOUS
  <2>1. HandledNow(p) = 0 /\ AskingNow(p) = 0 /\ HandingNow(p) = 0 /\ WantedNow(p) = 0
    BY <1>2, <1>4, <1>5, <1>6, <1>7 DEF AskingNow, WantedNow, Asked
  <2>. QED  BY <2>1 DEF Served
<1>. QED  BY <1>1, <1>2, <1>3, <1>8 DEF ConsoleInv, Awake

LEMMA ConsoleNext == ConsoleInv /\ [Next]_vars => ConsoleInv'
<1> SUFFICES ASSUME ConsoleInv, [Next]_vars PROVE ConsoleInv'
  OBVIOUS
<1>1. /\ Typed /\ Accounted /\ Begun /\ (\A p \in Asked : Served(p)) /\ Awake
      /\ "WC" \in Asked
  BY DEF ConsoleInv, Asked
<1>2. Typed' /\ Accounted'
  BY <1>1, NextTyped
<1>3. SUFFICES Begun' /\ (\A p \in Asked : Served(p)') /\ Awake'
  BY <1>2 DEF ConsoleInv
<1>4. ASSUME NEW q \in Processes, Request(q) \/ Send(q) \/ DelayedSend(q) \/ Release(q)
      PROVE  Begun' /\ (\A p \in Asked : Served(p)') /\ Awake'
  <2>1. Begun'
    BY <1>1, <1>4, CallBegun
  <2>2. \A p \in Asked : Served(p)'
    BY <1>1, <1>4, CallServed DEF Begun
  <2>3. HandledNow("WC")' = HandledNow("WC")
    <3>1. CASE q = "WC"
      <4>1. mailbox'[q] = mailbox[q]
        BY <1>1, <1>4, <3>1, SendsAsked
      <4>. QED  BY <1>1, <1>4, <3>1, <4>1, CallHandles
    <3>2. CASE q # "WC"
      BY <1>1, <1>4, <3>2, HandledElsewhere
    <3>. QED  BY <3>1, <3>2
  <2>4. clock' = clock
    BY <1>4 DEF Request, Send, DelayedSend, Release
  <2>5. Awake'
    BY <1>1, <2>3, <2>4 DEF Awake
  <2>. QED  BY <2>1, <2>2, <2>5
<1>5. CASE \/ kcd_registration \/ kcd_percent \/ kcd_command
           \/ kcd_key \/ kcd_text \/ kcd_other
  <2>1. Begun' /\ \A p \in Asked : Served(p)'
    BY <1>1, <1>5, KCDBegun
  <2>2. \E m, mine, calls : Receive("KCD", m, mine, calls)
    BY <1>5 DEF kcd_registration, kcd_percent, kcd_command, kcd_key, kcd_text, kcd_other, Key
  <2>3. HandledNow("WC")' = HandledNow("WC")
    BY <1>1, <2>2, KCDElsewhere
  <2>4. clock' = clock
    BY <1>5 DEF kcd_registration, kcd_percent, kcd_command, kcd_key, kcd_text, kcd_other, Key
  <2>5. Awake'
    BY <1>1, <2>3, <2>4 DEF Awake
  <2>. QED  BY <2>1, <2>5
<1>6. CASE wc_set \/ wc_get \/ wc_stop \/ wc_tick \/ wc_other
  BY <1>1, <1>6, WCServed
<1>7. CASE set_prio_process
  <2>1. /\ Begun' /\ \A p \in Asked : Served(p)'
        /\ HandledNow("WC")' = HandledNow("WC")
    BY <1>1, <1>7, PRIOServed
  <2>2. Awake'
    BY <1>1, <1>7, <2>1 DEF Awake, set_prio_process
  <2>. QED  BY <2>1, <2>2
<1>8. CASE crt_process \/ type_line \/ uart_key
  BY <1>1, <1>8, UsersServed
<1>9. CASE timer_expire
  BY <1>1, <1>9, TimerServed
<1>10. CASE UNCHANGED vars
  <2>1. Begun'
    BY <1>1, <1>10, BegunStays DEF vars, history
  <2>2. \A p \in Asked : Served(p)'
    BY <1>1, <1>10 DEF vars, history, Served, HandledNow, AskingNow, HandingNow, WantedNow
  <2>3. Awake'
    BY <1>1, <1>10 DEF vars, Awake, HandledNow
  <2>. QED  BY <2>1, <2>2, <2>3
<1>. QED  BY <1>4, <1>5, <1>6, <1>7, <1>8, <1>9, <1>10 DEF Next

\* While the clock is on, its next tick is delayed, in its mailbox or about to be
\* asked for, and there are never more ticks than commands with an accepted time
\* that reached the wall clock (wall_clock_process.c:84-88, 101-106).
THEOREM TicksAreOnTheirWay == Spec => []TickOnItsWay
<1>1. ConsoleInv => TickOnItsWay
  <2> SUFFICES ASSUME ConsoleInv PROVE TickOnItsWay
    OBVIOUS
  <2>1. Typed /\ Begun /\ Served("WC") /\ Awake /\ "WC" \in Asked
    BY DEF ConsoleInv, Asked
  <2>2. ticks_on_their_way = HandledNow("WC")
    BY DEF ticks_on_their_way, HandledNow, Handled, Timed, Delaying
  <2>3. how_often("WC", sets_clock) = WantedNow("WC")
    BY DEF how_often, WantedNow, Wanted, Asks
  <2>4. /\ HandledNow("WC") \in Nat /\ AskingNow("WC") \in Nat
        /\ HandingNow("WC") \in Nat /\ WantedNow("WC") \in Nat
    BY <2>1, ServedCounts DEF Begun
  <2>5. HandledNow("WC") <= WantedNow("WC")
    <3>1. \A h, a, u, w \in Nat : h + a + u <= w => h <= w
      OBVIOUS
    <3>. QED  BY <2>1, <2>4, <3>1 DEF Served
  <2>. QED  BY <2>1, <2>2, <2>3, <2>5 DEF TickOnItsWay, Awake
<1>. QED  BY <1>1, ConsoleInit, ConsoleNext, PTL DEF Spec

\* The processes use no block they do not have.  The set priority process does so
\* only after it was sent a second command that it refuses
\* (set_priority_process.c:58, 83).
THEOREM BlocksAreTheirOwn == Spec => []UsesOnlyItsOwn
<1>1. ConsoleInv => UsesOnlyItsOwn
  <2> SUFFICES ASSUME ConsoleInv PROVE UsesOnlyItsOwn
    OBVIOUS
  <2>1. /\ Typed /\ Begun /\ Served("SET_PRIO") /\ "SET_PRIO" \in Asked
        /\ CommandOK /\ TodoOK
    BY DEF ConsoleInv, Asked, Typed
  <2>2. kcd.buffer_flag /\ todo["KCD"] = << >> => "out" \in DOMAIN hold["KCD"]
    <3>1. << >> # request("out") \o echo
      BY KCDCalls DEF First
    <3>. QED  BY <2>1, <3>1 DEF CommandOK
  <2>3. ASSUME NEW p \in Processes, todo[p] # << >>, Head(todo[p]).op # "request", ~Owns(p)
        PROVE  p = "SET_PRIO" /\ pointer(p) = "out" /\ how_often("SET_PRIO", refused) > 1
    <3>1. NextCall(p, todo[p], DOMAIN hold[p])
      BY <2>1, <2>3, FormNext DEF TodoOK
    <3>2. /\ p = "SET_PRIO" /\ pointer(p) = "out" /\ "out" \notin DOMAIN hold[p]
          /\ todo[p] = error_message \o release("in")
      BY <2>3, <3>1 DEF NextCall, Owns, pointer
    <3>3. HandledNow("SET_PRIO") = 2
      BY <3>2, StartingIs DEF HandledNow, Handled, one_if
    <3>4. how_often("SET_PRIO", refused) = WantedNow("SET_PRIO")
      BY DEF how_often, WantedNow, Wanted, Asks
    <3>5. /\ AskingNow("SET_PRIO") \in Nat
          /\ HandingNow("SET_PRIO") \in Nat /\ WantedNow("SET_PRIO") \in Nat
      BY <2>1, ServedCounts DEF Begun
    <3>6. \A a, u, w \in Nat : 2 + a + u <= w => w > 1
      OBVIOUS
    <3>7. WantedNow("SET_PRIO") > 1
      BY <2>1, <3>3, <3>5, <3>6 DEF Served
    <3>. QED  BY <3>2, <3>4, <3>7
  <2>. QED  BY <2>2, <2>3 DEF UsesOnlyItsOwn
<1>. QED  BY <1>1, ConsoleInit, ConsoleNext, PTL DEF Spec
-----------------------------------------------------------------------------
(* What the decoder makes of the keys.                                         *)

LEMMA SameSeq ==
    ASSUME NEW s, NEW t, IsSeq(s), IsSeq(t), Len(s) = Len(t),
           \A i \in 1 .. Len(s) : s[i] = t[i]
    PROVE  s = t
<1> DEFINE S == {s[i] : i \in DOMAIN s} \cup {t[i] : i \in DOMAIN t}
<1>1. s \in Seq(S) /\ t \in Seq(S)
  BY DEF IsSeq
<1> HIDE DEF S
<1>. QED  BY <1>1, SeqEqual

LEMMA SubSeqIs ==
    ASSUME NEW s, NEW a \in Int, NEW b \in Int
    PROVE  /\ IsSeq(SubSeq(s, a, b))
           /\ Len(SubSeq(s, a, b)) = IF a <= b THEN b - a + 1 ELSE 0
           /\ \A i \in 1 .. b - a + 1 : SubSeq(s, a, b)[i] = s[a + i - 1]
<1> DEFINE S == {s[i] : i \in a .. b}
           r == SubSeq(s, a, b)
<1>1. /\ r \in Seq(S) /\ Len(r) = IF a <= b THEN b - a + 1 ELSE 0
      /\ \A i \in 1 .. b - a + 1 : r[i] = s[a + i - 1]
  <2>1. \A i \in a .. b : s[i] \in S
    OBVIOUS
  <2> HIDE DEF S
  <2>. QED  BY <2>1, SubSeqProperties
<1>2. r \in Seq({r[i] : i \in DOMAIN r})
  <2> HIDE DEF r
  <2>. QED  BY <1>1
<1>. QED  BY <1>1, <1>2 DEF IsSeq

LEMMA MadeSeq ==
    ASSUME NEW n \in Nat, NEW s, DOMAIN s = 1 .. n, s = [i \in 1 .. n |-> s[i]]
    PROVE  IsSeq(s) /\ Len(s) = n
<1> DEFINE S == {s[i] : i \in DOMAIN s}
<1>1. s \in [1 .. n -> S]
  OBVIOUS
<1> HIDE DEF S
<1>2. s \in Seq(S) /\ Len(s) = n
  BY <1>1
<1>. QED  BY <1>2 DEF IsSeq, S

LEMMA LeastOf ==
    ASSUME NEW S \in SUBSET Nat, S # {}
    PROVE  \E m \in S : \A y \in S : m <= y
<1>1. PICK m \in S : \A y \in S : <<y, m>> \notin OpToRel(<, Nat)
  BY NatLessThanWellFounded, WFMin
<1>2. \A y \in S : ~(y < m)
  BY <1>1 DEF OpToRel
<1>. QED  BY <1>2

LEMMA MinIs ==
    ASSUME NEW S \in SUBSET Int, NEW m \in S, \A y \in S : m <= y
    PROVE  Min(S) = m
<1>1. \A x \in S : (\A y \in S : x =< y) => x = m
  OBVIOUS
<1>. QED  BY <1>1 DEF Min

\* The keys '%' of the line that is being typed.
Open(keys) ==
    {j \in 1 .. Len(keys) : keys[j] = "%" /\ \A i \in j .. Len(keys) : keys[i] # CR}

LEMMA LineGrows ==
    ASSUME NEW keys, IsSeq(keys), NEW k
    PROVE  LET new == Append(keys, k)
               n == Len(keys)
           IN  /\ \A e \in 1 .. n : percents(new, e) = percents(keys, e)
               /\ k = CR => percents(new, n + 1) = Open(keys) /\ Open(new) = {}
               /\ k # CR /\ k # "%" => Open(new) = Open(keys)
               /\ k = "%" => Open(new) = Open(keys) \cup {n + 1}
<1> DEFINE new == Append(keys, k)
           n == Len(keys)
<1>1. /\ n \in Nat /\ IsSeq(new) /\ Len(new) = n + 1
      /\ \A i \in 1 .. n : new[i] = keys[i]
      /\ new[n + 1] = k
  BY SeqFacts, AppendIs
<1> HIDE DEF new, n
<1>2. CR # "%"
  BY DEF CR
<1>3. \A e \in 1 .. n : percents(new, e) = percents(keys, e)
  <2> SUFFICES ASSUME NEW e \in 1 .. n PROVE percents(new, e) = percents(keys, e)
    OBVIOUS
  <2>1. \A j \in 1 .. e : j \in 1 .. n /\ \A i \in j .. e : i \in 1 .. n
    BY <1>1
  <2>. QED  BY <1>1, <2>1 DEF percents
<1>4. \A i \in 1 .. n + 1 : i \in 1 .. n \/ i = n + 1
  BY <1>1
<1>5. ASSUME k = CR PROVE percents(new, n + 1) = Open(keys) /\ Open(new) = {}
  <2>1. \A j \in 1 .. n + 1 : j \in percents(new, n + 1) <=> j \in Open(keys)
    <3> SUFFICES ASSUME NEW j \in 1 .. n + 1
                 PROVE  j \in percents(new, n + 1) <=> j \in Open(keys)
      OBVIOUS
    <3>1. CASE j = n + 1
      <4>1. j \notin Open(keys)
        BY <1>1, <3>1 DEF Open, n
      <4>. QED  BY <1>1, <1>2, <1>5, <3>1, <4>1 DEF percents
    <3>2. CASE j \in 1 .. n
      <4>1. j \in percents(new, n + 1) <=>
              new[j] = "%" /\ \A i \in j .. n + 1 : new[i] = CR => i = n + 1
        BY DEF percents
      <4>2. j \in Open(keys) <=> keys[j] = "%" /\ \A i \in j .. n : keys[i] # CR
        BY <3>2 DEF Open, n
      <4>3. \A i \in j .. n + 1 : i = n + 1 \/ i \in j .. n
        BY <1>1
      <4>4. \A i \in j .. n : i # n + 1 /\ i \in j .. n + 1 /\ i \in 1 .. n
        BY <1>1, <3>2
      <4>. QED  BY <1>1, <3>2, <4>1, <4>2, <4>3, <4>4
    <3>. QED  BY <1>4, <3>1, <3>2
  <2>2. Open(keys) \subseteq 1 .. n + 1 /\ percents(new, n + 1) \subseteq 1 .. n + 1
    BY <1>1 DEF Open, percents, n
  <2>3. \A j \in 1 .. n + 1 : n + 1 \in j .. n + 1
    BY <1>1
  <2>. QED  BY <1>1, <1>5, <2>1, <2>2, <2>3 DEF Open
<1>6. ASSUME k # CR, NEW j \in 1 .. n PROVE j \in Open(new) <=> j \in Open(keys)
  <2>1. j \in Open(new) <=> new[j] = "%" /\ \A i \in j .. n + 1 : new[i] # CR
    BY <1>1 DEF Open
  <2>2. j \in Open(keys) <=> keys[j] = "%" /\ \A i \in j .. n : keys[i] # CR
    BY DEF Open, n
  <2>3. \A i \in j .. n + 1 : i = n + 1 \/ i \in j .. n
    BY <1>1
  <2>4. \A i \in j .. n : i \in j .. n + 1 /\ i \in 1 .. n
    BY <1>1
  <2>. QED  BY <1>1, <1>6, <2>1, <2>2, <2>3, <2>4
<1>7. Open(new) \subseteq 1 .. n + 1 /\ Open(keys) \subseteq 1 .. n /\ n + 1 \notin 1 .. n
  BY <1>1 DEF Open, n
<1>8. ASSUME k # CR PROVE n + 1 \in Open(new) <=> k = "%"
  <2>1. n + 1 \in Open(new) <=> new[n + 1] = "%" /\ \A i \in n + 1 .. n + 1 : new[i] # CR
    BY <1>1 DEF Open
  <2>. QED  BY <1>1, <1>8, <2>1
<1>9. k # CR /\ k # "%" => Open(new) = Open(keys)
  BY <1>4, <1>6, <1>7, <1>8
<1>10. k = "%" => Open(new) = Open(keys) \cup {n + 1}
  BY <1>2, <1>4, <1>6, <1>7, <1>8
<1>. QED  BY <1>3, <1>5, <1>9, <1>10 DEF new, n

LEMMA PairMin ==
    ASSUME NEW a \in Int, NEW b \in Int
    PROVE  Min({a, b}) = IF a <= b THEN a ELSE b
<1>1. CASE a <= b
  <2>1. \A y \in {a, b} : a <= y
    BY <1>1
  <2>. QED  BY <1>1, <2>1, MinIs
<1>2. CASE ~(a <= b)
  <2>1. \A y \in {a, b} : b <= y
    BY <1>2
  <2>. QED  BY <1>2, <2>1, MinIs
<1>. QED  BY <1>1, <1>2

\* A key more leaves the lines that are finished.
LEMMA EndsGrow ==
    ASSUME NEW keys, IsSeq(keys), NEW k
    PROVE  LET new == Append(keys, k)
               n == Len(keys)
           IN  /\ ends(keys) \subseteq 1 .. n
               /\ ends(new) = IF k = CR /\ Open(keys) # {} THEN ends(keys) \cup {n + 1}
                              ELSE ends(keys)
               /\ \A e \in ends(keys) : command_at(new, e) = command_at(keys, e)
<1> DEFINE new == Append(keys, k)
           n == Len(keys)
<1>1. /\ n \in Nat /\ IsSeq(new) /\ Len(new) = n + 1 /\ DOMAIN keys = 1 .. n
      /\ DOMAIN new = 1 .. n + 1
      /\ \A i \in 1 .. n : new[i] = keys[i]
      /\ new[n + 1] = k
  BY SeqFacts, AppendIs
<1>2. /\ \A e \in 1 .. n : percents(new, e) = percents(keys, e)
      /\ k = CR => percents(new, n + 1) = Open(keys)
  BY LineGrows
<1> HIDE DEF new, n
<1>3. ends(keys) \subseteq 1 .. n
  BY <1>1 DEF ends
<1>4. ends(new) = IF k = CR /\ Open(keys) # {} THEN ends(keys) \cup {n + 1} ELSE ends(keys)
  <2>1. \A i \in 1 .. n + 1 : i \in 1 .. n \/ i = n + 1
    BY <1>1
  <2>2. \A e \in 1 .. n : e \in ends(new) <=> e \in ends(keys)
    BY <1>1, <1>2 DEF ends
  <2>3. n + 1 \in ends(new) <=> k = CR /\ Open(keys) # {}
    BY <1>1, <1>2 DEF ends
  <2>4. ends(new) \subseteq 1 .. n + 1
    BY <1>1 DEF ends
  <2>. QED  BY <1>3, <2>1, <2>2, <2>3, <2>4
<1>5. ASSUME NEW e \in ends(keys) PROVE command_at(new, e) = command_at(keys, e)
  <2> DEFINE P == percents(keys, e)
  <2>1. e \in 1 .. n /\ P # {} /\ P \in SUBSET (1 .. e) /\ percents(new, e) = P
    BY <1>2, <1>3 DEF ends, percents
  <2> HIDE DEF P
  <2>2. PICK m \in P : \A y \in P : m <= y
    <3>1. P \in SUBSET Nat
      BY <1>1, <2>1
    <3>. QED  BY <2>1, <3>1, LeastOf
  <2>3. Min(P) = m /\ m \in 1 .. e /\ m \in Int
    <3>1. P \in SUBSET Int
      BY <1>1, <2>1
    <3>. QED  BY <1>1, <2>1, <2>2, <3>1, MinIs
  <2> DEFINE b == Min({e - 1, m + MAX_COMMAND_SIZE})
  <2>4. b \in Int /\ b <= e - 1
    <3>1. e - 1 \in Int /\ m + MAX_COMMAND_SIZE \in Int
      BY <1>1, <2>1, <2>3, ConsoleAssumption
    <3>2. b = IF e - 1 <= m + MAX_COMMAND_SIZE THEN e - 1 ELSE m + MAX_COMMAND_SIZE
      BY <3>1, PairMin
    <3> HIDE DEF b
    <3>. QED  BY <3>1, <3>2
  <2>5. /\ command_at(new, e) = SubSeq(new, m + 1, b)
        /\ command_at(keys, e) = SubSeq(keys, m + 1, b)
    BY <2>1, <2>3 DEF command_at, P
  <2> HIDE DEF b
  <2>6. SubSeq(new, m + 1, b) = SubSeq(keys, m + 1, b)
    <3> DEFINE s == SubSeq(new, m + 1, b)
               t == SubSeq(keys, m + 1, b)
    <3>1. m + 1 \in Int
      BY <2>3
    <3>2. /\ IsSeq(s) /\ Len(s) = (IF m + 1 <= b THEN b - (m + 1) + 1 ELSE 0)
          /\ \A i \in 1 .. b - (m + 1) + 1 : s[i] = new[(m + 1) + i - 1]
      BY <2>4, <3>1, SubSeqIs
    <3>3. /\ IsSeq(t) /\ Len(t) = (IF m + 1 <= b THEN b - (m + 1) + 1 ELSE 0)
          /\ \A i \in 1 .. b - (m + 1) + 1 : t[i] = keys[(m + 1) + i - 1]
      BY <2>4, <3>1, SubSeqIs
    <3> HIDE DEF s, t
    <3>4. \A i \in 1 .. Len(s) : i \in 1 .. b - (m + 1) + 1
      BY <2>3, <2>4, <3>2
    <3>5. \A i \in 1 .. b - (m + 1) + 1 : (m + 1) + i - 1 \in 1 .. n
      BY <1>1, <2>1, <2>3, <2>4
    <3>6. \A i \in 1 .. Len(s) : s[i] = t[i]
      BY <1>1, <3>2, <3>3, <3>4, <3>5
    <3>7. s = t
      BY <3>2, <3>3, <3>6, SameSeq
    <3>. QED  BY <3>7 DEF s, t
  <2>. QED  BY <2>5, <2>6
<1>. QED  BY <1>3, <1>4, <1>5 DEF new, n

\* The number of a finished line, and the lines with number n.
Rank(keys, e) == Cardinality({d \in ends(keys) : d <= e})
Nth(keys, n) == {e \in ends(keys) : Rank(keys, e) = n}
Ranked(keys) == \A n \in 1 .. Cardinality(ends(keys)) : Nth(keys, n) # {}

LEMMA CommandsInIs ==
    \A keys : CommandsIn(keys) = [n \in 1 .. Cardinality(ends(keys)) |->
                                    command_at(keys, CHOOSE e \in Nth(keys, n) : TRUE)]
  BY DEF CommandsIn, Nth, Rank

LEMMA CommandsAreSeq ==
    ASSUME NEW keys, IsSeq(keys)
    PROVE  IsSeq(CommandsIn(keys))
<1> DEFINE C == Cardinality(ends(keys))
           s == CommandsIn(keys)
<1>1. C \in Nat
  <2>1. Len(keys) \in Nat /\ ends(keys) \in SUBSET (1 .. Len(keys))
    BY SeqFacts DEF ends
  <2>. QED  BY <2>1, CountIsNat
<1>2. s = [n \in 1 .. C |-> command_at(keys, CHOOSE e \in Nth(keys, n) : TRUE)]
  BY CommandsInIs
<1> HIDE DEF C, s
<1>3. DOMAIN s = 1 .. C /\ s = [n \in 1 .. C |-> s[n]]
  BY <1>2
<1>4. IsSeq(s)
  BY <1>1, <1>3, MadeSeq
<1>. QED  BY <1>4 DEF s

\* Nothing is finished.
LEMMA CommandsStay ==
    ASSUME NEW keys, IsSeq(keys), NEW k, ~(k = CR /\ Open(keys) # {}), Ranked(keys)
    PROVE  /\ Ranked(Append(keys, k))
           /\ CommandsIn(Append(keys, k)) = CommandsIn(keys)
<1> DEFINE new == Append(keys, k)
<1>1. /\ ends(new) = ends(keys)
      /\ \A e \in ends(keys) : command_at(new, e) = command_at(keys, e)
  BY EndsGrow
<1> HIDE DEF new
<1>2. \A n : Nth(new, n) = Nth(keys, n)
  BY <1>1 DEF Nth, Rank
<1>3. Ranked(new)
  BY <1>1, <1>2 DEF Ranked
<1>4. CommandsIn(new) = CommandsIn(keys)
  <2>1. ASSUME NEW n \in 1 .. Cardinality(ends(keys))
        PROVE  command_at(new, CHOOSE e \in Nth(new, n) : TRUE)
                 = command_at(keys, CHOOSE e \in Nth(keys, n) : TRUE)
    <3> DEFINE c == CHOOSE e \in Nth(keys, n) : TRUE
    <3>1. c \in Nth(keys, n)
      BY DEF Ranked
    <3>2. c \in ends(keys)
      BY <3>1 DEF Nth
    <3>3. (CHOOSE e \in Nth(new, n) : TRUE) = c
      BY <1>2
    <3>4. command_at(new, c) = command_at(keys, c)
      <4> HIDE DEF c
      <4>. QED  BY <1>1, <3>2
    <3> SUFFICES command_at(new, CHOOSE e \in Nth(new, n) : TRUE) = command_at(keys, c)
      OBVIOUS
    <3>. QED  BY <3>3, <3>4
  <2>. QED  BY <1>1, <2>1, CommandsInIs
<1>. QED  BY <1>3, <1>4 DEF new

\* A line is finished: what was open becomes one command more.
LEMMA CommandsGrow ==
    ASSUME NEW keys, IsSeq(keys), Open(keys) # {}, Ranked(keys)
    PROVE  LET new == Append(keys, CR)
           IN  /\ Ranked(new)
               /\ CommandsIn(new) = Append(CommandsIn(keys), command_at(new, Len(keys) + 1))
<1> DEFINE new == Append(keys, CR)
           n == Len(keys)
           E == ends(keys)
           C == Cardinality(E)
<1>1. /\ n \in Nat /\ E \subseteq 1 .. n /\ ends(new) = E \cup {n + 1}
      /\ \A e \in E : command_at(new, e) = command_at(keys, e)
  BY EndsGrow, SeqFacts
<1> HIDE DEF new, n, E
<1>2. /\ IsFiniteSet(E) /\ C \in Nat /\ n + 1 \notin E
      /\ Cardinality(ends(new)) = C + 1
  <2>1. IsFiniteSet(E)
    <3>1. IsFiniteSet(1 .. n)
      BY <1>1, FS_Interval
    <3>. QED  BY <1>1, <3>1, FS_Subset
  <2>2. n + 1 \notin E
    BY <1>1
  <2>. QED  BY <1>1, <2>1, <2>2, FS_AddElement, FS_CardinalityType
<1>3. \A e \in E : Rank(new, e) = Rank(keys, e) /\ Rank(keys, e) \in Nat /\ Rank(keys, e) <= C
  <2> SUFFICES ASSUME NEW e \in E
               PROVE  Rank(new, e) = Rank(keys, e) /\ Rank(keys, e) \in Nat
                      /\ Rank(keys, e) <= C
    OBVIOUS
  <2> DEFINE S == {d \in E : d <= e}
  <2>1. {d \in ends(new) : d <= e} = S
    BY <1>1
  <2>2. Cardinality(S) \in Nat /\ Cardinality(S) <= C
    BY <1>2, FS_Subset, FS_CardinalityType
  <2>. QED  BY <2>1, <2>2 DEF Rank, E
<1>4. Rank(new, n + 1) = C + 1
  <2>1. \A d \in ends(new) : d <= n + 1
    <3>1. \A d \in 1 .. n : d <= n + 1
      BY <1>1
    <3>2. n + 1 <= n + 1
      BY <1>1
    <3>. QED  BY <1>1, <3>1, <3>2
  <2>2. {d \in ends(new) : d <= n + 1} = ends(new)
    BY <2>1
  <2>. QED  BY <1>2, <2>2 DEF Rank
<1>5. \A j \in 1 .. C : Nth(new, j) = Nth(keys, j) /\ Nth(keys, j) # {}
  <2> SUFFICES ASSUME NEW j \in 1 .. C
               PROVE  Nth(new, j) = Nth(keys, j) /\ Nth(keys, j) # {}
    OBVIOUS
  <2>1. j # C + 1
    BY <1>2
  <2>2. Nth(keys, j) # {}
    BY DEF Ranked, E
  <2>3. \A e \in ends(new) : e \in Nth(new, j) <=> e \in Nth(keys, j)
    <3>1. n + 1 \notin Nth(new, j) /\ n + 1 \notin Nth(keys, j)
      BY <1>2, <1>4, <2>1 DEF Nth, E
    <3>2. \A e \in E : e \in Nth(new, j) <=> e \in Nth(keys, j)
      BY <1>1, <1>3 DEF Nth, E
    <3>. QED  BY <1>1, <3>1, <3>2
  <2>4. Nth(new, j) \subseteq ends(new) /\ Nth(keys, j) \subseteq ends(new)
    BY <1>1 DEF Nth, E
  <2>. QED  BY <2>2, <2>3, <2>4
<1>6. Nth(new, C + 1) = {n + 1}
  <2>1. \A e \in E : e \notin Nth(new, C + 1)
    BY <1>2, <1>3 DEF Nth
  <2>2. n + 1 \in Nth(new, C + 1)
    BY <1>1, <1>4 DEF Nth
  <2>3. Nth(new, C + 1) \subseteq E \cup {n + 1}
    BY <1>1 DEF Nth
  <2>. QED  BY <2>1, <2>2, <2>3
<1>7. \A j \in 1 .. C + 1 : j \in 1 .. C \/ j = C + 1
  BY <1>2
<1>8. Ranked(new)
  BY <1>2, <1>5, <1>6, <1>7 DEF Ranked
<1> DEFINE s == CommandsIn(new)
           t == CommandsIn(keys)
           x == command_at(new, n + 1)
<1>9. /\ IsSeq(s) /\ Len(s) = C + 1 /\ DOMAIN s = 1 .. C + 1
      /\ \A j \in 1 .. C + 1 : s[j] = command_at(new, CHOOSE e \in Nth(new, j) : TRUE)
  <2>1. s = [j \in 1 .. C + 1 |-> command_at(new, CHOOSE e \in Nth(new, j) : TRUE)]
    BY <1>2, CommandsInIs
  <2> HIDE DEF s
  <2>2. DOMAIN s = 1 .. C + 1 /\ s = [j \in 1 .. C + 1 |-> s[j]] /\ C + 1 \in Nat
    BY <1>2, <2>1
  <2> HIDE DEF C
  <2>3. IsSeq(s) /\ Len(s) = C + 1
    BY <2>2, MadeSeq
  <2>. QED  BY <2>1, <2>2, <2>3
<1>10. /\ IsSeq(t) /\ Len(t) = C /\ DOMAIN t = 1 .. C
       /\ \A j \in 1 .. C : t[j] = command_at(keys, CHOOSE e \in Nth(keys, j) : TRUE)
  <2>1. t = [j \in 1 .. C |-> command_at(keys, CHOOSE e \in Nth(keys, j) : TRUE)]
    BY CommandsInIs DEF E
  <2> HIDE DEF t
  <2>2. DOMAIN t = 1 .. C /\ t = [j \in 1 .. C |-> t[j]]
    BY <2>1
  <2>3. IsSeq(t) /\ Len(t) = C
    BY <1>2, <2>2, MadeSeq
  <2>. QED  BY <2>1, <2>2, <2>3
<1>11. \A j \in 1 .. C : s[j] = t[j]
  <2> SUFFICES ASSUME NEW j \in 1 .. C PROVE s[j] = t[j]
    OBVIOUS
  <2> DEFINE c == CHOOSE e \in Nth(keys, j) : TRUE
  <2>1. c \in E
    <3>1. c \in Nth(keys, j)
      BY <1>5
    <3>. QED  BY <3>1 DEF Nth, E
  <2>2. (CHOOSE e \in Nth(new, j) : TRUE) = c
    BY <1>5
  <2>3. s[j] = command_at(new, CHOOSE e \in Nth(new, j) : TRUE)
    <3>1. j \in 1 .. C + 1
      BY <1>2
    <3> HIDE DEF s, C
    <3>. QED  BY <1>9, <3>1
  <2>4. t[j] = command_at(keys, c)
    <3> HIDE DEF t, C
    <3>. QED  BY <1>10
  <2>5. command_at(new, c) = command_at(keys, c)
    <3> HIDE DEF c
    <3>. QED  BY <1>1, <2>1
  <2> SUFFICES command_at(new, CHOOSE e \in Nth(new, j) : TRUE) = command_at(keys, c)
    BY <2>3, <2>4
  <2>. QED  BY <2>2, <2>5
<1>12. s[C + 1] = x
  <2>1. (CHOOSE e \in Nth(new, C + 1) : TRUE) = n + 1
    BY <1>6
  <2>2. C + 1 \in 1 .. C + 1
    BY <1>2
  <2>3. s[C + 1] = command_at(new, CHOOSE e \in Nth(new, C + 1) : TRUE)
    <3> HIDE DEF s, C
    <3>. QED  BY <1>9, <2>2
  <2>. QED  BY <2>1, <2>3
<1> HIDE DEF s, t, x, C
<1>13. s = Append(t, x)
  <2>1. /\ IsSeq(Append(t, x)) /\ Len(Append(t, x)) = C + 1
        /\ \A j \in 1 .. C : Append(t, x)[j] = t[j]
        /\ Append(t, x)[C + 1] = x
    BY <1>10, AppendIs
  <2>2. \A j \in 1 .. Len(s) : s[j] = Append(t, x)[j]
    BY <1>7, <1>9, <1>11, <1>12, <2>1
  <2>. QED  BY <1>9, <2>1, <2>2, SameSeq
<1>. QED  BY <1>8, <1>13 DEF s, t, x, new, n

\* The first i cells of data are the open line from its first '%' on, as far as
\* it fits.
Copying(keys, i, data) ==
    \E m \in Open(keys) :
       /\ \A y \in Open(keys) : m <= y
       /\ i = IF Len(keys) - m <= MAX_COMMAND_SIZE THEN Len(keys) - m ELSE MAX_COMMAND_SIZE
       /\ \A j \in Nat : j < i => data[j] = keys[m + 1 + j]

LEMMA CopyStarts ==
    ASSUME NEW keys, IsSeq(keys), Open(keys) = {}, NEW data
    PROVE  Copying(Append(keys, "%"), 0, data)
<1> DEFINE new == Append(keys, "%")
           n == Len(keys)
<1>1. n \in Nat /\ Len(new) = n + 1 /\ Open(new) = {n + 1} /\ MAX_COMMAND_SIZE \in Nat
  BY SeqFacts, AppendIs, LineGrows, ConsoleAssumption
<1> HIDE DEF new, n
<1>2. /\ n + 1 <= n + 1 /\ (n + 1) - (n + 1) = 0 /\ 0 <= MAX_COMMAND_SIZE
      /\ \A j \in Nat : ~(j < 0)
  BY <1>1
<1>3. \E m \in Open(new) :
         /\ \A y \in Open(new) : m <= y
         /\ 0 = IF Len(new) - m <= MAX_COMMAND_SIZE THEN Len(new) - m ELSE MAX_COMMAND_SIZE
         /\ \A j \in Nat : j < 0 => data[j] = new[m + 1 + j]
  BY <1>1, <1>2
<1>. QED  BY <1>3 DEF Copying, new

\* Another key, written behind the others or left out.
LEMMA CopyGoesOn ==
    ASSUME NEW keys, IsSeq(keys), NEW k, k # CR, NEW i \in Nat, NEW data, NEW more,
           Copying(keys, i, data),
           i < MAX_COMMAND_SIZE => more[i] = k /\ \A j \in Nat : j < i => more[j] = data[j],
           ~(i < MAX_COMMAND_SIZE) => more = data
    PROVE  Copying(Append(keys, k), IF i < MAX_COMMAND_SIZE THEN i + 1 ELSE i, more)
<1> DEFINE new == Append(keys, k)
           n == Len(keys)
           i2 == IF i < MAX_COMMAND_SIZE THEN i + 1 ELSE i
<1>1. /\ n \in Nat /\ Len(new) = n + 1 /\ MAX_COMMAND_SIZE \in Nat
      /\ \A j \in 1 .. n : new[j] = keys[j]
      /\ new[n + 1] = k
  BY SeqFacts, AppendIs, ConsoleAssumption
<1>2. Open(new) = Open(keys) \/ Open(new) = Open(keys) \cup {n + 1}
  BY LineGrows
<1>3. PICK m \in Open(keys) :
         /\ \A y \in Open(keys) : m <= y
         /\ i = IF n - m <= MAX_COMMAND_SIZE THEN n - m ELSE MAX_COMMAND_SIZE
         /\ \A j \in Nat : j < i => data[j] = keys[m + 1 + j]
  BY DEF Copying
<1>4. m \in 1 .. n
  BY DEF Open, n
<1> HIDE DEF new, n
<1>5. m \in Open(new) /\ \A y \in Open(new) : m <= y
  <2>1. m <= n + 1
    BY <1>1, <1>4
  <2>. QED  BY <1>2, <1>3, <2>1
<1>6. i2 = IF (n + 1) - m <= MAX_COMMAND_SIZE THEN (n + 1) - m ELSE MAX_COMMAND_SIZE
  BY <1>1, <1>3, <1>4
<1>7. ASSUME NEW j \in Nat, j < i2 PROVE more[j] = new[m + 1 + j]
  <2>1. CASE j < i
    <3>1. m + 1 + j \in 1 .. n
      BY <1>1, <1>3, <1>4, <2>1
    <3>2. more[j] = data[j]
      BY <2>1
    <3>. QED  BY <1>1, <1>3, <2>1, <3>1, <3>2
  <2>2. CASE ~(j < i)
    <3>1. i < MAX_COMMAND_SIZE /\ j = i
      BY <1>7, <2>2
    <3>2. m + 1 + j = n + 1
      BY <1>1, <1>3, <1>4, <3>1
    <3>. QED  BY <1>1, <3>1, <3>2
  <2>. QED  BY <2>1, <2>2
<1> HIDE DEF i2
<1>8. Copying(new, i2, more)
  BY <1>1, <1>5, <1>6, <1>7 DEF Copying
<1>. QED  BY <1>8 DEF new, i2

\* The end of the line: what was copied is the command.
LEMMA CopyIsCommand ==
    ASSUME NEW keys, IsSeq(keys), NEW i \in Nat, NEW data, Copying(keys, i, data)
    PROVE  /\ Open(keys) # {}
           /\ command_at(Append(keys, CR), Len(keys) + 1) = [j \in 1 .. i |-> data[j - 1]]
<1> DEFINE new == Append(keys, CR)
           n == Len(keys)
           c == [j \in 1 .. i |-> data[j - 1]]
<1>1. /\ n \in Nat /\ Len(new) = n + 1 /\ MAX_COMMAND_SIZE \in Nat
      /\ \A j \in 1 .. n : new[j] = keys[j]
  BY SeqFacts, AppendIs, ConsoleAssumption
<1>2. percents(new, n + 1) = Open(keys)
  BY LineGrows
<1>3. PICK m \in Open(keys) :
         /\ \A y \in Open(keys) : m <= y
         /\ i = IF n - m <= MAX_COMMAND_SIZE THEN n - m ELSE MAX_COMMAND_SIZE
         /\ \A j \in Nat : j < i => data[j] = keys[m + 1 + j]
  BY DEF Copying
<1>4. m \in 1 .. n /\ Open(keys) \subseteq 1 .. n
  BY DEF Open, n
<1> HIDE DEF new, n
<1>5. Min(Open(keys)) = m
  <2>1. Open(keys) \in SUBSET Int
    BY <1>1, <1>4
  <2>. QED  BY <1>3, <2>1, MinIs
<1>6. Min({(n + 1) - 1, m + MAX_COMMAND_SIZE}) = m + i
  <2>1. (n + 1) - 1 \in Int /\ m + MAX_COMMAND_SIZE \in Int
    BY <1>1, <1>4
  <2>2. Min({(n + 1) - 1, m + MAX_COMMAND_SIZE})
          = IF (n + 1) - 1 <= m + MAX_COMMAND_SIZE THEN (n + 1) - 1 ELSE m + MAX_COMMAND_SIZE
    BY <2>1, PairMin
  <2>3. (IF (n + 1) - 1 <= m + MAX_COMMAND_SIZE THEN (n + 1) - 1 ELSE m + MAX_COMMAND_SIZE)
          = m + i
    BY <1>1, <1>3, <1>4
  <2>. QED  BY <2>2, <2>3
<1>7. command_at(new, n + 1) = SubSeq(new, m + 1, m + i)
  BY <1>2, <1>5, <1>6 DEF command_at
<1> DEFINE s == SubSeq(new, m + 1, m + i)
<1>8. /\ IsSeq(s) /\ Len(s) = (IF m + 1 <= m + i THEN (m + i) - (m + 1) + 1 ELSE 0)
      /\ \A j \in 1 .. (m + i) - (m + 1) + 1 : s[j] = new[(m + 1) + j - 1]
  <2>1. m + 1 \in Int /\ m + i \in Int
    BY <1>4
  <2>. QED  BY <2>1, SubSeqIs
<1> HIDE DEF s
<1>9. Len(s) = i
  BY <1>4, <1>8
<1>10. /\ IsSeq(c) /\ Len(c) = i /\ \A j \in 1 .. i : c[j] = data[j - 1]
  <2>1. DOMAIN c = 1 .. i /\ c = [j \in 1 .. i |-> c[j]]
    OBVIOUS
  <2>2. \A j \in 1 .. i : c[j] = data[j - 1]
    OBVIOUS
  <2> HIDE DEF c
  <2>. QED  BY <2>1, <2>2, MadeSeq
<1> HIDE DEF c
<1>11. \A j \in 1 .. i : s[j] = c[j]
  <2> SUFFICES ASSUME NEW j \in 1 .. i PROVE s[j] = c[j]
    OBVIOUS
  <2>1. /\ j \in 1 .. (m + i) - (m + 1) + 1 /\ (m + 1) + j - 1 = m + 1 + (j - 1)
        /\ j - 1 \in Nat /\ j - 1 < i
    BY <1>4
  <2>2. m + 1 + (j - 1) \in 1 .. n
    BY <1>1, <1>3, <1>4
  <2>3. s[j] = new[m + 1 + (j - 1)]
    BY <1>8, <2>1
  <2>4. data[j - 1] = keys[m + 1 + (j - 1)]
    BY <1>3, <2>1
  <2>. QED  BY <1>1, <1>10, <2>2, <2>3, <2>4
<1>12. s = c
  BY <1>8, <1>9, <1>10, <1>11, SameSeq
<1>. QED  BY <1>3, <1>7, <1>12 DEF s, c, new, n

\* The commands sent are those of the finished lines, each written over what its
\* block held, and the one that is filled is the line that is not finished.
WrittenOver(sent, typed) ==
    /\ Len(sent) = Len(typed)
    /\ \A n \in DOMAIN sent : \E x \in Stale : typed_over(typed[n], x, sent[n].data)

Decoding ==
    /\ IsSeq(decoded) /\ Ranked(decoded) /\ WrittenOver(commands, CommandsIn(decoded))
    /\ ~kcd.buffer_flag => Open(decoded) = {}
    /\ kcd.buffer_flag => Copying(decoded, kcd.i, hold["KCD"]["out"].data)

\* The keys come first, then what the block held.
LEMMA TypedOver ==
    ASSUME NEW data, NEW x, NEW n \in Nat,
           \A j \in Cells : j >= n => data[j] = x.data[j]
    PROVE  typed_over([j \in 1 .. n |-> data[j - 1]], x, data)
<1> DEFINE w == [j \in 1 .. n |-> data[j - 1]]
<1>1. Len(w) = n
  <2>1. DOMAIN w = 1 .. n /\ w = [j \in 1 .. n |-> w[j]]
    OBVIOUS
  <2> HIDE DEF w
  <2>. QED  BY <2>1, MadeSeq
<1>2. \A j \in 1 .. n : w[j] = data[j - 1]
  OBVIOUS
<1> HIDE DEF w
<1>3. ASSUME NEW j \in Cells
      PROVE  data[j] = IF j < Len(w) THEN w[j + 1] ELSE x.data[j]
  <2>1. j \in Nat
    BY DEF Cells
  <2>2. CASE j < n
    <3>1. j + 1 \in 1 .. n /\ (j + 1) - 1 = j
      BY <2>1, <2>2
    <3>2. w[j + 1] = data[(j + 1) - 1]
      BY <1>2, <3>1
    <3>. QED  BY <1>1, <2>2, <3>1, <3>2
  <2>3. CASE ~(j < n)
    BY <1>1, <2>1, <2>3
  <2>. QED  BY <2>2, <2>3
<1>4. typed_over(w, x, data)
  BY <1>3 DEF typed_over
<1>. QED  BY <1>4 DEF w

\* One command more.
LEMMA CommandWritten ==
    ASSUME NEW sent, IsSeq(sent), NEW typed, IsSeq(typed), WrittenOver(sent, typed),
           NEW c, NEW w, NEW x \in Stale, typed_over(w, x, c.data)
    PROVE  WrittenOver(Append(sent, c), Append(typed, w))
<1> DEFINE l == Len(sent)
           more == Append(sent, c)
           new == Append(typed, w)
<1>1. /\ l \in Nat /\ DOMAIN sent = 1 .. l /\ Len(more) = l + 1
      /\ DOMAIN more = 1 .. l + 1
      /\ \A n \in 1 .. l : more[n] = sent[n]
      /\ more[l + 1] = c
  BY SeqFacts, AppendIs
<1>2. /\ Len(typed) = l /\ Len(new) = l + 1 /\ new[l + 1] = w
      /\ \A n \in 1 .. l : new[n] = typed[n]
  BY AppendIs DEF WrittenOver
<1> HIDE DEF l, more, new
<1>3. ASSUME NEW n \in 1 .. l + 1
      PROVE  \E y \in Stale : typed_over(new[n], y, more[n].data)
  <2>1. CASE n = l + 1
    BY <1>1, <1>2, <2>1
  <2>2. CASE n # l + 1
    <3>1. n \in 1 .. l
      BY <1>1, <2>2
    <3>2. \E y \in Stale : typed_over(typed[n], y, sent[n].data)
      BY <1>1, <3>1 DEF WrittenOver
    <3>. QED  BY <1>1, <1>2, <3>1, <3>2
  <2>. QED  BY <2>1, <2>2
<1>4. WrittenOver(more, new)
  BY <1>1, <1>2, <1>3 DEF WrittenOver
<1>. QED  BY <1>4 DEF more, new

LEMMA NothingDecoded == Init => Decoding
<1> SUFFICES ASSUME Init PROVE Decoding
  OBVIOUS
<1>1. decoded = << >> /\ commands = << >> /\ ~kcd.buffer_flag
  BY DEF Init
<1>2. Open(<< >>) = {} /\ ends(<< >>) = {} /\ Cardinality({}) = 0
  BY FS_EmptySet DEF Open, ends
<1>3. CommandsIn(<< >>) = << >>
  <2> DEFINE s == CommandsIn(<< >>)
  <2>1. s = [n \in 1 .. 0 |-> command_at(<< >>, CHOOSE e \in Nth(<< >>, n) : TRUE)]
    BY <1>2, CommandsInIs
  <2> HIDE DEF s
  <2>2. DOMAIN s = 1 .. 0 /\ s = [n \in 1 .. 0 |-> s[n]]
    BY <2>1
  <2>3. IsSeq(s) /\ Len(s) = 0
    BY <2>2, MadeSeq
  <2>4. s = << >>
    BY <2>3, SeqFacts
  <2>. QED  BY <2>4 DEF s
<1>4. Ranked(<< >>)
  <2>1. \A n \in 1 .. Cardinality(ends(<< >>)) : FALSE
    BY <1>2
  <2>. QED  BY <2>1 DEF Ranked
<1>5. WrittenOver(commands, CommandsIn(decoded))
  BY <1>1, <1>3 DEF WrittenOver
<1>. QED  BY <1>1, <1>2, <1>4, <1>5, EmptyIsSeq DEF Decoding

LEMMA DecodingStays ==
    ASSUME Decoding, UNCHANGED history, kcd'.i = kcd.i, kcd'.buffer_flag = kcd.buffer_flag,
           kcd.buffer_flag => kcd.i = 0 \/ hold'["KCD"]["out"] = hold["KCD"]["out"]
    PROVE  Decoding'
<1>1. decoded' = decoded /\ commands' = commands
  BY DEF history
<1>2. kcd.buffer_flag => Copying(decoded, kcd.i, hold'["KCD"]["out"].data)
  <2>1. \A d, e : Copying(decoded, 0, d) => Copying(decoded, 0, e)
    <3>1. \A j \in Nat : ~(j < 0)
      OBVIOUS
    <3>. QED  BY <3>1 DEF Copying
  <2>2. kcd.buffer_flag => Copying(decoded, kcd.i, hold["KCD"]["out"].data)
    BY DEF Decoding
  <2>. QED  BY <2>1, <2>2
<1>. QED  BY <1>1, <1>2 DEF Decoding, WrittenOver

LEMMA CallDecodes ==
    ASSUME Typed, Begun, Decoding, NEW q \in Processes,
           Request(q) \/ Send(q) \/ DelayedSend(q) \/ Release(q)
    PROVE  Decoding'
<1>1. UNCHANGED history /\ kcd' = kcd
  BY DEF Request, Send, DelayedSend, Release
<1>2. kcd.buffer_flag => kcd.i = 0 \/ hold'["KCD"]["out"] = hold["KCD"]["out"]
  BY CallLeavesCommand DEF Begun
<1>. QED  BY <1>1, <1>2, DecodingStays

LEMMA KCDDecodes ==
    ASSUME Typed, Begun, Decoding,
           \/ kcd_registration \/ kcd_percent \/ kcd_command
           \/ kcd_key \/ kcd_text \/ kcd_other
    PROVE  Decoding'
<1> DEFINE m == received("KCD")
           mine == hold["KCD"]
           data == mine["out"].data
           new == Append(decoded, key)
<1>1. /\ DecoderOK /\ HoldOK /\ has_message("KCD") /\ kcd.i \in Nat
      /\ IsSeq(decoded) /\ Ranked(decoded) /\ IsSeq(commands)
      /\ "KCD" \in Processes /\ CR # "%" /\ MAX_COMMAND_SIZE \in Nat
  BY ConsoleAssumption
  DEF Typed, Begun, Decoding, kcd_registration, kcd_percent, kcd_command, kcd_key,
      kcd_text, kcd_other, key_arrives, Processes, DecoderOK, CR
<1>2. kcd.buffer_flag => "out" \in DOMAIN mine
  BY <1>1, KCDIdle
<1>3. ASSUME NEW m2, NEW new_mine, NEW calls, Receive("KCD", m2, new_mine, calls),
             "out" \in DOMAIN new_mine
      PROVE  hold'["KCD"]["out"] = new_mine["out"]
  BY <1>1, <1>3 DEF Receive, HoldOK, with
<1>4. IsSeq(new)
  BY <1>1, AppendIs
<1> HIDE DEF new
<1>5. commands' = commands /\ CommandsIn(new) = CommandsIn(decoded)
         => WrittenOver(commands', CommandsIn(new))
  BY DEF Decoding
<1>6. CASE kcd_registration \/ kcd_other
  <2>1. /\ UNCHANGED history /\ kcd'.i = kcd.i /\ kcd'.buffer_flag = kcd.buffer_flag
        /\ \E m2 : Receive("KCD", m2, mine, echo)
    BY <1>1, <1>6 DEF kcd_registration, kcd_other, DecoderOK
  <2>2. kcd.buffer_flag => hold'["KCD"]["out"] = mine["out"]
    BY <1>2, <1>3, <2>1
  <2>. QED  BY <2>1, <2>2, DecodingStays
<1>7. CASE kcd_percent
  <2>1. /\ key = "%" /\ decoded' = new /\ commands' = commands /\ ~kcd.buffer_flag
        /\ kcd' = [kcd EXCEPT !.buffer_flag = TRUE]
    BY <1>7 DEF kcd_percent, Key, new
  <2>2. kcd'.i = 0 /\ kcd'.buffer_flag = TRUE
    BY <1>1, <2>1 DEF DecoderOK, Begun
  <2>3. Open(decoded) = {}
    BY <2>1 DEF Decoding
  <2>4. Ranked(new) /\ CommandsIn(new) = CommandsIn(decoded)
    BY <1>1, <2>1, <2>3, CommandsStay DEF new
  <2>5. Copying(new, 0, hold'["KCD"]["out"].data)
    BY <1>1, <2>1, <2>3, CopyStarts DEF new
  <2>. QED  BY <1>1, <1>4, <1>5, <2>1, <2>2, <2>4, <2>5 DEF Decoding
<1>8. CASE kcd_command
  <2>1. /\ key = CR /\ decoded' = new /\ kcd.buffer_flag
    BY <1>8 DEF kcd_command, Key, new
  <2>2. ~kcd'.buffer_flag
    BY <1>1, <1>8 DEF kcd_command, command_done, DecoderOK
  <2>3. Copying(decoded, kcd.i, data)
    BY <2>1 DEF Decoding
  <2>4. /\ Open(decoded) # {}
        /\ command_at(new, Len(decoded) + 1) = [j \in 1 .. kcd.i |-> data[j - 1]]
    <3> HIDE DEF data
    <3>1. new = Append(decoded, CR)
      BY <2>1 DEF new
    <3>. QED  BY <1>1, <2>3, <3>1, CopyIsCommand
  <2>5. /\ Ranked(new)
        /\ CommandsIn(new) = Append(CommandsIn(decoded), command_at(new, Len(decoded) + 1))
    BY <1>1, <2>1, <2>4, CommandsGrow DEF new
  <2>6. Open(new) = {}
    BY <1>1, <2>1, LineGrows DEF new
  <2>7. PICK c : commands' = Append(commands, c) /\ c.data = data
    BY <1>8 DEF kcd_command
  <2>8. PICK x \in Stale : \A j \in Cells : j >= kcd.i => data[j] = x.data[j]
    <3>1. << >> # request("out") \o echo /\ todo["KCD"] = << >>
      BY <1>1, KCDIdle, KCDCalls DEF First
    <3>. QED  BY <2>1, <3>1 DEF Begun
  <2>9. WrittenOver(commands', CommandsIn(new))
    <3>1. /\ IsSeq(CommandsIn(decoded)) /\ WrittenOver(commands, CommandsIn(decoded))
      BY <1>1, CommandsAreSeq DEF Decoding
    <3>2. typed_over(command_at(new, Len(decoded) + 1), x, c.data)
      <4>1. typed_over([j \in 1 .. kcd.i |-> data[j - 1]], x, data)
        <5> HIDE DEF data
        <5>. QED  BY <1>1, <2>8, TypedOver
      <4>. QED  BY <2>4, <2>7, <4>1
    <3> HIDE DEF data
    <3>3. WrittenOver(Append(commands, c),
                      Append(CommandsIn(decoded), command_at(new, Len(decoded) + 1)))
      BY <1>1, <3>1, <3>2, CommandWritten
    <3>. QED  BY <2>5, <2>7, <3>3
  <2>. QED  BY <1>1, <1>4, <2>1, <2>2, <2>5, <2>6, <2>9 DEF Decoding
<1>9. CASE kcd_key
  <2>1. /\ key # CR /\ decoded' = new /\ commands' = commands /\ kcd.buffer_flag
    BY <1>9 DEF kcd_key, Key, new
  <2>2. Ranked(new) /\ CommandsIn(new) = CommandsIn(decoded)
    BY <1>1, <2>1, CommandsStay DEF new
  <2>3. Copying(decoded, kcd.i, data)
    BY <2>1 DEF Decoding
  <2> DEFINE more == hold'["KCD"]["out"].data
  <2>4. CASE room
    <3> DEFINE held == [mine EXCEPT !["out"].data[kcd.i] = key]
    <3>1. Receive("KCD", m, held, echo) /\ kcd' = [kcd EXCEPT !.i = @ + 1]
      BY <1>9, <2>4 DEF kcd_key, Key
    <3>2. kcd'.i = kcd.i + 1 /\ kcd'.buffer_flag /\ kcd.i < MAX_COMMAND_SIZE
      BY <1>1, <2>1, <2>4, <3>1 DEF DecoderOK, room
    <3>3. "out" \in DOMAIN held
      BY <1>2, <2>1
    <3>4. /\ DOMAIN data = Cells /\ "data" \in DOMAIN mine["out"] /\ kcd.i \in Cells
      BY <1>1, <1>2, <2>1, <3>2 DEF HoldOK, Message, Cells
    <3>5. /\ held["out"].data[kcd.i] = key
          /\ \A j \in Cells : j # kcd.i => held["out"].data[j] = data[j]
      BY <1>2, <2>1, <3>4
    <3> HIDE DEF held
    <3>6. more = held["out"].data
      BY <1>3, <3>1, <3>3
    <3>7. \A j \in Nat : j < kcd.i => j \in Cells /\ j # kcd.i
      BY <1>1, <3>2 DEF Cells
    <3>8. more[kcd.i] = key /\ \A j \in Nat : j < kcd.i => more[j] = data[j]
      BY <3>5, <3>6, <3>7
    <3> HIDE DEF more, data
    <3>9. Copying(new, kcd.i + 1, more)
      BY <1>1, <2>1, <2>3, <3>2, <3>8, CopyGoesOn DEF new
    <3>. QED  BY <1>1, <1>4, <1>5, <2>1, <2>2, <3>2, <3>9 DEF Decoding, more
  <2>5. CASE ~room
    <3>1. Receive("KCD", m, mine, echo) /\ kcd' = kcd
      BY <1>9, <2>5 DEF kcd_key, Key
    <3>2. more = data
      BY <1>2, <1>3, <2>1, <3>1
    <3>3. ~(kcd.i < MAX_COMMAND_SIZE)
      BY <2>5 DEF room
    <3> HIDE DEF more, data
    <3>4. Copying(new, kcd.i, more)
      BY <1>1, <2>1, <2>3, <3>2, <3>3, CopyGoesOn DEF new
    <3>. QED  BY <1>1, <1>4, <1>5, <2>1, <2>2, <3>1, <3>4 DEF Decoding, more
  <2>. QED  BY <2>4, <2>5
<1>10. CASE kcd_text
  <2>1. key # "%" /\ decoded' = new /\ commands' = commands /\ ~kcd.buffer_flag
    BY <1>10 DEF kcd_text, Key, new
  <2>2. ~kcd'.buffer_flag
    BY <1>1, <1>10, <2>1 DEF DecoderOK, kcd_text
  <2>3. Open(decoded) = {}
    BY <2>1 DEF Decoding
  <2>4. Ranked(new) /\ CommandsIn(new) = CommandsIn(decoded)
    BY <1>1, <2>3, CommandsStay DEF new
  <2>5. Open(new) = {}
    BY <1>1, <2>1, <2>3, LineGrows DEF new
  <2>. QED  BY <1>1, <1>4, <1>5, <2>1, <2>2, <2>4, <2>5 DEF Decoding
<1>. QED  BY <1>6, <1>7, <1>8, <1>9, <1>10

LEMMA DecodingNext == ConsoleInv /\ Decoding /\ [Next]_vars => Decoding'
<1> SUFFICES ASSUME ConsoleInv, Decoding, [Next]_vars PROVE Decoding'
  OBVIOUS
<1>1. Typed /\ Begun /\ HoldOK /\ ClockOK
  BY DEF ConsoleInv, Typed
<1>2. ASSUME NEW q \in Processes, Request(q) \/ Send(q) \/ DelayedSend(q) \/ Release(q)
      PROVE  Decoding'
  BY <1>1, <1>2, CallDecodes
<1>3. CASE \/ kcd_registration \/ kcd_percent \/ kcd_command
           \/ kcd_key \/ kcd_text \/ kcd_other
  BY <1>1, <1>3, KCDDecodes
<1>4. CASE \/ wc_set \/ wc_get \/ wc_stop \/ wc_tick \/ wc_other
           \/ set_prio_process
  <2>1. UNCHANGED <<kcd, history>> /\ hold'["KCD"] = hold["KCD"]
    <3>1. PICK q, mine, calls :
            /\ q \in Processes /\ q # "KCD" /\ Receive(q, received(q), mine, calls)
            /\ UNCHANGED <<kcd, history>>
      BY <1>1, <1>4, WCReceives DEF set_prio_process, Processes
    <3>. QED  BY <1>1, <3>1 DEF Receive, HoldOK, Processes
  <2>. QED  BY <2>1, DecodingStays
<1>5. CASE crt_process \/ type_line \/ uart_key \/ timer_expire \/ UNCHANGED vars
  <2>1. UNCHANGED <<kcd, history, hold>>
    BY <1>5 DEF crt_process, type_line, uart_key, timer_expire, vars, history
  <2>. QED  BY <2>1, DecodingStays
<1>. QED  BY <1>2, <1>3, <1>4, <1>5 DEF Next

-----------------------------------------------------------------------------
(* Who a command goes to.  The table of commands is filled from the messages  *)
(* that register one; apart from the two processes that start with that, only   *)
(* the decoder sends to the decoder, a block of the type it had.                *)

StaleType(m) ==
    m.type = "COMMAND_REGISTRATION" => \E x \in Stale : x.type = "COMMAND_REGISTRATION"
Registers(m) == m.type = "COMMAND_REGISTRATION" => registrant(m.data[0], m.sender)
Sent(c) == c.registered => registrant(c.data[0], c.to)

Registry ==
    /\ \A i \in DOMAIN mailbox["KCD"] : Registers(mailbox["KCD"][i])
    /\ \A c \in DOMAIN kcd.map : registrant(c, kcd.map[c])
    /\ "out" \in DOMAIN hold["KCD"] => StaleType(hold["KCD"]["out"])
    /\ \A n \in DOMAIN commands : Sent(commands[n])

\* The calls that send something to the decoder.
LEMMA SendsToKCD ==
    ASSUME NEW p \in Processes, NEW t, NEW W, Form(p, t, W), t # << >>,
           Head(t).op = "send", Head(t).to = "KCD"
    PROVE  \/ p = "KCD" /\ Head(t).what = "out" /\ Head(t).fill = << >>
           \/ p = "WC" /\ Head(t).fill = Registered("W")
           \/ p = "SET_PRIO" /\ Head(t).fill = Registered("C")
<1>1. CASE p = "KCD"
  <2>1. KCDForm(t, W)
    BY <1>1 DEF Form
  <2>2. ASSUME NEW d, t = send("out", d, << >>) \o echo
        PROVE  Head(t).what = "out" /\ Head(t).fill = << >>
    BY <2>2, KCDCalls DEF SendIs, First
  <2>3. \E d : t = send("out", d, << >>) \o echo
    <3>1. /\ t # echo /\ t # complain \o echo /\ t # request("out") \o echo
          /\ t # request("other") \o (complain \o echo)
      BY KCDCalls DEF SendIs, First
    <3>. QED  BY <2>1, <3>1 DEF KCDForm
  <2>. QED  BY <1>1, <2>2, <2>3
<1>2. ASSUME NEW c, SetupForm(c, t, W)
      PROVE  Head(t).fill = Registered(c)
  BY <1>2, SetupCalls DEF SetupForm, SendIs, First
<1>3. CASE p = "WC"
  <2>1. WCForm(t, W)
    BY <1>3 DEF Form
  <2>2. SetupForm("W", t, W)
    BY <2>1, WCCalls DEF WCForm, SendIs, First
  <2>. QED  BY <1>2, <1>3, <2>2
<1>4. CASE p = "SET_PRIO"
  <2>1. PRIOForm(t, W)
    BY <1>4 DEF Form
  <2>2. SetupForm("C", t, W)
    BY <2>1, WCCalls, PRIOCalls DEF PRIOForm, SendIs, First
  <2>. QED  BY <1>2, <1>4, <2>2
<1>. QED  BY <1>1, <1>3, <1>4 DEF Processes

\* What is sent to the decoder registers only what its sender may register.
LEMMA SentRegisters ==
    ASSUME Typed, Registry, NEW p \in Processes, Send(p), Head(todo[p]).to = "KCD"
    PROVE  Registers(filled(Head(todo[p]).fill, hold[p][pointer(p)], p))
<1> DEFINE fill == Head(todo[p]).fill
           m == filled(fill, hold[p][pointer(p)], p)
<1>1. \/ p = "KCD" /\ pointer(p) = "out" /\ fill = << >>
      \/ p = "WC" /\ fill = Registered("W")
      \/ p = "SET_PRIO" /\ fill = Registered("C")
  BY SendsToKCD DEF Send, Calls, pointer, Typed, TodoOK
<1>2. m.sender = p
  BY DEF filled
<1>3. CASE p = "KCD"
  <2>1. m.type = hold["KCD"]["out"].type /\ "out" \in DOMAIN hold["KCD"]
    BY <1>1, <1>3 DEF filled, Send, Owns
  <2>. QED  BY <1>2, <1>3, <2>1 DEF Registers, registrant, Registry, StaleType
<1>4. ASSUME NEW c, fill = Registered(c)
      PROVE  m.data[0] = c
  <2>1. 0 \in Cells
    BY ConsoleAssumption DEF Cells
  <2>. QED  BY <1>4, <2>1 DEF filled, Registered, text
<1>5. CASE p # "KCD"
  <2>1. registrant(m.data[0], m.sender)
    BY <1>1, <1>2, <1>4, <1>5 DEF registrant
  <2>. QED  BY <2>1 DEF Registers
<1>. QED  BY <1>3, <1>5

\* One message more, or one less, in the mailbox of the decoder.
LEMMA MailRegisters ==
    ASSUME NEW s, IsSeq(s), \A i \in DOMAIN s : Registers(s[i])
    PROVE  /\ \A m : Registers(m) =>
                \A i \in DOMAIN Append(s, m) : Registers(Append(s, m)[i])
           /\ s # << >> => \A i \in DOMAIN Tail(s) : Registers(Tail(s)[i])
<1>1. Len(s) \in Nat /\ DOMAIN s = 1 .. Len(s)
  BY SeqFacts
<1>2. ASSUME NEW m, Registers(m), NEW i \in DOMAIN Append(s, m)
      PROVE  Registers(Append(s, m)[i])
  <2>1. i \in 1 .. Len(s) \/ i = Len(s) + 1
    BY <1>1, SeqFacts, AppendIs
  <2>. QED  BY <1>1, <1>2, <2>1, AppendIs
<1>3. ASSUME s # << >>, NEW i \in DOMAIN Tail(s)
      PROVE  Registers(Tail(s)[i])
  <2>1. i \in 1 .. Len(s) - 1
    BY <1>3, SeqFacts, TailIs
  <2>2. Tail(s)[i] = s[i + 1] /\ i + 1 \in 1 .. Len(s)
    BY <1>1, <1>3, <2>1, TailIs
  <2>. QED  BY <1>1, <2>2
<1>. QED  BY <1>2, <1>3

LEMMA CallRegisters ==
    ASSUME Typed, Registry, NEW p \in Processes,
           Request(p) \/ Send(p) \/ DelayedSend(p) \/ Release(p)
    PROVE  Registry'
<1>1. /\ UNCHANGED <<kcd, commands>> /\ HoldOK /\ TodoOK /\ todo[p] # << >>
      /\ IsSeq(mailbox["KCD"]) /\ "KCD" \in Processes
  BY DEF Request, Send, DelayedSend, Release, Calls, history, Typed, MailOK, Pids, Processes
<1>2. \A i \in DOMAIN mailbox'["KCD"] : Registers(mailbox'["KCD"][i])
  <2>1. CASE Send(p) /\ Head(todo[p]).to = "KCD"
    <3> DEFINE m == filled(Head(todo[p]).fill, hold[p][pointer(p)], p)
    <3>1. mailbox' = [mailbox EXCEPT !["KCD"] = Append(@, m)]
      BY <2>1 DEF Send, Pids, Processes, pointer
    <3>2. Registers(m)
      BY <2>1, SentRegisters
    <3> HIDE DEF m
    <3>3. mailbox'["KCD"] = Append(mailbox["KCD"], m)
      BY <1>1, <3>1 DEF Typed, MailOK, Pids
    <3>. QED  BY <1>1, <3>2, <3>3, MailRegisters DEF Registry
  <2>2. CASE ~(Send(p) /\ Head(todo[p]).to = "KCD")
    <3>1. CASE ~Send(p)
      BY <3>1 DEF Request, DelayedSend, Release, Registry
    <3>2. CASE Send(p)
      <4> DEFINE d == Head(todo[p]).to
                 m == filled(Head(todo[p]).fill, hold[p][pointer(p)], p)
      <4>1. d # "KCD"
        BY <2>2, <3>2
      <4>2. mailbox' = mailbox \/ (d \in Pids /\ mailbox' = [mailbox EXCEPT ![d] = Append(@, m)])
        BY <3>2 DEF Send, pointer
      <4> HIDE DEF d, m
      <4>3. mailbox'["KCD"] = mailbox["KCD"]
        BY <4>1, <4>2 DEF Typed, MailOK, Pids, Processes
      <4>. QED  BY <4>3 DEF Registry
    <3>. QED  BY <3>1, <3>2
  <2>. QED  BY <2>1, <2>2
<1>3. "out" \in DOMAIN hold'["KCD"] => StaleType(hold'["KCD"]["out"])
  <2>1. CASE p # "KCD"
    <3>1. hold'["KCD"] = hold["KCD"]
      BY <1>1, <2>1 DEF Request, Send, DelayedSend, Release, GivenAway, HoldOK
    <3>. QED  BY <3>1 DEF Registry
  <2>2. CASE p = "KCD" /\ Request(p)
    <3>1. /\ DOMAIN hold'["KCD"] = DOMAIN hold["KCD"] \cup {pointer(p)}
          /\ \A x \in DOMAIN hold["KCD"] : x # pointer(p) => hold'["KCD"][x] = hold["KCD"][x]
          /\ pointer(p) = "out" => hold'["KCD"]["out"] \in Stale
      BY <1>1, <2>2, RequestIs
    <3>. QED  BY <3>1 DEF Registry, StaleType
  <2>3. CASE p = "KCD" /\ ~Request(p)
    <3>1. Owns(p) /\ Head(todo[p]).op # "request" /\ GivenAway(p) /\ Called(p)
      BY <2>3 DEF Send, DelayedSend, Release, Calls
    <3>2. /\ DOMAIN hold'["KCD"] = DOMAIN hold["KCD"] \ {pointer(p)}
          /\ \A x \in DOMAIN hold'["KCD"] : hold'["KCD"][x] = hold["KCD"][x]
      BY <1>1, <2>3, <3>1, GivingIs
    <3>. QED  BY <3>2 DEF Registry
  <2>. QED  BY <2>1, <2>2, <2>3
<1>. QED  BY <1>1, <1>2, <1>3 DEF Registry

\* The decoder receives a message and keeps the type of the block it fills.
LEMMA ReceiveRegisters ==
    ASSUME Typed, Registry, NEW m, NEW mine, NEW calls, Receive("KCD", m, mine, calls),
           DOMAIN mine = DOMAIN hold["KCD"],
           "out" \in DOMAIN mine => mine["out"].type = hold["KCD"]["out"].type
    PROVE  /\ \A i \in DOMAIN mailbox'["KCD"] : Registers(mailbox'["KCD"][i])
           /\ "out" \in DOMAIN hold'["KCD"] => StaleType(hold'["KCD"]["out"])
           /\ Registers(received("KCD"))
<1>1. /\ mailbox["KCD"] # << >> /\ mailbox'["KCD"] = Tail(mailbox["KCD"])
      /\ hold'["KCD"] = with(mine, "in", m)
      /\ IsSeq(mailbox["KCD"])
  BY DEF Receive, has_message, Typed, MailOK, HoldOK, Pids, Processes
<1>2. \A i \in DOMAIN mailbox'["KCD"] : Registers(mailbox'["KCD"][i])
  BY <1>1, MailRegisters DEF Registry
<1>3. "out" \in DOMAIN hold'["KCD"] => StaleType(hold'["KCD"]["out"])
  BY <1>1 DEF with, Registry, StaleType
<1>4. Registers(received("KCD"))
  BY <1>1, ReceivedMessage DEF Registry, Typed, Processes
<1>. QED  BY <1>2, <1>3, <1>4

LEMMA KCDRegisters ==
    ASSUME Typed, Begun, Registry,
           \/ kcd_registration \/ kcd_percent \/ kcd_command
           \/ kcd_key \/ kcd_text \/ kcd_other
    PROVE  Registry'
<1> DEFINE m == received("KCD")
           mine == hold["KCD"]
           Kept(new) == /\ DOMAIN new = DOMAIN mine
                        /\ "out" \in DOMAIN new => new["out"].type = mine["out"].type
<1>1. DecoderOK /\ HoldOK /\ has_message("KCD") /\ IsSeq(commands)
  BY DEF Typed, Begun, kcd_registration, kcd_percent, kcd_command, kcd_key, kcd_text,
     kcd_other, key_arrives
<1>2. Kept(mine)
  OBVIOUS
<1>3. ASSUME NEW m2, NEW new, NEW calls, Receive("KCD", m2, new, calls), Kept(new),
             kcd'.map = kcd.map, commands' = commands
      PROVE  Registry'
  <2>1. /\ \A i \in DOMAIN mailbox'["KCD"] : Registers(mailbox'["KCD"][i])
        /\ "out" \in DOMAIN hold'["KCD"] => StaleType(hold'["KCD"]["out"])
    BY <1>3, ReceiveRegisters
  <2>. QED  BY <1>3, <2>1 DEF Registry
<1>4. CASE kcd_registration
  <2>1. /\ Receive("KCD", [m EXCEPT !.data[1] = END], mine, echo) /\ commands' = commands
        /\ kcd' = [kcd EXCEPT !.map = with(@, m.data[0], m.sender)]
        /\ m.type = "COMMAND_REGISTRATION"
    BY <1>4 DEF kcd_registration, history
  <2>2. kcd'.map = with(kcd.map, m.data[0], m.sender)
    BY <1>1, <2>1 DEF DecoderOK
  <2>3. /\ \A i \in DOMAIN mailbox'["KCD"] : Registers(mailbox'["KCD"][i])
        /\ "out" \in DOMAIN hold'["KCD"] => StaleType(hold'["KCD"]["out"])
        /\ Registers(m)
    BY <2>1, ReceiveRegisters
  <2>4. \A c \in DOMAIN kcd'.map : registrant(c, kcd'.map[c])
    BY <2>1, <2>2, <2>3 DEF with, Registry, Registers
  <2>. QED  BY <2>1, <2>3, <2>4 DEF Registry
<1>5. CASE kcd_command
  <2> DEFINE data == mine["out"].data
             c(d) == [data |-> data, to |-> d, registered |-> data[0] \in DOMAIN kcd.map]
  <2>1. PICK d \in map(data[0]) :
               /\ Receive("KCD", m, mine, send("out", d, << >>) \o echo)
               /\ commands' = Append(commands, c(d))
    BY <1>5 DEF kcd_command, Key
  <2>2. kcd'.map = kcd.map
    BY <1>1, <1>5 DEF kcd_command, command_done, DecoderOK
  <2>3. /\ \A i \in DOMAIN mailbox'["KCD"] : Registers(mailbox'["KCD"][i])
        /\ "out" \in DOMAIN hold'["KCD"] => StaleType(hold'["KCD"]["out"])
    BY <2>1, ReceiveRegisters
  <2>4. Sent(c(d))
    BY <2>1 DEF Sent, map, Registry
  <2>5. \A n \in DOMAIN commands' : Sent(commands'[n])
    <3> HIDE DEF c
    <3>1. \A n \in DOMAIN commands' : n \in 1 .. Len(commands) \/ n = Len(commands) + 1
      <4>1. Len(commands) \in Nat /\ DOMAIN commands' = 1 .. Len(commands) + 1
        BY <1>1, <2>1, SeqFacts, AppendIs
      <4>. QED  BY <4>1
    <3>2. \A n \in 1 .. Len(commands) : Sent(commands[n])
      BY <1>1, SeqFacts DEF Registry
    <3>. QED  BY <1>1, <2>1, <2>4, <3>1, <3>2, AppendIs
  <2>. QED  BY <2>2, <2>3, <2>5 DEF Registry
<1>6. CASE kcd_key
  <2>1. commands' = commands /\ kcd'.map = kcd.map
    BY <1>1, <1>6 DEF kcd_key, DecoderOK
  <2>2. CASE room
    <3> DEFINE new == [mine EXCEPT !["out"].data[kcd.i] = key]
    <3>1. Receive("KCD", m, new, echo)
      BY <1>6, <2>2 DEF kcd_key, Key
    <3>2. Kept(new)
      OBVIOUS
    <3> HIDE DEF new, Kept
    <3>. QED  BY <1>3, <2>1, <3>1, <3>2
  <2>3. CASE ~room
    <3>1. Receive("KCD", m, mine, echo)
      BY <1>6, <2>3 DEF kcd_key, Key
    <3>. QED  BY <1>2, <1>3, <2>1, <3>1
  <2>. QED  BY <2>2, <2>3
<1>7. CASE kcd_percent \/ kcd_text \/ kcd_other
  <2>1. commands' = commands /\ kcd'.map = kcd.map
    BY <1>1, <1>7 DEF kcd_percent, kcd_text, kcd_other, history, DecoderOK
  <2>2. \E calls : Receive("KCD", m, mine, calls)
    BY <1>7 DEF kcd_percent, kcd_text, kcd_other, Key
  <2>. QED  BY <1>2, <1>3, <2>1, <2>2
<1>. QED  BY <1>4, <1>5, <1>6, <1>7

LEMMA RegistryInit == Init => Registry
<1> SUFFICES ASSUME Init PROVE Registry
  OBVIOUS
<1>1. /\ mailbox["KCD"] = << >> /\ kcd.map = << >> /\ hold["KCD"] = << >> /\ commands = << >>
  BY DEF Init, Pids, Processes
<1>2. DOMAIN << >> = {}
  OBVIOUS
<1>. QED  BY <1>1, <1>2 DEF Registry

LEMMA RegistryNext == ConsoleInv /\ Registry /\ [Next]_vars => Registry'
<1> SUFFICES ASSUME ConsoleInv, Registry, [Next]_vars PROVE Registry'
  OBVIOUS
<1>1. Typed /\ Begun /\ HoldOK /\ ClockOK /\ MailOK
  BY DEF ConsoleInv, Typed
<1>2. ASSUME NEW q \in Processes, Request(q) \/ Send(q) \/ DelayedSend(q) \/ Release(q)
      PROVE  Registry'
  BY <1>1, <1>2, CallRegisters
<1>3. CASE \/ kcd_registration \/ kcd_percent \/ kcd_command
           \/ kcd_key \/ kcd_text \/ kcd_other
  BY <1>1, <1>3, KCDRegisters
<1>4. ASSUME UNCHANGED <<kcd, commands>>, hold'["KCD"] = hold["KCD"],
             mailbox'["KCD"] = mailbox["KCD"]
      PROVE  Registry'
  BY <1>4 DEF Registry
<1>5. CASE \/ wc_set \/ wc_get \/ wc_stop \/ wc_tick \/ wc_other
           \/ set_prio_process
  <2>1. PICK q, mine, calls :
          /\ q \in Processes /\ q # "KCD" /\ Receive(q, received(q), mine, calls)
          /\ UNCHANGED <<kcd, history>>
    BY <1>1, <1>5, WCReceives DEF set_prio_process, Processes
  <2>2. hold'["KCD"] = hold["KCD"] /\ mailbox'["KCD"] = mailbox["KCD"]
    BY <1>1, <2>1 DEF Receive, HoldOK, MailOK, Processes, Pids
  <2>. QED  BY <1>4, <2>1, <2>2 DEF history
<1>6. CASE uart_key
  <2> DEFINE m == [type |-> "KEYBOARD_INPUT", sender |-> "UART",
                   data |-> text(<<Head(typing)>>)]
  <2>1. /\ UNCHANGED <<kcd, commands, hold>>
        /\ mailbox' = mailbox \/ mailbox' = [mailbox EXCEPT !["KCD"] = Append(@, m)]
    BY <1>6 DEF uart_key, history
  <2>2. CASE mailbox' = mailbox
    BY <1>4, <2>1, <2>2
  <2>3. CASE mailbox' = [mailbox EXCEPT !["KCD"] = Append(@, m)]
    <3>1. Registers(m)
      BY DEF Registers
    <3> HIDE DEF m
    <3>2. mailbox'["KCD"] = Append(mailbox["KCD"], m) /\ IsSeq(mailbox["KCD"])
      BY <1>1, <2>3 DEF MailOK, Pids, Processes
    <3>3. \A i \in DOMAIN mailbox'["KCD"] : Registers(mailbox'["KCD"][i])
      BY <3>1, <3>2, MailRegisters DEF Registry
    <3>. QED  BY <2>1, <3>3 DEF Registry
  <2>. QED  BY <2>1, <2>2, <2>3
<1>7. CASE crt_process \/ type_line \/ timer_expire \/ UNCHANGED vars
  <2>1. UNCHANGED <<kcd, commands, hold>> /\ mailbox'["KCD"] = mailbox["KCD"]
    BY <1>1, <1>7 DEF crt_process, type_line, timer_expire, vars, history, MailOK, Pids,
                      Processes
  <2>. QED  BY <1>4, <2>1
<1>. QED  BY <1>2, <1>3, <1>5, <1>6, <1>7 DEF Next

\* Whatever is typed, and however the processes interleave: the decoder sends one
\* command for every finished line with a '%', its keys first and then what the
\* block held when it was requested, and sends it to the process that registered
\* its first character, if one had (kcd_process.c:46-69).
THEOREM CommandsAreTypedOverStale == Spec => []CommandsTypedOverStale
<1>1. Decoding /\ Registry => CommandsTypedOverStale
  BY DEF Decoding, WrittenOver, Registry, Sent, CommandsTypedOverStale
<1>. QED  BY <1>1, ConsoleInit, ConsoleNext, NothingDecoded, DecodingNext, RegistryInit,
             RegistryNext, PTL DEF Spec
=============================================================================
