------------------------------ MODULE Console ------------------------------
(* The console: the keyboard command decoder (process/kcd_process.c), the CRT  *)
(* display (process/crt_process.c), the wall clock                             *)
(* (process/wall_clock_process.c) and the set priority process                 *)
(* (process/set_priority_process.c), with the UART and the timer at both ends. *)
(*                                                                             *)
(* Each process receives a message, works out what to do with it and calls     *)
(* primitives.  A step is one primitive (of all processes but the display),    *)
(* with the local computation in front of it; todo holds the calls a process   *)
(* still makes for the message it has.  Between primitives the processes       *)
(* interleave in any order, which covers every schedule of the kernel.  The    *)
(* primitives do what their callers expect of them (module Kernel has what the *)
(* kernel does).                                                               *)
EXTENDS Integers, Sequences, FiniteSets, FiniteSetsExt, TLC

CONSTANTS
    NUM_MEM_BLOCKS,
    NULL,           \* no process
    Lines,          \* the lines a user may type, as sequences of keys
    Times,          \* the keys that stand for a time, with hour, minute, second
    Priorities,     \* the keys that stand for a pid and a priority in range
    Stale,          \* what a block just requested may still hold: type and data
    MAX_COMMAND_SIZE,
    MaxLines,       \* bound: the lines typed
    MaxAhead,       \* bound: a user who sees this many messages missing waits
    MaxTicks        \* bound: the delayed messages the timer sends

Keys == UNION {{l[i] : i \in DOMAIN l} : l \in Lines}
Processes == {"KCD", "WC", "SET_PRIO"}
Pids == Processes \cup {"CRT", "UART", "TIMER"}
CR == "\r"
END == "END"        \* the character '\0'

\* The cells of the data of a message that matter: a command has up to
\* MAX_COMMAND_SIZE characters, where the time of a %WS command and the pid and
\* priority of a %C command count as one key.
Cells == 0 .. MAX_COMMAND_SIZE

ASSUME ConsoleAssumption ==
    /\ MAX_COMMAND_SIZE \in Nat /\ MAX_COMMAND_SIZE > 2
    /\ NUM_MEM_BLOCKS \in Nat /\ MaxLines \in Nat /\ MaxAhead \in Nat /\ MaxTicks \in Nat
    /\ \A l \in Lines : l \in Seq(Keys)
    /\ \A k \in DOMAIN Times : Times[k] \in Int \X Int \X Int
    /\ \A x \in Stale : {"type", "data"} \subseteq DOMAIN x /\ DOMAIN x.data = Cells

VARIABLES
    free,           \* how many blocks are free
    mailbox,        \* the messages in the mailbox of every process, oldest first
    delayed,        \* how many messages are in the delayed send queue, all of
                    \* them ticks of the wall clock
    hold,           \* the messages every process has, by the pointer it has them
                    \* in: "in" for the one received, "out" and "other" for those
                    \* it prepares; a pointer to a block that was given away is
                    \* not in the domain, although the code never clears it
    todo,           \* the primitives a process still calls for its message
    kcd,            \* map, i, buffer_flag and char_typed of kcd_process
    clock,          \* hour, min, sec and wall_clock_on of wall_clock_process
    typing,         \* the rest of the line that is being typed
    lines, ticks,   \* counted for the bounds
    decoded,        \* history: the keys kcd_process received
    commands        \* history: the commands kcd_process sent, with the process
                    \* each went to and whether that one had registered it

vars == <<free, mailbox, delayed, hold, todo, kcd, clock, typing, lines, ticks,
          decoded, commands>>
bounds == <<typing, lines, ticks>>
history == <<decoded, commands>>
-----------------------------------------------------------------------------
(* The calls a process makes.                                                  *)

request(w) == <<[op |-> "request", what |-> w]>>
release(w) == <<[op |-> "release", what |-> w]>>
delayed_send(w) == <<[op |-> "delayed_send", what |-> w]>>

\* The fields in fill are written before the message is sent to d.
send(w, d, fill) == <<[op |-> "send", what |-> w, to |-> d, fill |-> fill]>>

\* (Where the code writes only the first characters of a text and nobody reads
\* the others, the others are END here.)
text(s) == [i \in Cells |-> IF i < Len(s) THEN s[i + 1] ELSE END]

register_command(c) ==
    request("other")
    \o send("other", "KCD", [type |-> "COMMAND_REGISTRATION", data |-> text(<<c>>)])

no_prompt(s) == [type |-> "CRT_DISPLAY_NO_PROMPT", data |-> text(s)]

output_clock == send("out", "CRT", no_prompt(<<CR, "hh:mm:ss", CR>>))
error_message == send("out", "CRT", no_prompt(<<CR, "ERROR", CR>>))

\* The carriage returns of a message, up to '\0'.
returns(data) ==
    {i \in Cells : data[i] = CR /\ \A j \in 0 .. i : data[j] # END}

\* How many blocks the display of a message costs: for every carriage return one
\* is requested and never used (crt_process.c:84, :113).
lost_for(m) ==
    IF m.type \in {"CRT_DISPLAY_REQUEST", "CRT_DISPLAY_NO_PROMPT"}
    THEN Cardinality(returns(m.data)) ELSE 0
-----------------------------------------------------------------------------
Blank == [type |-> "NONE", sender |-> NULL, data |-> text(<< >>)]

Init ==
    /\ free = NUM_MEM_BLOCKS
    /\ mailbox = [p \in Pids |-> << >>]
    /\ delayed = 0
    /\ hold = [p \in Processes |-> << >>]
    /\ todo = [p \in Processes |->
                 CASE p = "WC" -> register_command("W") \o request("out")
                   [] p = "SET_PRIO" -> register_command("C") \o request("out")
                   [] OTHER -> << >>]
    /\ kcd = [map |-> << >>, i |-> 0, buffer_flag |-> FALSE, char_typed |-> 0]
    /\ clock = [time |-> <<0, 0, 0>>, on |-> FALSE]
    /\ typing = << >> /\ lines = 0 /\ ticks = 0
    /\ decoded = << >> /\ commands = << >>
-----------------------------------------------------------------------------
(* The primitives, as process p makes its next call.                           *)

Calls(p, op) == todo[p] # << >> /\ Head(todo[p]).op = op
Called(p) == todo' = [todo EXCEPT ![p] = Tail(@)]
pointer(p) == Head(todo[p]).what
Owns(p) == pointer(p) \in DOMAIN hold[p]
with(f, w, m) == [x \in DOMAIN f \cup {w} |-> IF x = w THEN m ELSE f[x]]
without(f, w) == [x \in DOMAIN f \ {w} |-> f[x]]
GivenAway(p) == hold' = [hold EXCEPT ![p] = without(@, pointer(p))]

\* A block the pointer had before is lost.  What the last user left in the new one
\* matters for the commands, which are not written as a whole.
Request(p) ==
    /\ Calls(p, "request") /\ free > 0
    /\ free' = free - 1
    /\ \E x \in IF p = "KCD" /\ pointer(p) = "out" THEN Stale ELSE {Blank} :
         hold' = [hold EXCEPT ![p] = with(@, pointer(p), x)]
    /\ Called(p)
    /\ UNCHANGED <<mailbox, delayed, kcd, clock, bounds, history>>

\* What p sends in a block, after it has written the fields in fill.
filled(fill, block, p) ==
    [type |-> (IF "type" \in DOMAIN fill THEN fill ELSE block).type,
     sender |-> p,
     data |-> (IF "data" \in DOMAIN fill THEN fill ELSE block).data]

\* A message to a process that does not exist is put nowhere.
Send(p) ==
    /\ Calls(p, "send") /\ Owns(p)
    /\ LET call == Head(todo[p])
           m == filled(call.fill, hold[p][call.what], p)
       IN  mailbox' = IF call.to \notin Pids THEN mailbox
                      ELSE [mailbox EXCEPT ![call.to] = Append(@, m)]
    /\ GivenAway(p) /\ Called(p)
    /\ UNCHANGED <<free, delayed, kcd, clock, bounds, history>>

\* Only the wall clock calls it, with itself as the destination.
DelayedSend(p) ==
    /\ Calls(p, "delayed_send") /\ Owns(p)
    /\ delayed' = delayed + 1
    /\ GivenAway(p) /\ Called(p)
    /\ UNCHANGED <<free, mailbox, kcd, clock, bounds, history>>

Release(p) ==
    /\ Calls(p, "release") /\ Owns(p)
    /\ free' = free + 1
    /\ GivenAway(p) /\ Called(p)
    /\ UNCHANGED <<mailbox, delayed, kcd, clock, bounds, history>>

\* receive_message, by a process that has made all its calls: it returns m, and
\* the process, which has the messages mine already, makes more calls.
received(p) == Head(mailbox[p])
has_message(p) == todo[p] = << >> /\ mailbox[p] # << >>
Receive(p, m, mine, calls) ==
    /\ has_message(p)
    /\ mailbox' = [mailbox EXCEPT ![p] = Tail(@)]
    /\ hold' = [hold EXCEPT ![p] = with(mine, "in", m)]
    /\ todo' = [todo EXCEPT ![p] = calls]
    /\ UNCHANGED <<delayed, bounds>>
-----------------------------------------------------------------------------
(* kcd_process.  Every message is passed on to the CRT in the end.             *)

echo == send("in", "CRT", [type |-> "CRT_DISPLAY_REQUEST"])

kcd_registration ==
    /\ has_message("KCD") /\ received("KCD").type = "COMMAND_REGISTRATION"
    /\ LET m == received("KCD")
       IN  /\ kcd' = [kcd EXCEPT !.map = with(@, m.data[0], m.sender)]
           /\ Receive("KCD", [m EXCEPT !.data[1] = END], hold["KCD"], echo)
    /\ UNCHANGED <<free, clock, history>>

\* The entry of the table of commands for character c.  The table is on the
\* stack and never initialised: an entry that was not set is any pid.
map(c) == IF c \in DOMAIN kcd.map THEN {kcd.map[c]} ELSE Pids \cup {NULL}

key == received("KCD").data[0]
key_arrives == has_message("KCD") /\ received("KCD").type = "KEYBOARD_INPUT"
Key(mine, calls) ==
    /\ Receive("KCD", received("KCD"), mine, calls)
    /\ decoded' = Append(decoded, key)
    /\ UNCHANGED <<free, clock>>

\* The first key of a command: a message is requested for what follows.
kcd_percent ==
    /\ key_arrives /\ key = "%" /\ ~kcd.buffer_flag
    /\ kcd' = [kcd EXCEPT !.buffer_flag = TRUE]
    /\ Key(hold["KCD"], request("out") \o echo)
    /\ UNCHANGED commands

\* Variants for mutation of what is reset at the end of a command.
command_done_IndexKept == [kcd EXCEPT !.buffer_flag = FALSE]
command_done_FlagKept == [kcd EXCEPT !.i = 0]
command_done == [kcd EXCEPT !.i = 0, !.buffer_flag = FALSE]

\* The end of a command: the block is sent as it is, with whatever it held behind
\* what was typed, to the process that registered its first character.
kcd_command ==
    /\ key_arrives /\ key = CR /\ kcd.buffer_flag
    /\ kcd' = command_done
    /\ LET data == hold["KCD"]["out"].data
       IN  \E d \in map(data[0]) :
             /\ Key(hold["KCD"], send("out", d, << >>) \o echo)
             /\ commands' = Append(commands, [data |-> data, to |-> d,
                                             registered |-> data[0] \in DOMAIN kcd.map])

\* Variant for mutation: a command may have one character too many.
room_OneMore == kcd.i <= MAX_COMMAND_SIZE
room == kcd.i < MAX_COMMAND_SIZE

\* Another key of a command; what does not fit is left out.
kcd_key ==
    /\ key_arrives /\ key # CR /\ kcd.buffer_flag
    /\ IF room
       THEN /\ Key([hold["KCD"] EXCEPT !["out"].data[kcd.i] = key], echo)
            /\ kcd' = [kcd EXCEPT !.i = @ + 1]
       ELSE Key(hold["KCD"], echo) /\ UNCHANGED kcd
    /\ UNCHANGED commands

\* A line that is no command is answered with "not OK" if it has more than two
\* characters.  (Counts above 3 are not told apart.)
not_ok == request("other") \o send("other", "CRT", no_prompt(<<CR, "not OK">>))

kcd_text ==
    /\ key_arrives /\ key # "%" /\ ~kcd.buffer_flag
    /\ kcd' = [kcd EXCEPT !.char_typed =
                 IF key = CR THEN 0 ELSE IF @ > 2 THEN @ ELSE @ + 1]
    /\ Key(hold["KCD"], (IF key = CR /\ kcd.char_typed > 2 THEN not_ok ELSE << >>) \o echo)
    /\ UNCHANGED commands

\* Anything else that is sent to it.
kcd_other ==
    /\ has_message("KCD")
    /\ received("KCD").type \notin {"COMMAND_REGISTRATION", "KEYBOARD_INPUT"}
    /\ Receive("KCD", received("KCD"), hold["KCD"], echo)
    /\ UNCHANGED <<free, kcd, clock, history>>
-----------------------------------------------------------------------------
(* crt_process.  Every character goes to the UART i-process in a block of its  *)
(* own, which is released once it is written: here a message is received,      *)
(* displayed and released in one step, for which there must be a block to      *)
(* spare.                                                                      *)

crt_process ==
    /\ mailbox["CRT"] # << >>
    /\ LET n == lost_for(Head(mailbox["CRT"]))
       IN  free > n /\ free' = free - n + 1
    /\ mailbox' = [mailbox EXCEPT !["CRT"] = Tail(@)]
    /\ UNCHANGED <<delayed, hold, todo, kcd, clock, bounds, history>>
-----------------------------------------------------------------------------
(* wall_clock_process.                                                         *)

\* The third condition tests the minutes once more, not the seconds.
accepted(t) == t[1] \in 0 .. 23 /\ t[2] \in 0 .. 59 /\ t[3] >= 0

\* Variant for mutation: the hours are not carried.
next_second_NoCarry(t) ==
    IF t[3] + 1 < 60 THEN <<t[1], t[2], t[3] + 1>>
    ELSE <<t[1], (t[2] + 1) % 60, 0>>

next_second(t) ==
    IF t[3] + 1 < 60 THEN <<t[1], t[2], t[3] + 1>>
    ELSE IF t[2] + 1 < 60 THEN <<t[1], t[2] + 1, 0>>
    ELSE IF t[1] + 1 < 24 THEN <<t[1] + 1, 0, 0>>
    ELSE <<0, 0, 0>>

show == request("out") \o output_clock

\* Variants for mutation: no tick is asked for, or the message that was sent to
\* the CRT is used for it.
show_and_tick_NoTick == show
show_and_tick_SameBlock == show \o delayed_send("out")
show_and_tick == show \o request("out") \o delayed_send("out")

WallClock(calls) ==
    /\ Receive("WC", received("WC"), hold["WC"], calls \o release("in"))
    /\ UNCHANGED <<free, kcd, history>>
wc_command == received("WC").sender = "KCD"
letter == received("WC").data[1]

sets_clock(data) ==
    data[1] = "S" /\ data[2] \in {k \in DOMAIN Times : accepted(Times[k])}

wc_set ==
    /\ has_message("WC") /\ wc_command /\ letter = "S"
    /\ LET data == received("WC").data
       IN  IF sets_clock(data)
           THEN clock' = [time |-> Times[data[2]], on |-> TRUE] /\ WallClock(show_and_tick)
           ELSE WallClock(<< >>) /\ UNCHANGED clock

wc_get == has_message("WC") /\ wc_command /\ letter = "C" /\ WallClock(show) /\ UNCHANGED clock

wc_stop ==
    /\ has_message("WC") /\ wc_command /\ letter = "T"
    /\ clock' = [clock EXCEPT !.on = FALSE]
    /\ WallClock(<< >>)

wc_tick ==
    /\ has_message("WC") /\ received("WC").sender = "TIMER" /\ clock.on
    /\ clock' = [clock EXCEPT !.time = next_second(@)]
    /\ WallClock(show_and_tick)

wc_other ==
    /\ has_message("WC")
    /\ wc_command => letter \notin {"S", "C", "T"}
    /\ received("WC").sender = "TIMER" => ~clock.on
    /\ WallClock(<< >>)
    /\ UNCHANGED clock
-----------------------------------------------------------------------------
(* set_prio_process.  The message for its errors is requested once: what the   *)
(* second one does to the message that was sent already is not modelled, and   *)
(* the process stops there.                                                    *)

refused(data) == data[1] = " " /\ data[2] \notin Priorities

set_prio_process ==
    /\ has_message("SET_PRIO")
    /\ LET m == received("SET_PRIO")
       IN  Receive("SET_PRIO", m, hold["SET_PRIO"],
                   (IF m.sender = "KCD" /\ refused(m.data) THEN error_message ELSE << >>)
                       \o release("in"))
    /\ UNCHANGED <<free, kcd, clock, history>>
-----------------------------------------------------------------------------
(* The UART and the timer.                                                     *)

type_line ==
    /\ typing = << >> /\ lines < MaxLines
    /\ typing' \in Lines /\ lines' = lines + 1
    /\ UNCHANGED <<free, mailbox, delayed, hold, todo, kcd, clock, ticks, history>>

\* A key for which there is no block is lost.
uart_key ==
    /\ typing # << >> /\ Len(mailbox["KCD"]) + Len(mailbox["CRT"]) < MaxAhead
    /\ typing' = Tail(typing)
    /\ IF free = 0 THEN UNCHANGED <<free, mailbox>>
       ELSE /\ free' = free - 1
            /\ mailbox' = [mailbox EXCEPT !["KCD"] =
                 Append(@, [type |-> "KEYBOARD_INPUT", sender |-> "UART",
                            data |-> text(<<Head(typing)>>)])]
    /\ UNCHANGED <<delayed, hold, todo, kcd, clock, lines, ticks, history>>

\* The timer i-process sends a message that is due, in its own name.
timer_expire ==
    /\ delayed > 0 /\ delayed' = delayed - 1
    /\ ticks < MaxTicks /\ ticks' = ticks + 1
    /\ mailbox' = [mailbox EXCEPT !["WC"] = Append(@, [Blank EXCEPT !.sender = "TIMER"])]
    /\ UNCHANGED <<free, hold, todo, kcd, clock, typing, lines, history>>

Next ==
    \/ \E p \in Processes : Request(p) \/ Send(p) \/ DelayedSend(p) \/ Release(p)
    \/ kcd_registration \/ kcd_percent \/ kcd_command \/ kcd_key \/ kcd_text \/ kcd_other
    \/ crt_process
    \/ wc_set \/ wc_get \/ wc_stop \/ wc_tick \/ wc_other
    \/ set_prio_process
    \/ type_line \/ uart_key \/ timer_expire

Spec == Init /\ [][Next]_vars
-----------------------------------------------------------------------------
TypeOK ==
    /\ free \in 0 .. NUM_MEM_BLOCKS /\ delayed \in 0 .. NUM_MEM_BLOCKS
    /\ \A p \in Pids : \A i \in DOMAIN mailbox[p] : DOMAIN mailbox[p][i].data = Cells
    /\ \A p \in Processes : DOMAIN hold[p] \subseteq {"in", "out", "other"}
    /\ kcd.i \in 0 .. MAX_COMMAND_SIZE /\ kcd.buffer_flag \in BOOLEAN
    /\ kcd.char_typed \in 0 .. 3
    /\ accepted(clock.time)
    /\ typing \in Seq(Keys)

\* What the decoder should make of a sequence of keys: in every finished line
\* that has a '%', the keys between the first one and the end, as far as they
\* fit into a command.
percents(keys, e) ==
    {j \in 1 .. e : keys[j] = "%" /\ \A i \in j .. e : keys[i] = CR => i = e}
ends(keys) == {e \in DOMAIN keys : keys[e] = CR /\ percents(keys, e) # {}}
command_at(keys, e) ==
    SubSeq(keys, Min(percents(keys, e)) + 1,
           Min({e - 1, Min(percents(keys, e)) + MAX_COMMAND_SIZE}))
CommandsIn(keys) ==
    LET nth(n) == CHOOSE e \in {e \in ends(keys) :
                                   Cardinality({d \in ends(keys) : d <= e}) = n} : TRUE
    IN  [n \in 1 .. Cardinality(ends(keys)) |-> command_at(keys, nth(n))]

\* Data is what was typed, followed by what the block x held.
typed_over(typed, x, data) ==
    \A j \in Cells : data[j] = IF j < Len(typed) THEN typed[j + 1] ELSE x.data[j]

\* Who can have registered c: the wall clock, the set priority process, or the
\* decoder itself, if a block it sent to itself for a character nobody registered
\* happens to have the type of a registration.
registrant(c, d) ==
    \/ <<c, d>> \in {<<"W", "WC">>, <<"C", "SET_PRIO">>}
    \/ d = "KCD" /\ \E x \in Stale : x.type = "COMMAND_REGISTRATION"

\* The decoder keeps its state (the flag, the index, the block it fills) over many
\* messages.  Every finished line with a '%' makes it send one command: the keys of
\* that line and no other, from the first cell of a block it has just requested,
\* and behind them whatever that block held (kcd_process.c:46-69).  Nothing ends the
\* typed part: a short line is completed, and an empty one replaced, by what an
\* earlier user left, so a command nobody typed may be carried out.  The block goes
\* to the process that registered its first character; if nobody had, to anyone.
CommandsTypedOverStale ==
    LET typed == CommandsIn(decoded)
    IN  /\ Len(commands) = Len(typed)
        /\ \A n \in DOMAIN commands :
             /\ \E x \in Stale : typed_over(typed[n], x, commands[n].data)
             /\ commands[n].registered => registrant(commands[n].data[0], commands[n].to)

\* How many of the commands sent to p asked for what holds of their data.
how_often(p, asks(_)) ==
    Cardinality({n \in DOMAIN commands : commands[n].to = p /\ asks(commands[n].data)})

\* While the clock is on, it will be woken: its next tick is in the delayed send
\* queue or in its mailbox, or it is about to ask for it.  Commands and ticks may
\* come in any order (wall_clock_process.c:84-88, 101-106, 129-131).  Every %WS
\* starts a chain of ticks of its own, also while the clock is on, so there may
\* be several, but never more than commands with an accepted time that reached the
\* wall clock, those that an old block stood in for included.
ticks_on_their_way ==
    delayed
    + Cardinality({i \in DOMAIN mailbox["WC"] : mailbox["WC"][i].sender = "TIMER"})
    + Cardinality({i \in DOMAIN todo["WC"] : todo["WC"][i].op = "delayed_send"})
TickOnItsWay ==
    /\ clock.on => ticks_on_their_way > 0
    /\ ticks_on_their_way <= how_often("WC", sets_clock)

\* A process writes, sends and releases only blocks that it has requested or
\* received and not given away since, although its pointers are never cleared.
\* The set priority process keeps to this until it is sent a second %C command that
\* it refuses: then it writes its error into the message it sent for the first one
\* (set_priority_process.c:58, 83).
UsesOnlyItsOwn ==
    /\ \A p \in Processes :
         todo[p] # << >> /\ Head(todo[p]).op # "request" =>
             \/ Owns(p)
             \/ /\ p = "SET_PRIO" /\ pointer(p) = "out"
                /\ how_often("SET_PRIO", refused) > 1
    /\ kcd.buffer_flag /\ todo["KCD"] = << >> => "out" \in DOMAIN hold["KCD"]

\* Every tick moves the clock on by one second, past midnight too.  A time whose
\* seconds are out of range is accepted (wall_clock_process.c:69), but does no
\* more harm than the last second of its minute.
seconds(t) == (t[1] * 60 + t[2]) * 60 + IF t[3] < 60 THEN t[3] ELSE 59
TickIsOneSecond ==
    [][clock.on /\ clock'.on /\ clock'.time # clock.time =>
          \/ seconds(clock'.time) = (seconds(clock.time) + 1) % 86400
          \/ clock'.time \in {Times[k] : k \in DOMAIN Times}]_vars
=============================================================================
