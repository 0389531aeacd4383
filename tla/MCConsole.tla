----------------------------- MODULE MCConsole -----------------------------
(* TLC instance of Console: two lines, among them the commands of the clock    *)
(* (one with a time it refuses, and one with a time it should refuse) and of   *)
(* the priorities (one that is too long and one that is refused), an empty     *)
(* command, and text.  A line that sets something up comes first, one that     *)
(* uses it second.  Deadlock is not checked: at the end all is typed and all   *)
(* bounds are reached, a pool that has lost its blocks stops everything, and   *)
(* the set priority process stops at its second error.                         *)
EXTENDS Console

set == <<"%", "W", "S", "23:59:59", CR>>
set_odd == <<"%", "W", "S", "10:20:75", CR>>
set_refused == <<"%", "W", "S", "23:60:00", CR>>
show_clock == <<"%", "W", "C", CR>>
stop == <<"%", "W", "T", CR>>
priority == <<"%", "C", " ", "07 1", "%", CR>>
priority_refused == <<"%", "C", " ", "07 9", CR>>
empty == <<"%", CR>>
some_text == <<"x", "x", "x", CR>>

MCLines ==
    {l \o m : l \in {set, set_odd, priority_refused, empty},
              m \in {set, set_refused, show_clock, stop, priority, priority_refused,
                     empty, some_text}}

MCTimes == ("23:59:59" :> <<23, 59, 59>>) @@ ("23:60:00" :> <<23, 60, 0>>)
           @@ ("10:20:75" :> <<10, 20, 75>>)
MCPriorities == {"07 1"}

\* What a block holds that was used for a command before.
MCStale == {[type |-> "NONE", data |-> text(<<"W", "S", "23:59:59">>)]}
=============================================================================
