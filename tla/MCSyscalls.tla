----------------------------- MODULE MCSyscalls -----------------------------
(* TLC instance of Syscalls: the processes a key passes through, one process   *)
(* that registers a command and waits for it, and two blocks, so that the pool  *)
(* runs empty.                                                                 *)
EXTENDS Syscalls, TLC

CONSTANTS nul, kcd, user, crt, timer, uart, b1, b2

MCPids == {nul, kcd, user, crt, timer, uart}
MCBlocks == {b1, b2}
MCBootOrder == <<user, kcd, crt, nul>>

HIGH == 0
MEDIUM == 1
LOW == 2

MCBootPriority ==
    [p \in MCPids |-> CASE p = crt -> HIGH
                        [] p \in {user, kcd} -> MEDIUM
                        [] p \in {timer, uart} -> LOW
                        [] p = nul -> NULL_PRIORITY]

MCProgram ==
    (user :> registration_program) @@ (kcd :> kcd_program)
    @@ (crt :> crt_program) @@ (uart :> uart_program)

Symmetry == Permutations(MCBlocks)
=============================================================================
