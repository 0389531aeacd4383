------------------------------ MODULE MCKernel ------------------------------
(* TLC instances of Kernel: the system as init.c boots it, with one process of *)
(* each kind.  spin stands for the processes of task.c, user for a stress test *)
(* process, crt for the processes of priority HIGH.                            *)
EXTENDS KernelClaims, TLC

CONSTANTS nul, spin, kcd, user, crt, timer, uart, b1, b2

MCPids == {nul, spin, kcd, user, crt, timer, uart}
MCBlocks == {b1, b2}

HIGH == 0
MEDIUM == 1
LOW == 2

MCBootOrder == <<spin, user, kcd, crt, nul>>
MCBootPriority ==
    [p \in MCPids |-> CASE p = crt -> HIGH
                        [] p \in {spin, user, kcd} -> MEDIUM
                        [] p \in {timer, uart} -> LOW
                        [] p = nul -> NULL_PRIORITY]

MCCalls ==
    [p \in MCPids |->
        CASE p = spin -> {"release_processor"}
          [] p = kcd -> {"receive_message", "request_memory_block", "send_message"}
          [] p = user -> {"receive_message", "request_memory_block", "send_message",
                          "release_memory_block", "release_processor", "delayed_send"}
          [] p = crt -> {"receive_message", "request_memory_block", "send_message",
                         "release_memory_block", "release_processor"}
          [] OTHER -> {}]

MCSends == {<<kcd, crt>>, <<kcd, user>>, <<user, kcd>>, <<user, crt>>, <<crt, uart>>,
            <<uart, kcd>>}

NoNewPriorities == {}

\* The theorems that are about the system as it boots are about this instance.
ASSUME MCKernelAssumption == AsBooted

Symmetry == Permutations(MCBlocks)
=============================================================================
