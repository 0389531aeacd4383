---------------------------- MODULE MCKernelFair ----------------------------
(* A smaller TLC instance of Kernel for its liveness: a spinning process, the  *)
(* null process, the keyboard decoder, a more urgent display process, and the  *)
(* two i-processes; one block.                                                 *)
EXTENDS Kernel

CONSTANTS nul, spin, user, kcd, crt, timer, uart, b1

MCPids == {nul, spin, user, kcd, crt, timer, uart}
MCBlocks == {b1}
MCBootOrder == <<spin, user, kcd, crt, nul>>
MCBootPriority ==
    [p \in MCPids |-> CASE p = crt -> 0
                        [] p \in {spin, user, kcd} -> 1
                        [] p \in {timer, uart} -> 2
                        [] p = nul -> 4]

MCCalls ==
    [p \in MCPids |->
        CASE p = spin -> {"release_processor"}
          [] p = kcd -> {"receive_message", "request_memory_block", "send_message",
                         "release_memory_block", "delayed_send"}
          [] p = user -> {"receive_message", "request_memory_block", "send_message",
                          "release_memory_block"}
          [] p = crt -> {"receive_message", "send_message", "release_memory_block"}
          [] OTHER -> {}]

MCSends == {<<kcd, crt>>, <<user, crt>>, <<kcd, user>>, <<crt, uart>>, <<uart, kcd>>}
NoNewPriorities == {}
=============================================================================
