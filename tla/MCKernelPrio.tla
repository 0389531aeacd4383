---------------------------- MODULE MCKernelPrio ----------------------------
(* TLC instance of Kernel in which %C commands change priorities: prio stands  *)
(* for set_prio_process (process/set_priority_process.c), which accepts every  *)
(* pid but 0 and every priority below 4.  Deadlock is not checked: with lists  *)
(* broken by such a change the kernel may walk for ever (module PCBQueues).    *)
EXTENDS Kernel, TLC

CONSTANTS nul, kcd, user, prio, timer, uart, b1, b2

MCPids == {nul, kcd, user, prio, timer, uart}
MCBlocks == {b1}

MCBootOrder == <<user, kcd, prio, nul>>
MCBootPriority ==
    [p \in MCPids |-> CASE p = prio -> 0
                        [] p \in {user, kcd} -> 1
                        [] p \in {timer, uart} -> 2
                        [] p = nul -> 4]

MCCalls ==
    [p \in MCPids |->
        CASE p = kcd -> {"receive_message", "request_memory_block", "send_message"}
          [] p = user -> {"receive_message", "request_memory_block", "send_message",
                          "release_memory_block", "release_processor"}
          [] p = prio -> {"set_process_priority", "receive_message", "release_processor",
                          "release_memory_block"}
          [] OTHER -> {}]

MCSends == {<<kcd, prio>>, <<kcd, user>>, <<user, kcd>>, <<uart, kcd>>}

MCNewPriorities == {<<user, 0>>, <<user, 3>>, <<timer, 0>>}
=============================================================================
