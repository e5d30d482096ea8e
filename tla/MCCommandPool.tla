---------------------------- MODULE MCCommandPool ----------------------------
(* More command threads than connections; nodes that answer or redirect.   *)
EXTENDS CommandPool

CONSTANTS owner, t1, t2, t3

MCThreads == {owner, t1, t2, t3}
MCSlots == {1}
MCHosts == {2}
MCHealthyReplies == {"ok", "ask", "moved"}
MCHealthyAsking == {"ok"}
=============================================================================
