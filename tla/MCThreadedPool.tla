--------------------------- MODULE MCThreadedPool ---------------------------
(***************************************************************************)
(* Small instances of ThreadedPool.  Keys are numbers because std::map     *)
(* visits them in order; the callers other than Owner are interchangeable. *)
(***************************************************************************)
EXTENDS ThreadedPool, TLC

CONSTANTS owner, t1, t2

MCThreads == {owner, t1, t2}
MCSlots == {1}
MCHosts == {2, 3}
MCSymmetry == Permutations({t1, t2})
=============================================================================
