----------------------------- MODULE MCRedispp -----------------------------
(* Three reply variables and one command of each kind of answer.           *)
EXTENDS TestResources, TLC

CONSTANTS r1, r2, r3

MCHandles == {r1, r2, r3}
MCCalls == {"set", "get", "incr", "lrange"}
MCLengths == {0, 2}
HandleSymmetry == Permutations(MCHandles)
=============================================================================
