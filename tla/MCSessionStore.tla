--------------------------- MODULE MCSessionStore ---------------------------
(* Small instances of SessionStore. *)
EXTENDS SessionStore, TLC

CONSTANTS w1, w2, s1, s2, v1, v2

MCWorkers == {w1, w2}
MCKeys == {s1, s2}
MCValues == {v1, v2, Empty}
SessionItem(k, v) == [id |-> k, value |-> v]

\* Two sessions in both orders, one session twice, an object, a scalar and
\* no value, an item without session and a request without items.
MCBatches == {
    <<>>,
    <<SessionItem(s1, v1)>>,
    <<SessionItem(s1, v2)>>,
    <<SessionItem(s2, Scalar)>>,
    <<SessionItem(s1, NoChild)>>,
    <<SessionItem(s1, v1), SessionItem(s2, v2)>>,
    <<SessionItem(s2, v1), SessionItem(s1, v1)>>,
    <<SessionItem(s1, v1), SessionItem(s1, v2)>>,
    <<SessionItem(s2, v2), SessionItem(NoId, v1)>> }

MCModes == { {"throw"}, {"error", "throw", "stale"} }
MCErrors == { {"error"} }
MCSymmetry == Permutations(MCWorkers)
=============================================================================
