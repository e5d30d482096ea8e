---------------------------- MODULE MCMasterData ----------------------------
(* Small instances of MasterData. *)
EXTENDS MasterData, TLC

CONSTANTS w1, w2, area, tax, i1, i2, v1, v2

MCWorkers == {w1, w2}
MCTitles == {area, tax}
MCIds == {i1, i2}
MCKeys == MCTitles \X MCIds
MCValues == {v1, v2}
Rec(i, v) == [id |-> i, value |-> v]

\* One record with either value, both, one twice, one without id.
MCBatches == {
    <<Rec(i1, v1)>>,
    <<Rec(i1, v2), Rec(i2, v1)>>,
    <<Rec(i1, v1), Rec(i1, v2)>>,
    <<Rec(i2, v1), Rec(NoId, v1)>> }

MCModes == { {"throw"}, {"error", "throw", "stale"} }
MCNone == { {} }
MCSymmetry == Permutations(MCWorkers)
=============================================================================
