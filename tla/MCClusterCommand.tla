-------------------------- MODULE MCClusterCommand --------------------------
(* Small instances of ClusterCommand.                                      *)
EXTENDS ClusterCommand, SlotSearch

CONSTANTS owner, t1

MCThreads == {owner, t1}
MCSlots == {1}
MCHosts == {2}
MCAllReplies == {"ok", "error", "ask", "moved", "clusterdown", "lost"}
MCAllAsking == {"ok", "error", "lost"}

\* Keys of up to four characters, and ranges within the first four slots.
MCChars == {OpenBrace, CloseBrace, "x"}
MCStrings == UNION {[1..n -> MCChars] : n \in 0..4}
MCCrc16 == [str \in MCStrings |-> Len(str)]
MCRanges == {r \in [first : 0..3, last : 0..3] : r.first <= r.last}

IsTag(str, s, e) ==
    /\ str[s] = OpenBrace /\ str[e] = CloseBrace /\ e > s + 1
    /\ \A i \in 1..(s - 1) : str[i] # OpenBrace
    /\ \A i \in (s + 1)..(e - 1) : str[i] # CloseBrace

\* What is hashed is the tag if there is one, otherwise the str.
ASSUME HashedPartIsTag ==
    \A str \in MCStrings :
        LET tags == {SubSeq(str, p[1] + 1, p[2] - 1) :
                        p \in {q \in (1..Len(str)) \X (1..Len(str)) : IsTag(str, q[1], q[2])}}
        IN  HashedPart(str) \in IF tags = {} THEN {str} ELSE tags

\* The search finds the range that holds the slot, if there is one.
ASSUME SearchIsComplete ==
    \A nodes \in SUBSET MCRanges :
        (\A r, q \in nodes : r # q => r.last < q.first \/ q.last < r.first) =>
            \A i \in 0..3 :
                LET holding == {r \in nodes : Holds(r, i)} IN
                searchBySlots(i, nodes) \in
                    IF holding = {} THEN {NodeSearchException} ELSE holding
=============================================================================
