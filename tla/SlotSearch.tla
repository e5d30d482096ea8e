----------------------------- MODULE SlotSearch -----------------------------
(***************************************************************************)
(* From a key to the connections of its node: SlotByKey (slothash.h) and   *)
(* searchBySlots (container.h), which the containers of the cluster share. *)
(* nodes is the set of keys of the map nodes_: it is ordered by the first  *)
(* slot of a range, and has no two ranges with the same first slot.        *)
(***************************************************************************)
EXTENDS Integers, Sequences

CONSTANTS Strings,               \* keys, and parts of them
          OpenBrace, CloseBrace, \* the characters { and }
          Crc16,                 \* crc16, of 16 bits
          NodeSearchException    \* thrown for a slot that no range holds

SlotCount == 16384
Slot == 0..(SlotCount - 1)
SlotRange == [first : Slot, last : Slot]

-----------------------------------------------------------------------------
(* SlotByKey                                                               *)

Positions(key, c, from) == {i \in from..Len(key) : key[i] = c}
Leftmost(S) == CHOOSE i \in S : \A j \in S : i <= j

\* What is between the first { and the first } behind it, unless one of them
\* is missing or nothing is between them.
HashedPart(key) ==
    LET opening == Positions(key, OpenBrace, 1)
        s == Leftmost(opening)
        closing == Positions(key, CloseBrace, s + 1)
        e == Leftmost(closing)
    IN  IF opening = {} \/ closing = {} \/ e = s + 1 THEN key
        ELSE SubSeq(key, s + 1, e - 1)

ASSUME SlotHashAssumption ==
    /\ OpenBrace # CloseBrace
    /\ \A key \in Strings : HashedPart(key) \in Strings
    /\ Crc16 \in [Strings -> 0..65535]
    /\ NodeSearchException \notin SlotRange

SlotByKey(key) == Crc16[HashedPart(key)] % SlotCount

-----------------------------------------------------------------------------
(* searchBySlots                                                           *)

\* The ranges before lower_bound({index + 1, 0}), and the last one of them.
Before(index, nodes) == {r \in nodes : r.first < index + 1}
Rightmost(S) == CHOOSE r \in S : \A q \in S : q.first <= r.first

\* Before the first range libstdc++ finds end().  (In an empty map it has no
\* node to step back to: nodes is not empty.)
searchBySlots(index, nodes) ==
    LET node == Rightmost(Before(index, nodes)) IN
    IF Before(index, nodes) = {} THEN NodeSearchException
    ELSE IF node.first > index \/ node.last < index THEN NodeSearchException
    ELSE node

-----------------------------------------------------------------------------
(* What the caller relies on                                               *)

Holds(r, index) == r.first <= index /\ index <= r.last
Disjoint(nodes) == \A r, q \in nodes : \A i \in Slot : Holds(r, i) /\ Holds(q, i) => r = q
NonEmpty(nodes) == \A r \in nodes : r.first <= r.last
=============================================================================
