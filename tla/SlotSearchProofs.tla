-------------------------- MODULE SlotSearchProofs --------------------------
(* Proofs about SlotSearch, for any ranges and keys.                       *)
EXTENDS SlotSearch, TLAPS, SequenceTheorems

\* searchBySlots steps back to the right range: if the ranges of the cluster do
\* not overlap, it finds the one that holds the slot.
THEOREM SearchFinds ==
    ASSUME NEW nodes \in SUBSET SlotRange, Disjoint(nodes), NonEmpty(nodes),
           NEW index \in Slot
    PROVE  \A r \in nodes : Holds(r, index) => searchBySlots(index, nodes) = r
<1> DEFINE B == Before(index, nodes)
<1>1. ASSUME NEW r \in nodes
      PROVE  r.first \in Nat /\ r.last \in Nat /\ r.first \in Slot
  <2>1. r.first \in Slot /\ r.last \in Slot BY DEF SlotRange
  <2>2. \A s \in Slot : s \in Nat BY DEF Slot, SlotCount
  <2> QED BY <2>1, <2>2
<1>2. index \in Nat BY DEF Slot, SlotCount
<1>3. ASSUME NEW r \in nodes, Holds(r, index) PROVE searchBySlots(index, nodes) = r
  <2>1. r \in B BY <1>1, <1>2, <1>3 DEF Before, Holds
  <2>2. ASSUME NEW q \in B, r.first <= q.first PROVE q = r
    <3>1. q \in nodes /\ q.first <= index BY <1>1, <1>2 DEF Before
    <3>2. Holds(q, q.first) BY <1>1, <3>1 DEF NonEmpty, Holds
    <3>3. Holds(r, q.first) BY <1>1, <1>2, <1>3, <2>2, <3>1 DEF Holds
    <3> QED BY <1>1, <3>1, <3>2, <3>3 DEF Disjoint
  <2>3. \A q \in B : q.first <= r.first BY <1>1, <2>2 DEF Before
  <2>4. Rightmost(B) = r
    <3>1. Rightmost(B) \in B /\ \A q \in B : q.first <= Rightmost(B).first
      BY <2>1, <2>3 DEF Rightmost
    <3> QED BY <2>1, <2>2, <3>1
  <2> QED BY <1>1, <1>2, <1>3, <2>1, <2>4 DEF searchBySlots, Holds
<1> QED BY <1>3

\* Leftmost, the CHOOSE by which HashedPart models std::string::find, is the
\* member of a set of positions that no other precedes.
LEMMA LeftmostIs ==
    ASSUME NEW P, NEW m \in P, \A i \in P : i \in Nat /\ m <= i
    PROVE  Leftmost(P) = m
<1>1. Leftmost(P) \in P /\ \A j \in P : Leftmost(P) <= j BY Zenon DEF Leftmost
<1>2. Leftmost(P) <= m /\ m <= Leftmost(P) BY <1>1
<1>3. Leftmost(P) \in Nat /\ m \in Nat BY <1>1
<1> HIDE DEF Leftmost
<1> QED BY <1>2, <1>3

\* A { and a } with something between them and no { before them: only what is
\* between them is hashed, so that keys with the same tag share their slot.
THEOREM TagIsHashed ==
    ASSUME NEW Char,
           NEW before \in Seq(Char), NEW tag \in Seq(Char), NEW after \in Seq(Char),
           OpenBrace \in Char, CloseBrace \in Char, tag # <<>>,
           \A i \in 1..Len(before) : before[i] # OpenBrace,
           \A i \in 1..Len(tag) : tag[i] # CloseBrace
    PROVE  HashedPart(before \o <<OpenBrace>> \o tag \o <<CloseBrace>> \o after) = tag
<1> DEFINE key == before \o <<OpenBrace>> \o tag \o <<CloseBrace>> \o after
           m == Len(before) + 1
           n == m + Len(tag) + 1
<1>1. /\ m \in Nat /\ n \in Nat /\ m >= 1 /\ n > m + 1
      /\ key \in Seq(Char) /\ Len(key) = n + Len(after)
      /\ \A i \in 1..Len(key) :
           key[i] = IF i < m THEN before[i] ELSE IF i = m THEN OpenBrace
                    ELSE IF i < n THEN tag[i - m] ELSE IF i = n THEN CloseBrace
                    ELSE after[i - n]
  <2> DEFINE k1 == before \o <<OpenBrace>>
             k2 == k1 \o tag
             k3 == k2 \o <<CloseBrace>>
  <2>1. /\ <<OpenBrace>> \in Seq(Char) /\ Len(<<OpenBrace>>) = 1 /\ <<OpenBrace>>[1] = OpenBrace
        /\ <<CloseBrace>> \in Seq(Char) /\ Len(<<CloseBrace>>) = 1
        /\ <<CloseBrace>>[1] = CloseBrace
    OBVIOUS
  <2>0. m \in Nat /\ n \in Nat /\ m >= 1 /\ n > m + 1
    <3>1. Len(tag) \in Nat /\ Len(before) \in Nat /\ Len(tag) # 0 BY EmptySeq
    <3> QED BY <3>1
  <2>2. /\ k1 \in Seq(Char) /\ Len(k1) = m
        /\ \A i \in 1..m : k1[i] = IF i < m THEN before[i] ELSE OpenBrace
    BY <2>1, <2>0, ConcatProperties
  <2> HIDE DEF k1
  <2>3. /\ k2 \in Seq(Char) /\ Len(k2) = n - 1
        /\ \A i \in 1..(n - 1) : k2[i] = IF i <= m THEN k1[i] ELSE tag[i - m]
    <3>1. m + Len(tag) = n - 1 BY <2>0
    <3> HIDE DEF m, n
    <3>2. /\ k1 \o tag \in Seq(Char) /\ Len(k1 \o tag) = Len(k1) + Len(tag)
          /\ \A i \in 1..Len(k1) + Len(tag) :
               (k1 \o tag)[i] = IF i <= Len(k1) THEN k1[i] ELSE tag[i - Len(k1)]
      BY <2>2, ConcatProperties
    <3> QED BY <2>2, <2>0, <3>1, <3>2
  <2> HIDE DEF k2
  <2>4. /\ k3 \in Seq(Char) /\ Len(k3) = n
        /\ \A i \in 1..n : k3[i] = IF i < n THEN k2[i] ELSE CloseBrace
    <3> HIDE DEF m, n
    <3> QED BY <2>1, <2>3, <2>0, ConcatProperties
  <2> HIDE DEF k3
  <2>5. /\ key \in Seq(Char) /\ Len(key) = n + Len(after)
        /\ \A i \in 1..Len(key) : key[i] = IF i <= n THEN k3[i] ELSE after[i - n]
    <3>1. key = k3 \o after BY DEF k1, k2, k3
    <3> HIDE DEF m, n, key
    <3>2. /\ k3 \o after \in Seq(Char) /\ Len(k3 \o after) = Len(k3) + Len(after)
          /\ \A i \in 1..Len(k3) + Len(after) :
               (k3 \o after)[i] = IF i <= Len(k3) THEN k3[i] ELSE after[i - Len(k3)]
      BY <2>4, ConcatProperties
    <3> QED BY <2>4, <2>0, <3>1, <3>2
  <2>6. ASSUME NEW i \in 1..Len(key)
        PROVE  key[i] = IF i < m THEN before[i] ELSE IF i = m THEN OpenBrace
                        ELSE IF i < n THEN tag[i - m] ELSE IF i = n THEN CloseBrace
                        ELSE after[i - n]
    <3> HIDE DEF m, n, key
    <3>1. CASE i <= n
      <4>1. key[i] = k3[i] /\ i \in 1..n BY <2>5, <2>0, <3>1
      <4>2. CASE i = n BY <2>4, <2>0, <4>1, <4>2
      <4>3. CASE i < n
        <5>1. key[i] = k2[i] /\ i \in 1..(n - 1) BY <2>4, <2>0, <4>1, <4>3
        <5>2. i > m => key[i] = tag[i - m] BY <2>3, <2>0, <5>1
        <5>3. i <= m => key[i] = k1[i] /\ i \in 1..m BY <2>3, <2>0, <5>1
        <5> QED BY <2>2, <2>0, <4>3, <5>1, <5>2, <5>3
      <4> QED BY <2>0, <3>1, <4>1, <4>2, <4>3
    <3>2. CASE i > n BY <2>5, <2>0, <3>2
    <3> QED BY <2>5, <2>0, <3>1, <3>2
  <2> QED BY <2>5, <2>0, <2>6
<1> HIDE DEF key
<1>0. Len(tag) = n - m - 1 /\ Len(before) = m - 1 BY <1>1
<1> HIDE DEF m, n
<1>2. Leftmost(Positions(key, OpenBrace, 1)) = m /\ m \in Positions(key, OpenBrace, 1)
  <2>1. m \in Positions(key, OpenBrace, 1) BY <1>1 DEF Positions
  <2>2. ASSUME NEW i \in Positions(key, OpenBrace, 1), ~(m <= i) PROVE FALSE
    <3>1. i \in Nat /\ 1 <= i /\ i < m /\ i \in 1..Len(key) /\ key[i] = OpenBrace
      BY <1>1, <2>2 DEF Positions
    <3>2. key[i] = before[i] /\ i \in 1..Len(before) BY <1>0, <1>1, <3>1
    <3> QED BY <3>1, <3>2
  <2>3. \A i \in Positions(key, OpenBrace, 1) : i \in Nat BY <1>1 DEF Positions
  <2>4. \A i \in Positions(key, OpenBrace, 1) : m <= i BY <2>2
  <2> HIDE DEF key
  <2>5. Leftmost(Positions(key, OpenBrace, 1)) = m BY <1>1, <2>1, <2>3, <2>4, LeftmostIs
  <2> QED BY <2>1, <2>5
<1>3. /\ Leftmost(Positions(key, CloseBrace, m + 1)) = n
      /\ n \in Positions(key, CloseBrace, m + 1)
  <2>1. n \in Positions(key, CloseBrace, m + 1) BY <1>1 DEF Positions
  <2>2. ASSUME NEW i \in Positions(key, CloseBrace, m + 1), ~(n <= i) PROVE FALSE
    <3>1. i \in Nat /\ m < i /\ i < n /\ i \in 1..Len(key) /\ key[i] = CloseBrace
      BY <1>1, <2>2 DEF Positions
    <3>2. key[i] = tag[i - m] /\ i - m \in 1..Len(tag) BY <1>0, <1>1, <3>1
    <3> QED BY <3>1, <3>2
  <2>3. \A i \in Positions(key, CloseBrace, m + 1) : i \in Nat BY <1>1 DEF Positions
  <2>4. \A i \in Positions(key, CloseBrace, m + 1) : n <= i BY <2>2
  <2>5. Leftmost(Positions(key, CloseBrace, m + 1)) = n
    BY <1>1, <2>1, <2>3, <2>4, LeftmostIs
  <2> QED BY <2>1, <2>5
<1>4. HashedPart(key) = SubSeq(key, m + 1, n - 1) BY <1>1, <1>2, <1>3 DEF HashedPart
<1>5. SubSeq(key, m + 1, n - 1) = tag
  <2> DEFINE t == SubSeq(key, m + 1, n - 1)
  <2>1. t \in Seq(Char) /\ Len(t) = Len(tag) /\ \A i \in 1..Len(t) : t[i] = key[m + i]
    BY <1>0, <1>1, SubSeqProperties
  <2>2. \A i \in 1..Len(tag) : key[m + i] = tag[i] BY <1>0, <1>1
  <2> HIDE DEF t
  <2>3. t = tag BY <2>1, <2>2, SeqEqual
  <2> QED BY <2>3 DEF t
<1> QED BY <1>4, <1>5 DEF key
=============================================================================
