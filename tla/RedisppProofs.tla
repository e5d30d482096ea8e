---------------------------- MODULE RedisppProofs ----------------------------
(***************************************************************************)
(* Proofs about Redispp, for any number of reply variables and commands,   *)
(* enumerations of any length, and programs with or without transactions.  *)
(* First its types and shapes, whatever the program does with its replies. *)
(* Then the order: as long as nothing has put the replies out of step, the *)
(* lines in the stream are in the order of the replies that wait for them, *)
(* one contiguous block for each, and who reads next owns the first block. *)
(* Then enumerations: the lines of one answer are numbered, and the reader *)
(* goes on at the next.  Then the test resources, each of which has one    *)
(* reply at a time, so that whatever it reads is the answer it asked for.  *)
(***************************************************************************)
EXTENDS TestResources, TLAPS, SequenceTheorems, WellFoundedInduction

\* A step of the connection, whichever commands the program uses.
ClientStep ==
    \/ RedisppNext
    \/ \E h \in Handles, k \in ReplyKind : \E command : Send(h, command, k)

-----------------------------------------------------------------------------
\* The calls of the program are well formed, and so are its reply objects.
Asking == call.op \in {"result", "next", "destroy", "assign"}
Ending == call.op \in {"commit", "abort", "end"}

CallShape ==
    /\ \/ call = Idle
       \/ /\ Asking /\ call.status # "mismatch" /\ call.on \in Handles
          /\ call.op = "assign" => call.from \in Handles /\ call.from # call.on
       \/ Ending /\ call.on = Queued
    /\ call.status = "threw" => ~Plain
    /\ call.status = "idle" => call = Idle
    /\ Ending => transaction \in {"Committed", "Aborted"}

ObjectShape(x) ==
    LET o == object[x] IN
    /\ x = Queued => o.kind \in {"Queued", "Free"}
    /\ x # Queued => o.kind # "Queued"
    /\ o.conn => o.kind # "Free" /\ o.place = o.cmd /\ o.cmd > 0
    /\ o.cmd <= sent
    /\ ~o.headerDone => o.count = 0 \/ x = Queued
    /\ o.headerDone => o.kind = "Multi"

Distinct == \A x, y \in Objects :
    x # y /\ object[x].conn /\ object[y].conn => object[x].cmd # object[y].cmd

Shapes == /\ CallShape
          /\ \A x \in Objects : ObjectShape(x)
          /\ Distinct
          /\ transaction = "none" <=> object[Queued].kind = "Free"
          /\ object[Queued].conn =>
                \/ transaction = "Dirty" /\ object[Queued].taken <= object[Queued].count
                \/ Ending /\ call.status = "reading"

-----------------------------------------------------------------------------
(* Types                                                                   *)

\* What a reader leaves of the stream, and what it stores, are lines.
LEMMA RestIsLines ==
    ASSUME NEW s \in Seq(Line), NEW reader \in Reader, NEW b \in BOOLEAN
    PROVE  Rest(reader, s, b) \in Seq(Line)
<1>1. CASE Jams(reader, s, b) BY <1>1 DEF Rest
<1>2. CASE ~Jams(reader, s, b)
  <2>1. s # <<>> BY <1>2 DEF Jams, Exhausted
  <2>2. Head(s) \in Line /\ Tail(s) \in Seq(Line) BY <2>1
  <2>3. [Head(s) EXCEPT !.kind = "text"] \in Line BY <2>2 DEF Line, LineKind
  <2>4. <<[Head(s) EXCEPT !.kind = "text"]>> \o Tail(s) \in Seq(Line) BY <2>2, <2>3
  <2> QED BY <1>2, <2>2, <2>4 DEF Rest
<1> QED BY <1>1, <1>2

LEMMA AcceptedIsLine ==
    ASSUME stream \in Seq(Line), NEW reader, Accepted(reader)
    PROVE  /\ stream # <<>> /\ ~bad
           /\ Head(stream) \in Line
           /\ Head(stream).kind \in Wanted(reader)
BY DEF Accepted, Accepts, Exhausted

LEMMA ReceivedIsLine ==
    ASSUME stream \in Seq(Line), NEW reader, Accepted(reader)
    PROVE  /\ Received \in Line
           /\ Received.of = Head(stream).of /\ Received.idx = Head(stream).idx
BY AcceptedIsLine DEF Received, Line, LineKind

LEMMA ReadLineTypes ==
    ASSUME stream \in Seq(Line), bad \in BOOLEAN, NEW reader \in Reader,
           ReadLine(reader)
    PROVE  stream' \in Seq(Line) /\ bad' \in BOOLEAN
<1>1. Rest(reader, stream, bad) \in Seq(Line) BY RestIsLines
<1>2. Jams(reader, stream, bad) \in BOOLEAN BY DEF Jams, Exhausted
<1>3. <<>> \in Seq(Line) OBVIOUS
<1>4. CASE stream' = Rest(reader, stream, bad) /\ bad' = Jams(reader, stream, bad)
  BY <1>1, <1>2, <1>4, Zenon
<1>5. CASE stream' = <<>> /\ bad' = TRUE
  BY <1>3, <1>5
<1> QED BY <1>4, <1>5, Zenon DEF ReadLine

\* The answers of the server are lines of the command they answer.
LEMMA RepliesOfKind ==
    ASSUME NEW kind \in ReplyKind, NEW c
    PROVE  /\ kind = "Void" => Replies(kind, c) = {<<LineOf("status", 0, c, 0)>>}
           /\ kind \in {"Bool", "Int"} =>
                 Replies(kind, c) = {<<LineOf("int", n, c, 0)>> : n \in 0..1}
           /\ kind = "String" => Replies(kind, c) = {<<LineOf("nil", -1, c, 0)>>,
                                                    <<LineOf("bulk", 1, c, 0)>>}
           /\ kind = "Multi" => Replies(kind, c) = {MultiAnswer(c, n) : n \in Lengths}
BY ONLY kind \in ReplyKind DEF Replies, ReplyKind, SimpleKind

LEMMA AnswersAreLines ==
    ASSUME RedisppAssumption, NEW kind \in ReplyKind, NEW c \in Nat,
           NEW a \in Answers(kind, c)
    PROVE  a \in Seq(Line)
<1>1. \A k \in LineKind, n \in Int, i \in Nat : LineOf(k, n, c, i) \in Line
  BY DEF LineOf, Line
<1>2. \A n \in Lengths : MultiAnswer(c, n) \in Seq(Line)
  <2> SUFFICES ASSUME NEW n \in Lengths PROVE MultiAnswer(c, n) \in Seq(Line) OBVIOUS
  <2>1. n \in Nat BY DEF RedisppAssumption
  <2>2. \A i \in 1..(n + 1) : (IF i = 1 THEN LineOf("multi", n, c, 0)
                                        ELSE LineOf("bulk", 1, c, i - 1)) \in Line
    BY <1>1, <2>1 DEF LineKind
  <2>3. MultiAnswer(c, n) \in [1..(n + 1) -> Line] BY <2>2 DEF MultiAnswer
  <2> QED BY <2>1, <2>3, IsASeq
<1>3. \A k \in LineKind, n \in Int : <<LineOf(k, n, c, 0)>> \in Seq(Line)
  BY <1>1
<1>4. a \in Replies(kind, c) \/ a = <<LineOf("error", 0, c, 0)>> BY DEF Answers
<1>5. CASE a = <<LineOf("error", 0, c, 0)>> BY <1>3, <1>5 DEF LineKind
<1>6. CASE kind = "Void" /\ a \in Replies(kind, c)
  <2>1. a = <<LineOf("status", 0, c, 0)>> BY <1>6, RepliesOfKind
  <2> QED BY <1>3, <2>1 DEF LineKind
<1>7. CASE kind \in {"Bool", "Int"} /\ a \in Replies(kind, c)
  <2>1. PICK n \in 0..1 : a = <<LineOf("int", n, c, 0)>> BY <1>7, RepliesOfKind
  <2> QED BY <1>3, <2>1 DEF LineKind
<1>8. CASE kind = "String" /\ a \in Replies(kind, c)
  <2>1. a = <<LineOf("nil", -1, c, 0)>> \/ a = <<LineOf("bulk", 1, c, 0)>>
    BY <1>8, RepliesOfKind
  <2>2. "nil" \in LineKind /\ "bulk" \in LineKind /\ -1 \in Int /\ 1 \in Int BY DEF LineKind
  <2> QED BY <1>3, <2>1, <2>2
<1>9. CASE kind = "Multi" /\ a \in Replies(kind, c)
  <2>1. PICK n \in Lengths : a = MultiAnswer(c, n) BY <1>9, RepliesOfKind
  <2> QED BY <1>2, <2>1
<1> QED BY <1>4, <1>5, <1>6, <1>7, <1>8, <1>9 DEF ReplyKind, SimpleKind

\* The operators on reply objects keep their type.
LEMMA FreeIsObject == Free \in Object
<1>1. <<>> \in Seq(Line) OBVIOUS
<1>2. NoLine \in Line BY DEF NoLine, LineOf, Line, LineKind
<1> QED BY <1>1, <1>2 DEF Free, Object

LEMMA NewReplyIsObject ==
    ASSUME NEW kind \in ReplyKind \cup {"Queued"}, sent \in Nat
    PROVE  NewReply(kind) \in Object
<1>1. [Free EXCEPT !.kind = kind] \in Object BY FreeIsObject DEF Object
<1>2. sent + 1 \in Nat OBVIOUS
<1> QED BY <1>1, <1>2, FreeIsObject DEF NewReply, Object, Free

LEMMA UnlinkedIsObject ==
    ASSUME NEW o \in Object
    PROVE  Unlinked(o) \in Object /\ InPlaceOf(o) \in Object /\ OneLess(o) \in Object
<1>1. Unlinked(o) \in Object BY DEF Unlinked, Object
<1>2. InPlaceOf(o) \in Object
  <2>1. (IF o.conn THEN o.place ELSE 0) \in Nat BY DEF Object
  <2> QED BY <2>1 DEF InPlaceOf, Object
<1>3. OneLess(o) \in Object
  <2>1. o.count - 1 \in Int BY DEF Object
  <2> QED BY <2>1 DEF OneLess, Object
<1> QED BY <1>1, <1>2, <1>3

LEMMA PendingIsObject ==
    ASSUME NEW o \in Object, NEW line \in Line
    PROVE  /\ HandOut(o, line) \in Object
           /\ PutAside(o, line) \in Object
           /\ Emptied(o) \in Object /\ LeftBehind(o) \in Object
           /\ o.pending # <<>> => OneFewer(o) \in Object /\ Head(o.pending) \in Line
<1>1. o.pending \in Seq(Line) /\ o.taken + 1 \in Nat BY DEF Object
<1>2. HandOut(o, line) \in Object BY <1>1 DEF HandOut, Object
<1>3. Append(o.pending, line) \in Seq(Line) BY <1>1
<1>4. PutAside(o, line) \in Object BY <1>3 DEF PutAside, Object
<1>5. Emptied(o) \in Object
  <2>1. <<>> \in Seq(Line) OBVIOUS
  <2> QED BY <2>1 DEF Emptied, Object
<1>6. LeftBehind(o) \in Object
  <2>1. Len(o.pending) \in Nat BY <1>1
  <2>2. Unlinked(o) \in Object BY UnlinkedIsObject
  <2>3. Unlinked(o).total - Len(o.pending) \in Int /\ <<>> \in Seq(Line)
    BY <2>1, <2>2 DEF Object
  <2> QED BY <2>2, <2>3 DEF LeftBehind, Object
<1>7. ASSUME o.pending # <<>> PROVE OneFewer(o) \in Object /\ Head(o.pending) \in Line
  <2>1. Tail(o.pending) \in Seq(Line) /\ Head(o.pending) \in Line BY <1>1, <1>7
  <2> QED BY <2>1 DEF OneFewer, Object
<1> QED BY <1>2, <1>4, <1>5, <1>6, <1>7

LEMMA LeaveAtEndIsObject ==
    ASSUME NEW o \in Object PROVE LeaveAtEnd(o) \in Object
BY UnlinkedIsObject DEF LeaveAtEnd

\* What is written and what the server does with it keep their types.
LEMMA OutcomeTypes ==
    ASSUME RedisppTypeOK, NEW A, \A a \in A : a \in Seq(Line), NEW o \in Outcomes(A)
    PROVE  o.lines \in Seq(Line) /\ o.state \in ServerState
<1> USE DEF RedisppTypeOK, ServerState
<1> DEFINE line(k) == <<LineOf(k, 0, object[Queued].cmd, server.size + 1)>>
<1>1. line("status") \in Seq(Line) /\ line("error") \in Seq(Line)
  <2>1. object[Queued].cmd \in Nat /\ server.size + 1 \in Nat BY DEF Objects, Object
  <2> QED BY <2>1 DEF LineOf, Line, LineKind
<1>2. <<>> \in Seq(Line) OBVIOUS
<1>3. CASE o = [lines |-> <<>>, state |-> server] BY <1>2, <1>3
<1>4. ASSUME NEW a \in A, o = [lines |-> a, state |-> server]
      PROVE o.lines \in Seq(Line) /\ o.state \in ServerState
  BY <1>4
<1>5. ASSUME NEW a \in A,
             o = [lines |-> line("status"),
                  state |-> [server EXCEPT !.size = @ + 1, !.queue = @ \o a]]
      PROVE o.lines \in Seq(Line) /\ o.state \in ServerState
  <2>1. server.queue \o a \in Seq(Line) /\ server.size + 1 \in Nat
    BY ConcatProperties
  <2>2. [server EXCEPT !.size = @ + 1, !.queue = @ \o a] \in ServerState BY <2>1
  <2> QED BY <1>1, <1>5, <2>2
<1>6. CASE o = [lines |-> line("error"), state |-> [server EXCEPT !.failed = TRUE]]
  <2>1. [server EXCEPT !.failed = TRUE] \in ServerState OBVIOUS
  <2> QED BY <1>1, <1>6, <2>1
<1> QED BY <1>3, <1>4, <1>5, <1>6 DEF Outcomes

LEMMA WriteTypes ==
    ASSUME RedisppTypeOK, NEW A, \A a \in A : a \in Seq(Line), Write(A)
    PROVE  stream' \in Seq(Line) /\ server' \in ServerState
<1>1. PICK o \in Outcomes(A) : stream' = stream \o o.lines /\ server' = o.state BY DEF Write
<1>2. o.lines \in Seq(Line) /\ o.state \in ServerState BY OutcomeTypes
<1>3. stream \in Seq(Line) BY DEF RedisppTypeOK
<1> QED BY <1>1, <1>2, <1>3, ConcatProperties
\* What the actions say about call and culprit keeps their types.
CallState == [op : Operation, on : Objects \cup {NoObject},
              from : Objects \cup {NoObject}, status : Status]

LEMMA CallTypes ==
    ASSUME call \in CallState
    PROVE  /\ Idle \in CallState
           /\ \A op \in Operation, h \in Objects, g \in Objects \cup {NoObject} :
                 Using(op, h, g) \in CallState
           /\ [call EXCEPT !.status = "mismatch"] \in CallState
           /\ Throw => call' \in CallState
           /\ \A x : Over(x) => call' \in CallState
<1>1. Idle \in CallState BY DEF Idle, CallState, Operation, Status
<1>2. \A op \in Operation, h \in Objects, g \in Objects \cup {NoObject} :
          Using(op, h, g) \in CallState
  BY DEF Using, CallState, Status
<1>3. /\ [call EXCEPT !.status = "mismatch"] \in CallState
      /\ [call EXCEPT !.status = "threw"] \in CallState
  BY DEF CallState, Status
<1>4. Throw => call' \in CallState BY <1>1, <1>3, Zenon DEF Throw
<1>5. \A x : Over(x) => call' \in CallState BY <1>1, Zenon DEF Over
<1> QED BY <1>1, <1>2, <1>3, <1>4, <1>5

LEMMA BlameTypes ==
    ASSUME culprit \in Culprit, NEW condition, NEW reason \in Culprit,
           BlameIf(condition, reason)
    PROVE  culprit' \in Culprit
BY DEF BlameIf

\* Every step keeps the types.
LEMMA TypesAreKept ==
    ASSUME RedisppAssumption, RedisppTypeOK, CallShape, [ClientStep]_vars
    PROVE  RedisppTypeOK'
<1> DEFINE Kept == /\ stream' \in Seq(Line) /\ bad' \in BOOLEAN /\ sent' \in 0..MaxCommands
                   /\ object' \in [Objects -> Object]
                   /\ transaction' \in {"none", "Dirty", "Committed", "Aborted"}
                   /\ server' \in ServerState /\ call' \in CallState
                   /\ culprit' \in Culprit
<1>1. SUFFICES Kept BY DEF RedisppTypeOK, CallState
<1>2. /\ stream \in Seq(Line) /\ bad \in BOOLEAN /\ sent \in 0..MaxCommands
      /\ object \in [Objects -> Object]
      /\ transaction \in {"none", "Dirty", "Committed", "Aborted"}
      /\ server \in ServerState /\ call \in CallState
      /\ culprit \in Culprit
  BY DEF RedisppTypeOK, CallState
<1>3. /\ sent \in Nat /\ Queued \in Objects /\ Handles \subseteq Objects
      /\ MaxCommands \in Nat
  BY <1>2 DEF Objects, RedisppAssumption
<1>4. \A x \in Objects : object[x] \in Object BY <1>2
<1>5. /\ [object EXCEPT ![Queued] = Counted] \in [Objects -> Object]
      /\ \A h \in Handles, k \in ReplyKind :
           [object EXCEPT ![h] = NewReply(k), ![Queued] = Counted] \in [Objects -> Object]
  <2>1. Counted \in Object
    <3>1. (IF transaction = "none" THEN object[Queued].count
                                   ELSE object[Queued].count + 1) \in Int
      BY <1>3, <1>4 DEF Object
    <3> QED BY <1>3, <1>4, <3>1 DEF Counted, Object
  <2>2. \A k \in ReplyKind : NewReply(k) \in Object BY <1>3, NewReplyIsObject
  <2> QED BY <1>2, <1>3, <2>1, <2>2
<1>6. \A kind \in ReplyKind : \A a \in Answers(kind, sent + 1) : a \in Seq(Line)
  BY <1>3, AnswersAreLines
<1>7. \A r \in {"none", "dropped", "swallowed", "overwritten", "type", "bare",
                "nested", "order", "early", "aborted", "refused"}, c \in BOOLEAN :
        BlameIf(c, r) => culprit' \in Culprit
  BY <1>2, BlameTypes DEF Culprit

<1>10. ASSUME NEW h \in Handles, NEW k \in ReplyKind, NEW command, Send(h, command, k)
       PROVE Kept
  <2>1. sent + 1 \in 0..MaxCommands BY <1>2, <1>3, <1>10 DEF Send, MaySend
  <2>2. stream' \in Seq(Line) /\ server' \in ServerState
    BY <1>6, <1>10, WriteTypes DEF Send
  <2> QED BY <1>2, <1>5, <1>10, <2>1, <2>2 DEF Send
<1>11. CASE Type
  <2>1. sent + 1 \in 0..MaxCommands BY <1>2, <1>3, <1>11 DEF Type, MaySend
  <2>2. PICK o \in Outcomes(Answers("Void", sent + 1)) :
          /\ stream' = Rest("status", stream \o o.lines, bad)
          /\ bad' = Jams("status", stream \o o.lines, bad)
          /\ server' = o.state
    BY <1>11 DEF Type
  <2>3. o.lines \in Seq(Line) /\ o.state \in ServerState
    BY <1>6, OutcomeTypes DEF ReplyKind, SimpleKind
  <2>4. stream \o o.lines \in Seq(Line) BY <1>2, <2>3, ConcatProperties
  <2>5. stream' \in Seq(Line) BY <1>2, <2>2, <2>4, RestIsLines DEF Reader
  <2>6. bad' \in BOOLEAN
    <3>1. Jams("status", stream \o o.lines, bad) \in BOOLEAN BY DEF Jams, Exhausted
    <3> QED BY <2>2, <3>1, Zenon
  <2>7. culprit' \in Culprit BY <1>2, <1>11, BlameTypes DEF Type, Culprit
  <2> QED BY <1>2, <1>11, <2>1, <2>2, <2>3, <2>5, <2>6, <2>7 DEF Type
<1>12. ASSUME NEW command \in BareCommands, Bare(command) PROVE Kept
  <2>1. sent + 1 \in 0..MaxCommands BY <1>2, <1>3, <1>12 DEF Bare, MaySend
  <2>2. BareAnswers(command, sent + 1) \subseteq Seq(Line)
    <3>1. \A k \in LineKind, n \in Int, i \in Nat : LineOf(k, n, sent + 1, i) \in Line
      BY <1>3 DEF LineOf, Line
    <3>2. /\ <<LineOf("status", 0, sent + 1, 0)>> \in Seq(Line)
          /\ <<>> \in Seq(Line)
          /\ <<LineOf("multi", 3, sent + 1, 0), LineOf("bulk", 1, sent + 1, 1),
               LineOf("bulk", 1, sent + 1, 2), LineOf("int", 1, sent + 1, 3)>> \in Seq(Line)
      BY <3>1 DEF LineKind
    <3> QED BY <3>2 DEF BareAnswers
  <2>3. stream' \in Seq(Line) /\ server' \in ServerState
    BY <1>12, <2>2, WriteTypes DEF Bare
  <2>4. culprit' \in Culprit BY <1>2, <1>12, BlameTypes DEF Bare, Culprit
  <2> QED BY <1>2, <1>12, <2>1, <2>3, <2>4 DEF Bare
<1>13. ASSUME NEW h \in Handles, Result(h) \/ NextElement(h) \/ Destroy(h) PROVE Kept
  <2>1. PICK op \in Operation : call' = Using(op, h, NoObject)
    BY <1>13 DEF Result, NextElement, Destroy, Operation
  <2>2. call' \in CallState BY <1>2, <1>3, <2>1, CallTypes
  <2>3. culprit' \in Culprit
    BY <1>2, <1>13, BlameTypes DEF Result, NextElement, Destroy, Culprit
  <2> QED BY <1>2, <1>13, <2>2, <2>3 DEF Result, NextElement, Destroy
<1>14. ASSUME NEW h \in Handles, NEW g \in Handles, Assign(h, g) PROVE Kept
  <2>1. call' = Using("assign", h, g) /\ "assign" \in Operation BY <1>14 DEF Assign, Operation
  <2>2. call' \in CallState BY <1>2, <1>3, <2>1, CallTypes
  <2>3. culprit' \in Culprit BY <1>2, <1>14, BlameTypes DEF Assign, Culprit
  <2> QED BY <1>2, <1>14, <2>2, <2>3 DEF Assign
<1>15. ASSUME NEW h \in Handles, NEW g \in Handles, Copy(h, g) PROVE Kept
  <2>1. InPlaceOf(object[g]) \in Object /\ LeftBehind(object[g]) \in Object
    BY <1>3, <1>4, UnlinkedIsObject, PendingIsObject, FreeIsObject DEF Free, Object
  <2>2. object' = [object EXCEPT ![h] = InPlaceOf(object[g]), ![g] = LeftBehind(object[g])]
    BY <1>15 DEF Copy
  <2>3. object' \in [Objects -> Object] BY <1>2, <1>3, <2>1, <2>2
  <2> QED BY <1>2, <1>15, <2>3 DEF Copy

<1>20. \A x \in Objects, o \in Object : [object EXCEPT ![x] = o] \in [Objects -> Object]
  BY <1>2
<1>21. \A reader \in Reader : ReadLine(reader) => stream' \in Seq(Line) /\ bad' \in BOOLEAN
  BY <1>2, ReadLineTypes
<1>22. \A x \in Objects : Unlinked(object[x]) \in Object /\ OneLess(object[x]) \in Object
  BY <1>4, UnlinkedIsObject
<1>23. /\ Idle \in CallState /\ [call EXCEPT !.status = "mismatch"] \in CallState
       /\ Throw => call' \in CallState
       /\ \A x : Over(x) => call' \in CallState
  BY <1>2, CallTypes
<1>24. \A reader : Accepted(reader) => /\ Received \in Line /\ Head(stream) \in Line
                                       /\ Head(stream).n \in Int
  BY <1>2, AcceptedIsLine, ReceivedIsLine DEF Line
<1>30. ASSUME NEW x \in Objects, ReadSimple(x) PROVE Kept
  <2> DEFINE reader == LineReader(object[x].kind)
  <2>1. reader \in Reader BY <1>30 DEF ReadSimple, LineReader, SimpleKind, Reader
  <2>2. ReadLine(reader) BY <1>30 DEF ReadSimple
  <2>3. CASE /\ Accepted(reader) /\ Over(x)
             /\ object' = [object EXCEPT ![x] = [Unlinked(@) EXCEPT !.value = Received]]
    <3>1. [Unlinked(object[x]) EXCEPT !.value = Received] \in Object
      BY <1>22, <1>24, <2>3 DEF Object
    <3>2. object' \in [Objects -> Object] BY <1>20, <2>3, <3>1
    <3> QED BY <1>2, <1>21, <1>23, <1>30, <2>1, <2>2, <2>3, <3>2 DEF ReadSimple
  <2>4. CASE object' = [object EXCEPT ![x].conn = FALSE] /\ Throw
    <3>1. [object[x] EXCEPT !.conn = FALSE] \in Object BY <1>4 DEF Object
    <3>2. object' \in [Objects -> Object] BY <1>20, <2>4, <3>1
    <3> QED BY <1>2, <1>21, <1>23, <1>30, <2>1, <2>2, <2>4, <3>2 DEF ReadSimple
  <2> HIDE DEF reader
  <2> QED BY <1>30, <2>3, <2>4 DEF ReadSimple, reader
<1>31. ASSUME NEW x \in Objects, ReadHeader(x) PROVE Kept
  <2> DEFINE o == [object[x] EXCEPT !.headerDone = TRUE, !.count = Announced,
                                    !.total = Announced]
  <2>1. Announced \in Int
    <3>1. CASE Jams("multi", stream, bad) BY <3>1 DEF Announced
    <3>2. CASE ~Jams("multi", stream, bad)
      <4>1. Head(stream) \in Line BY <1>2, <3>2 DEF Jams, Exhausted
      <4> QED BY <3>2, <4>1 DEF Announced, Line
    <3> QED BY <3>1, <3>2
  <2>2. o \in Object BY <1>4, <2>1 DEF Object
  <2>3. Unlinked(o) \in Object BY <2>2, UnlinkedIsObject
  <2>4. object' = [object EXCEPT ![x] = Unlinked(o)] \/ object' = [object EXCEPT ![x] = o]
    BY <1>31 DEF ReadHeader
  <2>5. object' \in [Objects -> Object] BY <1>20, <2>2, <2>3, <2>4
  <2>6. call' \in CallState
    <3>1. Throw \/ Over(x) \/ call' = call BY <1>31 DEF ReadHeader
    <3> QED BY <1>2, <1>23, <3>1
  <2> QED BY <1>2, <1>21, <1>31, <2>5, <2>6 DEF ReadHeader, Reader
<1>32. ASSUME NEW x \in Objects, ReadElement(x) PROVE Kept
  <2>1. OneLess(object[x]) \in Object BY <1>22
  <2>2. CASE /\ Accepted("bulk") /\ Over(x)
             /\ object' = [object EXCEPT ![x] = HandOut(OneLess(@), Received)]
    <3>1. HandOut(OneLess(object[x]), Received) \in Object
      BY <1>24, <2>1, <2>2, PendingIsObject
    <3>2. object' \in [Objects -> Object] BY <1>20, <2>2, <3>1
    <3> QED BY <1>2, <1>21, <1>23, <1>32, <2>2, <3>2 DEF ReadElement, Reader
  <2>3. CASE object' = [object EXCEPT ![x] = OneLess(@)] /\ Throw
    <3>1. object' \in [Objects -> Object] BY <1>20, <2>1, <2>3
    <3> QED BY <1>2, <1>21, <1>23, <1>32, <2>3, <3>1 DEF ReadElement, Reader
  <2> QED BY <1>32, <2>2, <2>3 DEF ReadElement
<1>33. ASSUME NEW x \in Objects, DrainElement(x) PROVE Kept
  <2>1. OneLess(object[x]) \in Object BY <1>22
  <2>2. LeaveAtEnd(OneLess(object[x])) \in Object BY <2>1, LeaveAtEndIsObject
  <2>3. /\ object' = [object EXCEPT ![x] = LeaveAtEnd(OneLess(object[x]))]
              \/ object' = [object EXCEPT ![x] = OneLess(object[x])]
        /\ Throw \/ call' = call
    BY <1>33 DEF DrainElement
  <2>4. object' \in [Objects -> Object] BY <1>20, <2>1, <2>2, <2>3
  <2>5. call' \in CallState BY <1>2, <1>23, <2>3
  <2> QED BY <1>2, <1>21, <1>33, <2>4, <2>5 DEF DrainElement, Reader
<1>34. ASSUME NEW x \in Objects, ReadAhead(x) PROVE Kept
  <2> DEFINE o == OneLess(object[x])
  <2>1. o \in Object BY <1>22
  <2>2. CASE /\ Accepted("bulk") /\ call' = call
             /\ object' = [object EXCEPT ![x] = LeaveAtEnd(PutAside(OneLess(@), Received))]
    <3>1. LeaveAtEnd(PutAside(o, Received)) \in Object
      BY <1>24, <2>1, <2>2, PendingIsObject, LeaveAtEndIsObject
    <3>2. object' \in [Objects -> Object] BY <1>20, <2>2, <3>1
    <3> QED BY <1>2, <1>21, <1>34, <2>2, <3>2 DEF ReadAhead, Reader
  <2>3. CASE object' = [object EXCEPT ![x] = Emptied(OneLess(@))] /\ Throw
    <3>1. Emptied(o) \in Object BY <2>1, PendingIsObject, FreeIsObject DEF Free, Object
    <3>2. object' \in [Objects -> Object] BY <1>20, <2>3, <3>1
    <3> QED BY <1>2, <1>21, <1>23, <1>34, <2>3, <3>2 DEF ReadAhead, Reader
  <2> QED BY <1>34, <2>2, <2>3 DEF ReadAhead
<1>35. CASE NextPending
  <2> DEFINE o == object[call.on]
  <2>1. call.on \in Objects => o \in Object BY <1>4
  <2>2. CASE call.on \in Objects
    <3>1. OneFewer(o) \in Object /\ Head(o.pending) \in Line
      BY <1>35, <2>1, <2>2, PendingIsObject, FreeIsObject DEF NextPending, Free, Object
    <3>2. HandOut(OneFewer(o), Head(o.pending)) \in Object BY <3>1, PendingIsObject
    <3>3. object' \in [Objects -> Object] BY <1>20, <1>35, <2>2, <3>2 DEF NextPending
    <3> QED BY <1>2, <1>23, <1>35, <3>3 DEF NextPending
  <2>3. CASE call.on \notin Objects
    <3>1. object' = object BY <1>2, <1>35, <2>3 DEF NextPending
    <3> QED BY <1>2, <1>23, <1>35, <3>1 DEF NextPending
  <2> QED BY <2>2, <2>3
<1>36. CASE Return
  <2>1. object' \in [Objects -> Object]
    <3>1. CASE call.on \in Objects BY <1>2, <1>20, <1>22, <1>36, <3>1 DEF Return
    <3>2. CASE call.on \notin Objects
      <4>1. object' = object BY <1>2, <1>36, <3>2 DEF Return
      <4> QED BY <1>2, <4>1
    <3> QED BY <3>1, <3>2
  <2> QED BY <1>2, <1>23, <1>36, <2>1 DEF Return
<1>37. CASE Destroyed
  <2>1. object' \in [Objects -> Object]
    BY <1>2, <1>37, FreeIsObject DEF Destroyed
  <2>2. culprit' \in Culprit BY <1>2, <1>37, BlameTypes DEF Destroyed, Culprit
  <2> QED BY <1>2, <1>23, <1>37, <2>1, <2>2 DEF Destroyed
<1>38. CASE Assigned
  <2>0. call.from \in Objects
    BY <1>3, <1>38 DEF CallShape, Assigned, Asking, Ending, Idle
  <2>1. /\ Emptied(InPlaceOf(object[call.from])) \in Object
        /\ Unlinked(object[call.from]) \in Object
    BY <1>4, <2>0, UnlinkedIsObject, PendingIsObject, FreeIsObject DEF Free, Object
  <2>2. object' \in [Objects -> Object]
    BY <1>2, <1>38, <2>0, <2>1 DEF Assigned
  <2>3. culprit' \in Culprit BY <1>2, <1>38, BlameTypes DEF Assigned, Culprit
  <2> QED BY <1>2, <1>23, <1>38, <2>2, <2>3 DEF Assigned
<1>39. CASE Begin
  <2>1. sent + 1 \in 0..MaxCommands BY <1>2, <1>3, <1>39 DEF Begin, MaySend
  <2>2. object' \in [Objects -> Object]
    BY <1>3, <1>20, <1>39, NewReplyIsObject DEF Begin
  <2>3. stream' \in Seq(Line) /\ server' \in ServerState
    <3>1. LineOf("status", 0, sent + 1, 0) \in Line
      BY <1>3 DEF LineOf, Line, LineKind
    <3>2. NotInMulti \in ServerState
      <4>1. <<>> \in Seq(Line) OBVIOUS
      <4> QED BY <4>1 DEF NotInMulti, ServerState
    <3>3. [NotInMulti EXCEPT !.multi = TRUE] \in ServerState BY <3>2 DEF ServerState
    <3>4. Append(stream, LineOf("status", 0, sent + 1, 0)) \in Seq(Line) BY <1>2, <3>1
    <3> QED BY <1>2, <1>39, <3>3, <3>4 DEF Begin
  <2> QED BY <1>2, <1>39, <2>1, <2>2, <2>3 DEF Begin
<1>40. CASE BeginNested
  <2>1. culprit' \in Culprit BY <1>2, <1>40, BlameTypes DEF BeginNested, Culprit
  <2> QED BY <1>2, <1>5, <1>40, <2>1 DEF BeginNested
<1>41. /\ LineOf("status", 0, object[Queued].cmd, server.size + 1) \in Line
       /\ LineOf("error", 0, object[Queued].cmd, server.size + 1) \in Line
       /\ LineOf("multi", server.size, object[Queued].cmd, server.size + 1) \in Line
       /\ NotInMulti \in ServerState
  <2>1. object[Queued].cmd \in Nat /\ server.size \in Nat
    BY <1>2, <1>3, <1>4 DEF Object, ServerState
  <2>2. <<>> \in Seq(Line) OBVIOUS
  <2> QED BY <2>1, <2>2 DEF LineOf, Line, LineKind, NotInMulti, ServerState
<1>42. CASE Commit
  <2>1. ExecAnswer \in Seq(Line)
    <3>1. server.queue \in Seq(Line) BY <1>2 DEF ServerState
    <3>2. \A l \in Line : <<l>> \in Seq(Line) OBVIOUS
    <3>3. \A l \in Line : <<l>> \o server.queue \in Seq(Line)
      BY <3>1, <3>2, ConcatProperties
    <3>4. \/ ExecAnswer = <<LineOf("error", 0, object[Queued].cmd, server.size + 1)>>
          \/ ExecAnswer = <<LineOf("multi", server.size, object[Queued].cmd,
                                   server.size + 1)>> \o server.queue
      BY DEF ExecAnswer
    <3> QED BY ONLY <1>41, <3>2, <3>3, <3>4
  <2>2. stream' \in Seq(Line) /\ server' \in ServerState
    <3>1. stream \o ExecAnswer \in Seq(Line) BY <1>2, <2>1, ConcatProperties
    <3>2. CASE bad BY <1>2, <1>42, <3>2 DEF Commit, SendExec
    <3>3. CASE ~bad BY <1>41, <1>42, <3>1, <3>3 DEF Commit, SendExec
    <3> QED BY <3>2, <3>3
  <2>3. call' \in CallState
    BY <1>2, <1>3, <1>42, CallTypes DEF Commit, Operation
  <2>4. culprit' \in Culprit BY <1>2, <1>42, BlameTypes DEF Commit, Culprit
  <2> QED BY <1>2, <1>42, <2>2, <2>3, <2>4 DEF Commit
<1>43. ASSUME NEW op \in {"abort", "end"}, Abort(op) PROVE Kept
  <2>1. stream' \in Seq(Line) /\ server' \in ServerState
    BY <1>2, <1>41, <1>43 DEF Abort, SendDiscard
  <2>2. call' \in CallState
    BY <1>2, <1>3, <1>43, CallTypes DEF Abort, Operation
  <2>3. culprit' \in Culprit BY <1>2, <1>43, BlameTypes DEF Abort, Culprit
  <2> QED BY <1>2, <1>43, <2>1, <2>2, <2>3 DEF Abort
<1>44. CASE EndTransaction \/ TransactionEnded
  BY <1>2, <1>3, <1>20, <1>23, <1>44, FreeIsObject DEF EndTransaction, TransactionEnded
<1>45. CASE ReadStatuses
  <2>1. \A b \in BOOLEAN : [object[Queued] EXCEPT !.taken = @ + 1, !.conn = b] \in Object
    <3>1. object[Queued].taken + 1 \in Nat BY <1>3, <1>4 DEF Object
    <3> QED BY <1>3, <1>4, <3>1 DEF Object
  <2>2. [object[Queued] EXCEPT !.conn = FALSE] \in Object BY <1>3, <1>4 DEF Object
  <2>3. stream' \in Seq(Line) /\ bad' \in BOOLEAN BY <1>21, <1>45 DEF ReadStatuses, Reader
  <2>4. CASE /\ object' = [object EXCEPT ![Queued].taken = @ + 1,
                            ![Queued].conn = transaction # "Dirty"
                                               \/ object[Queued].taken < object[Queued].count]
             /\ UNCHANGED <<call, culprit>>
    <3> DEFINE b == transaction # "Dirty" \/ object[Queued].taken < object[Queued].count
    <3>1. b \in BOOLEAN OBVIOUS
    <3> HIDE DEF b
    <3>2. object' = [object EXCEPT ![Queued] = [object[Queued] EXCEPT !.taken = @ + 1,
                                                                     !.conn = b]]
      BY <1>2, <1>3, <2>4 DEF b
    <3>3. object' \in [Objects -> Object] BY <1>3, <1>20, <2>1, <3>1, <3>2
    <3> QED BY <1>2, <1>45, <2>3, <2>4, <3>3 DEF ReadStatuses
  <2>5. CASE /\ object' = [object EXCEPT ![Queued].conn = FALSE]
             /\ Throw /\ BlameIf(~bad', "refused")
    <3>1. object' \in [Objects -> Object] BY <1>3, <1>20, <2>2, <2>5
    <3>2. culprit' \in Culprit BY <1>2, <2>5, BlameTypes DEF Culprit
    <3> QED BY <1>2, <1>23, <1>45, <2>3, <2>5, <3>1, <3>2 DEF ReadStatuses
  <2> QED BY <1>45, <2>4, <2>5 DEF ReadStatuses
<1>46. CASE ReadVerdict
  <2>1. [object[Queued] EXCEPT !.conn = FALSE, !.taken = @ + 1] \in Object
    <3>1. object[Queued].taken + 1 \in Nat BY <1>3, <1>4 DEF Object
    <3> QED BY <1>3, <1>4, <3>1 DEF Object
  <2>2. object' = [object EXCEPT ![Queued] = [object[Queued] EXCEPT !.conn = FALSE,
                                                                   !.taken = @ + 1]]
    BY <1>2, <1>3, <1>46 DEF ReadVerdict
  <2>3. object' \in [Objects -> Object] BY <1>3, <1>20, <2>1, <2>2
  <2>4. stream' \in Seq(Line) /\ bad' \in BOOLEAN
    BY <1>21, <1>46 DEF ReadVerdict, Reader
  <2>5. call' \in CallState
    <3>1. Throw \/ Over(Queued) \/ call' = [call EXCEPT !.status = "mismatch"]
      BY <1>46 DEF ReadVerdict
    <3> QED BY <1>23, <3>1
  <2> QED BY <1>2, <1>46, <2>3, <2>4, <2>5 DEF ReadVerdict
<1>47. CASE Close
  <2>1. <<>> \in Seq(Line) OBVIOUS
  <2> QED BY <1>2, <1>47, <2>1 DEF Close
<1>48. CASE UNCHANGED vars BY <1>2, <1>48 DEF vars
<1> QED
  BY <1>10, <1>11, <1>12, <1>13, <1>14, <1>15, <1>30, <1>31, <1>32, <1>33, <1>34, <1>35,
     <1>36, <1>37, <1>38, <1>39, <1>40, <1>42, <1>43, <1>44, <1>45, <1>46, <1>47, <1>48
     DEF ClientStep, RedisppNext, Reading
-----------------------------------------------------------------------------
(* Shapes of objects and calls                                             *)

LEMMA Kinds ==
    ASSUME RedisppTypeOK
    PROVE  /\ Queued \in Objects /\ Handles \subseteq Objects
           /\ \A x \in Objects : x = Queued \/ x \in Handles
           /\ \A x \in Objects : object[x] \in Object
           /\ sent \in Nat
BY DEF RedisppTypeOK, Objects

\* Who waits in the list has not been changed into something else.
Follows(o, p, x) ==
    /\ o.kind = p.kind /\ o.cmd = p.cmd
    /\ o.conn => p.conn /\ o.place = p.place
    /\ ~o.headerDone => o.count = 0 \/ x = Queued
    /\ o.headerDone => p.headerDone \/ p.kind = "Multi"

ObjectShapes == /\ \A x \in Objects : ObjectShape(x)
                /\ Distinct

LEMMA OneFollows ==
    ASSUME RedisppTypeOK, ObjectShapes, NEW x \in Objects, NEW o,
           object' = [object EXCEPT ![x] = o], Follows(o, object[x], x), sent' = sent
    PROVE  ObjectShapes'
<1>1. \A y \in Objects : object'[y] = IF y = x THEN o ELSE object[y]
  BY DEF RedisppTypeOK
<1>2. ASSUME NEW y \in Objects PROVE ObjectShape(y)'
  BY <1>1 DEF ObjectShapes, ObjectShape, Follows
<1>3. Distinct'
  <2>1. \A y \in Objects : /\ object'[y].cmd = object[y].cmd
                           /\ object'[y].conn => object[y].conn
    BY <1>1 DEF Follows
  <2> QED BY <2>1 DEF ObjectShapes, Distinct
<1> QED BY <1>2, <1>3 DEF ObjectShapes

LEMMA FollowingOperators ==
    ASSUME NEW o \in Object, NEW x, o.headerDone, NEW line
    PROVE  /\ Follows(Unlinked(o), o, x)
           /\ Follows(OneLess(o), o, x)
           /\ Follows(HandOut(OneLess(o), line), o, x)
           /\ Follows(LeaveAtEnd(OneLess(o)), o, x)
           /\ Follows(LeaveAtEnd(PutAside(OneLess(o), line)), o, x)
           /\ Follows(Emptied(OneLess(o)), o, x)
<1> USE DEF Object, Follows
<1>1. Follows(Unlinked(o), o, x) BY DEF Unlinked
<1>2. Follows(OneLess(o), o, x) BY DEF OneLess
<1>3. Follows(HandOut(OneLess(o), line), o, x) BY DEF OneLess, HandOut
<1>4. Follows(LeaveAtEnd(OneLess(o)), o, x) BY DEF OneLess, LeaveAtEnd, Unlinked
<1>5. Follows(LeaveAtEnd(PutAside(OneLess(o), line)), o, x)
  BY DEF OneLess, LeaveAtEnd, Unlinked, PutAside
<1>6. Follows(Emptied(OneLess(o)), o, x) BY DEF OneLess, Emptied
<1> QED BY <1>1, <1>2, <1>3, <1>4, <1>5, <1>6

\* While a transaction ends, its QueuedReply is the only reader.
QueuedShape ==
    /\ transaction = "none" <=> object[Queued].kind = "Free"
    /\ object[Queued].conn =>
          \/ transaction = "Dirty" /\ object[Queued].taken <= object[Queued].count
          \/ Ending /\ call.status = "reading"

LEMMA EndingReader ==
    ASSUME RedisppTypeOK, Shapes, object[Queued].conn, Ending
    PROVE  Readers = {Queued}
<1>1. call.on = Queued /\ ~Asking
  BY DEF Shapes, CallShape, Ending, Asking, Idle
<1>2. object[Queued].kind # "Multi" BY Kinds DEF Shapes, ObjectShape
<1>3. ~Clears BY <1>1 DEF Clears, Asking
<1> QED BY <1>1, <1>2, <1>3 DEF Readers, Drains, Work

\* Throwing, finishing and returning keep the call well formed.
LEMMA CallShapeKept ==
    ASSUME CallShape, transaction' = transaction, call.status \in Status,
           \/ call' = call \/ call' = Idle \/ (Throw /\ call # Idle) \/ \E x : Over(x)
           \/ Ending /\ call' = [call EXCEPT !.status = "mismatch"], call \in CallState
    PROVE  CallShape'
<1>1. CASE call' = call BY <1>1 DEF CallShape, Asking, Ending, Plain
<1>2. CASE call' = Idle BY <1>2 DEF CallShape, Idle, Asking, Ending, Plain
<1>3. CASE Throw /\ call # Idle
  <2>1. CASE Plain BY <1>2, <1>3, <2>1 DEF Throw
  <2>2. CASE ~Plain
    <3>1. call' = [call EXCEPT !.status = "threw"] BY <1>3, <2>2 DEF Throw
    <3>2. /\ call'.op = call.op /\ call'.on = call.on /\ call'.from = call.from
          /\ call'.status = "threw"
      BY <3>1 DEF CallState
    <3>3. call' # Idle BY <3>2 DEF Idle
    <3> QED BY <1>3, <2>2, <3>2, <3>3 DEF CallShape, Asking, Ending, Plain, Idle
  <2> QED BY <2>1, <2>2
<1>4. CASE \E x : Over(x) BY <1>1, <1>2, <1>4 DEF Over
<1>5. CASE Ending /\ call' = [call EXCEPT !.status = "mismatch"]
  <2>1. /\ call'.op = call.op /\ call'.on = call.on /\ call'.from = call.from
        /\ call'.status = "mismatch"
    BY <1>5 DEF CallState
  <2> QED BY <1>5, <2>1 DEF CallShape, Asking, Ending, Plain, Idle
<1> QED BY <1>1, <1>2, <1>3, <1>4, <1>5

\* Every step keeps the shapes.
LEMMA ShapesAreKept ==
    ASSUME RedisppAssumption, RedisppTypeOK, Shapes, [ClientStep]_vars
    PROVE  Shapes'
<1>1. SUFFICES CallShape' /\ ObjectShapes' /\ QueuedShape'
  BY DEF Shapes, ObjectShapes, QueuedShape
<1>2. CallShape /\ ObjectShapes /\ QueuedShape
  BY DEF Shapes, ObjectShapes, QueuedShape
<1>3. /\ Queued \in Objects /\ Handles \subseteq Objects /\ Queued \notin Handles
      /\ \A x \in Objects : x = Queued \/ x \in Handles
      /\ \A x \in Objects : object[x] \in Object
      /\ sent \in Nat
      /\ object \in [Objects -> Object]
      /\ call \in CallState /\ call.status \in Status
  BY Kinds DEF RedisppTypeOK, CallState, RedisppAssumption
<1>4. object[Queued].kind \notin SimpleKind \cup {"Multi"}
  BY <1>2, <1>3 DEF ObjectShapes, ObjectShape, SimpleKind
<1>5. call = Idle => ~Ending BY DEF Idle, Ending
<1>6. \A x \in Objects : /\ object[x].cmd \in Nat /\ object[x].cmd <= sent
                         /\ object[x].conn \in BOOLEAN
                         /\ object[x].count \in Int /\ object[x].taken \in Nat
  BY <1>2, <1>3 DEF ObjectShapes, ObjectShape, Object
<1>7. \A x, y \in Objects : x # y /\ object[x].conn /\ object[y].conn
                           => object[x].cmd # object[y].cmd
  BY <1>2 DEF ObjectShapes, Distinct
\* A command of the program: a new reply object at the end of the list.
<1>10. ASSUME NEW h \in Handles, NEW k \in ReplyKind, NEW command, Send(h, command, k)
       PROVE CallShape' /\ ObjectShapes' /\ QueuedShape'
  <2>1. /\ call = Idle /\ call' = call /\ transaction' = transaction
        /\ sent' = sent + 1
        /\ object' = [object EXCEPT ![h] = NewReply(k), ![Queued] = Counted]
    BY <1>10 DEF Send, MaySend, Active
  <2>2. /\ object'[h] = NewReply(k)
        /\ object'[Queued] = Counted
        /\ \A x \in Objects \ {h, Queued} : object'[x] = object[x]
    BY <1>3, <2>1
  <2>3. /\ NewReply(k).kind = k /\ k # "Queued" /\ k # "Free"
        /\ NewReply(k).cmd = sent + 1 /\ NewReply(k).place = sent + 1
        /\ NewReply(k).count = 0 /\ ~NewReply(k).headerDone
    BY DEF NewReply, Free, ReplyKind, SimpleKind
  <2>4. /\ Counted.kind = object[Queued].kind /\ Counted.conn = object[Queued].conn
        /\ Counted.cmd = object[Queued].cmd /\ Counted.place = object[Queued].place
        /\ Counted.taken = object[Queued].taken
        /\ Counted.count >= object[Queued].count
        /\ Counted.headerDone = object[Queued].headerDone
    BY <1>3 DEF Counted, Object
  <2>5. ASSUME NEW x \in Objects PROVE ObjectShape(x)'
    <3>1. CASE x = h BY <1>3, <2>1, <2>2, <2>3, <3>1 DEF ObjectShape
    <3>2. CASE x = Queued
      BY <1>2, <1>3, <2>1, <2>2, <2>4, <3>2 DEF ObjectShape, ObjectShapes, Object
    <3>3. CASE x \notin {h, Queued}
      <4>1. object'[x] = object[x] /\ ObjectShape(x) BY <1>2, <2>2, <3>3 DEF ObjectShapes
      <4>2. object[x].cmd \in Nat /\ object[x].cmd <= sent' /\ object[x].cmd <= sent
        BY <1>3, <1>6, <2>1
      <4> QED BY ONLY <4>1, <4>2 DEF ObjectShape
    <3> QED BY <3>1, <3>2, <3>3
  <2>6. Distinct'
    <3>1. \A x \in Objects : x # h => /\ object'[x].cmd = object[x].cmd
                                      /\ object'[x].conn = object[x].conn
      BY <2>2, <2>4
    <3>2. object'[h].cmd = sent + 1 BY <2>2, <2>3
    <3>3. ASSUME NEW x \in Objects, NEW y \in Objects, x # y,
                 object'[x].conn, object'[y].conn
          PROVE  object'[x].cmd # object'[y].cmd
      <4>1. CASE x # h /\ y # h BY ONLY <1>7, <3>1, <3>3, <4>1
      <4>2. CASE x = h \/ y = h BY ONLY <1>3, <1>6, <3>1, <3>2, <3>3, <4>2
      <4> QED BY <4>1, <4>2
    <3> QED BY ONLY <3>3 DEF Distinct
  <2>7. QueuedShape'
    <3>1. object[Queued].conn => /\ transaction = "Dirty"
                                 /\ object[Queued].taken <= object[Queued].count
      BY <1>2, <1>5, <2>1 DEF QueuedShape
    <3>2. Counted.conn => Counted.taken <= Counted.count
      BY <1>3, <1>6, <2>4, <3>1 DEF Counted, Object
    <3> QED BY <1>2, <2>1, <2>2, <2>4, <3>1, <3>2 DEF QueuedShape
  <2>8. CallShape' BY <1>2, <1>3, <2>1, CallShapeKept
  <2> QED BY <2>5, <2>6, <2>7, <2>8 DEF ObjectShapes
<1>11. CASE Type \/ \E command \in BareCommands : Bare(command)
  <2>1. /\ call' = call /\ transaction' = transaction
        /\ sent' = sent + 1 /\ object' = object
    BY <1>11 DEF Type, Bare
  <2>2. ObjectShapes'
    BY <1>2, <1>3, <1>6, <2>1 DEF ObjectShapes, ObjectShape, Distinct
  <2>3. QueuedShape' BY <1>2, <2>1 DEF QueuedShape, Ending
  <2>4. CallShape' BY <1>2, <1>3, <2>1, CallShapeKept
  <2> QED BY <2>2, <2>3, <2>4
\* A call of the program begins.
<1>12. ASSUME NEW h \in Handles, NEW g \in Handles,
              Result(h) \/ NextElement(h) \/ Destroy(h) \/ Assign(h, g)
       PROVE CallShape' /\ ObjectShapes' /\ QueuedShape'
  <2>1. /\ call = Idle /\ UNCHANGED <<object, transaction, sent>>
        /\ \/ \E op \in {"result", "next", "destroy"} : call' = Using(op, h, NoObject)
           \/ call' = Using("assign", h, g) /\ h # g
    BY <1>12 DEF Result, NextElement, Destroy, Assign, Active
  <2>2. CallShape'
    BY <2>1 DEF CallShape, Using, Asking, Ending, Plain, Idle
  <2>3. ObjectShapes' BY <1>2, <2>1 DEF ObjectShapes, ObjectShape, Distinct
  <2>4. QueuedShape' BY <1>2, <1>5, <2>1 DEF QueuedShape
  <2> QED BY <2>2, <2>3, <2>4
\* Copies and assignments hand the place of one object to another one.
<1>13. ASSUME NEW h \in Handles, NEW g \in Handles, h # g, NEW o, NEW u,
              object' = [object EXCEPT ![h] = o, ![g] = u],
              Follows(o, object[g], g), u.kind = object[g].kind, u.cmd = object[g].cmd,
              ~u.conn, ~u.headerDone => u.count = 0,
              u.headerDone => object[g].headerDone, sent' = sent
       PROVE  ObjectShapes' /\ object'[Queued] = object[Queued]
  <2>1. object'[h] = o /\ object'[g] = u /\ h # Queued /\ g # Queued
        /\ \A x \in Objects \ {h, g} : object'[x] = object[x]
    BY <1>3, <1>13
  <2>2. ASSUME NEW x \in Objects PROVE ObjectShape(x)'
    <3>1. CASE x = h BY <1>2, <1>3, <1>13, <2>1, <3>1 DEF ObjectShape, ObjectShapes, Follows
    <3>2. CASE x = g BY <1>2, <1>3, <1>13, <2>1, <3>2 DEF ObjectShape, ObjectShapes
    <3>3. CASE x \notin {h, g} BY <1>2, <1>3, <1>13, <2>1, <3>3 DEF ObjectShape, ObjectShapes
    <3> QED BY <3>1, <3>2, <3>3
  <2>3. Distinct'
    <3>1. ASSUME NEW x \in Objects, NEW y \in Objects, x # y,
                 object'[x].conn, object'[y].conn
          PROVE  object'[x].cmd # object'[y].cmd
      <4> DEFINE was(z) == IF z = h THEN g ELSE z
      <4>1. x # g /\ y # g BY ONLY <1>13, <2>1, <3>1
      <4>2. \A z \in {x, y} : /\ object'[z].cmd = object[was(z)].cmd
                              /\ object[was(z)].conn
        BY <1>3, <1>13, <2>1, <3>1, <4>1 DEF Follows
      <4>3. was(x) # was(y) /\ was(x) \in Objects /\ was(y) \in Objects
        BY ONLY <1>3, <1>13, <3>1, <4>1
      <4> HIDE DEF was
      <4> QED BY ONLY <1>7, <4>2, <4>3
    <3> QED BY ONLY <3>1 DEF Distinct
  <2> QED BY <1>3, <2>1, <2>2, <2>3 DEF ObjectShapes
<1>14. ASSUME NEW g \in Objects
       PROVE /\ Follows(InPlaceOf(object[g]), object[g], g)
             /\ Follows(Emptied(InPlaceOf(object[g])), object[g], g)
             /\ ~object[g].headerDone => object[g].count = 0 \/ g = Queued
  <2>1. ~object[g].headerDone => object[g].count = 0 \/ g = Queued
    BY <1>2 DEF ObjectShapes, ObjectShape
  <2>2. object[g] \in Object BY <1>3
  <2>3. Follows(InPlaceOf(object[g]), object[g], g)
    BY <2>1, <2>2 DEF Follows, InPlaceOf, Object
  <2>4. Follows(Emptied(InPlaceOf(object[g])), object[g], g)
    BY <2>1, <2>2 DEF Follows, InPlaceOf, Emptied, Object
  <2> QED BY <2>1, <2>3, <2>4
<1>15. ASSUME NEW g \in Objects, NEW u, u = LeftBehind(object[g]) \/ u = Unlinked(object[g])
       PROVE /\ u.kind = object[g].kind /\ u.cmd = object[g].cmd /\ ~u.conn
             /\ ~u.headerDone => u.count = 0 \/ g = Queued
             /\ u.headerDone = object[g].headerDone
  BY <1>3, <1>14, <1>15 DEF LeftBehind, Unlinked, Object
<1>16. ASSUME NEW h \in Handles, NEW g \in Handles, Copy(h, g)
       PROVE CallShape' /\ ObjectShapes' /\ QueuedShape'
  <2>1. /\ UNCHANGED <<transaction, sent, call>> /\ h # g
        /\ object' = [object EXCEPT ![h] = InPlaceOf(object[g]), ![g] = LeftBehind(object[g])]
    BY <1>16 DEF Copy
  <2> DEFINE u == LeftBehind(object[g])
  <2>2. /\ u.kind = object[g].kind /\ u.cmd = object[g].cmd /\ ~u.conn
        /\ ~u.headerDone => u.count = 0
        /\ u.headerDone => object[g].headerDone
    BY <1>3, <1>15
  <2>3. Follows(InPlaceOf(object[g]), object[g], g) BY <1>3, <1>14
  <2> HIDE DEF u
  <2>4. ObjectShapes' /\ object'[Queued] = object[Queued]
    BY <1>13, <2>1, <2>2, <2>3 DEF u
  <2>5. QueuedShape' BY <1>2, <2>1, <2>4 DEF QueuedShape, Ending
  <2>6. CallShape' BY <1>2, <1>3, <2>1, CallShapeKept
  <2> QED BY <2>4, <2>5, <2>6
\* Reading: only the object that reads changes, and the call.
<1>20. ASSUME NEW x \in Handles, NEW o, Now(x), UNCHANGED <<transaction, sent>>,
              object' = [object EXCEPT ![x] = o], Follows(o, object[x], x),
              call' = call \/ Throw \/ \E y : Over(y)
       PROVE  CallShape' /\ ObjectShapes' /\ QueuedShape'
  <2>1. ObjectShapes' BY <1>2, <1>3, <1>20, OneFollows
  <2>2. call # Idle BY <1>20 DEF Now, Idle
  <2>3. CallShape' BY <1>2, <1>3, <1>20, <2>2, CallShapeKept
  <2>4. object'[Queued] = object[Queued] BY <1>3, <1>20
  <2>5. object[Queued].conn => ~Ending
    BY <1>3, <1>20, EndingReader DEF Now
  <2>6. QueuedShape' BY <1>2, <1>20, <2>4, <2>5 DEF QueuedShape
  <2> QED BY <2>1, <2>3, <2>6
<1>21. ASSUME NEW x \in Objects, ReadSimple(x)
       PROVE CallShape' /\ ObjectShapes' /\ QueuedShape'
  <2>1. x \in Handles /\ Now(x) /\ UNCHANGED <<transaction, sent>>
    BY <1>3, <1>4, <1>21 DEF ReadSimple
  <2>2. ~object[x].headerDone => object[x].count = 0 \/ x = Queued
    BY <1>3, <1>14
  <2>3. PICK o : /\ object' = [object EXCEPT ![x] = o]
                 /\ o \in {[Unlinked(object[x]) EXCEPT !.value = Received],
                           [object[x] EXCEPT !.conn = FALSE]}
                 /\ Over(x) \/ Throw
    BY <1>21 DEF ReadSimple
  <2>4. Follows(o, object[x], x)
    BY <1>3, <2>2, <2>3 DEF Follows, Unlinked, Object
  <2> QED BY <1>20, <2>1, <2>3, <2>4
<1>22. ASSUME NEW x \in Objects, ReadHeader(x)
       PROVE CallShape' /\ ObjectShapes' /\ QueuedShape'
  <2>1. x \in Handles /\ Now(x) /\ UNCHANGED <<transaction, sent>>
    BY <1>3, <1>4, <1>22 DEF ReadHeader
  <2> DEFINE p == [object[x] EXCEPT !.headerDone = TRUE, !.count = Announced,
                                    !.total = Announced]
  <2>2. PICK o : /\ object' = [object EXCEPT ![x] = o]
                 /\ o = p \/ o = Unlinked(p)
                 /\ call' = call \/ Over(x) \/ Throw
    BY <1>22 DEF ReadHeader
  <2>3. Follows(o, object[x], x)
    <3>1. object[x].kind = "Multi" BY <1>22 DEF ReadHeader
    <3> QED BY <1>3, <2>2, <3>1 DEF Follows, Unlinked, Object
  <2> HIDE DEF p
  <2> QED BY <1>20, <2>1, <2>2, <2>3
<1>23. ASSUME NEW x \in Objects, ReadElement(x) \/ DrainElement(x) \/ ReadAhead(x)
       PROVE CallShape' /\ ObjectShapes' /\ QueuedShape'
  <2>1. /\ x \in Handles /\ Now(x) /\ UNCHANGED <<transaction, sent>>
        /\ object[x].headerDone
    BY <1>3, <1>4, <1>23 DEF ReadElement, DrainElement, ReadAhead
  <2>2. PICK o : /\ object' = [object EXCEPT ![x] = o]
                 /\ o \in {HandOut(OneLess(object[x]), Received), OneLess(object[x]),
                           LeaveAtEnd(OneLess(object[x])),
                           LeaveAtEnd(PutAside(OneLess(object[x]), Received)),
                           Emptied(OneLess(object[x]))}
                 /\ call' = call \/ Over(x) \/ Throw
    BY <1>23 DEF ReadElement, DrainElement, ReadAhead
  <2>3. Follows(o, object[x], x)
    BY <1>3, <2>1, <2>2, FollowingOperators
  <2> QED BY <1>20, <2>1, <2>2, <2>3
<1>24. CASE NextPending
  <2>1. /\ call.on \in Handles /\ call' = Idle /\ UNCHANGED <<transaction, sent>>
        /\ ~Ending
    BY <1>2, <1>24 DEF NextPending, CallShape, Asking, Ending, Idle
  <2> DEFINE o == object[call.on]
             p == HandOut(OneFewer(o), Head(o.pending))
  <2>2. object' = [object EXCEPT ![call.on] = p] BY <1>24 DEF NextPending
  <2>3. /\ p.kind = o.kind /\ p.cmd = o.cmd /\ p.conn = o.conn /\ p.place = o.place
        /\ p.headerDone = o.headerDone /\ p.count = o.count
    BY <1>3, <2>1 DEF HandOut, OneFewer, Object
  <2>4. Follows(p, o, call.on) BY <1>3, <1>14, <2>1, <2>3 DEF Follows
  <2> HIDE DEF p
  <2>5. ObjectShapes' BY <1>2, <1>3, <2>1, <2>2, <2>4, OneFollows
  <2>6. CallShape' BY <1>2, <1>3, <2>1, CallShapeKept
  <2>7. QueuedShape' BY <1>2, <1>3, <2>1, <2>2 DEF QueuedShape
  <2> QED BY <2>5, <2>6, <2>7
<1>25. CASE Return
  <2>1. call' = Idle /\ UNCHANGED <<transaction, sent>> BY <1>25 DEF Return
  <2>2. CallShape' BY <1>2, <1>3, <2>1, CallShapeKept
  <2>3. CASE object' = object
    <3>1. ObjectShapes' BY <1>2, <2>1, <2>3 DEF ObjectShapes, ObjectShape, Distinct
    <3>2. object[Queued].conn => ~Ending
      <4>1. SUFFICES ASSUME object[Queued].conn, Ending PROVE FALSE OBVIOUS
      <4>2. call.status = "reading"
        BY <1>2, <4>1 DEF QueuedShape, CallShape
      <4>3. Readers = {Queued} BY <4>1, EndingReader
      <4> QED BY <1>25, <4>2, <4>3 DEF Return, Ended
    <3>3. QueuedShape' BY <1>2, <2>1, <2>3, <3>2 DEF QueuedShape
    <3> QED BY <2>2, <3>1, <3>3
  <2>4. CASE call.op = "next" /\ object' = [object EXCEPT ![call.on] = Unlinked(object[call.on])]
    <3>1. call.on \in Handles /\ ~Ending
      BY <1>2, <2>4 DEF CallShape, Asking, Ending, Idle
    <3>2. Follows(Unlinked(object[call.on]), object[call.on], call.on)
      BY <1>3, <1>14, <3>1 DEF Follows, Unlinked, Object
    <3>3. ObjectShapes' BY <1>2, <1>3, <2>1, <2>4, <3>1, <3>2, OneFollows
    <3>4. QueuedShape' BY <1>2, <1>3, <2>1, <2>4, <3>1 DEF QueuedShape
    <3> QED BY <2>2, <3>3, <3>4
  <2> QED BY <1>25, <2>3, <2>4 DEF Return
<1>26. CASE Destroyed
  <2>1. /\ call.on \in Handles /\ ~Ending /\ call' = Idle
        /\ UNCHANGED <<transaction, sent>>
        /\ object' = [object EXCEPT ![call.on] = Free]
    BY <1>2, <1>26 DEF Destroyed, CallShape, Asking, Ending, Idle
  <2>2. /\ object'[call.on] = Free
        /\ \A x \in Objects : x # call.on => object'[x] = object[x]
    BY <1>3, <2>1
  <2>3. /\ ~Free.conn /\ Free.kind = "Free" /\ Free.cmd = 0 /\ Free.count = 0
        /\ ~Free.headerDone
    BY DEF Free
  <2>4. ASSUME NEW x \in Objects PROVE ObjectShape(x)'
    <3>1. CASE x = call.on BY <1>3, <2>1, <2>2, <2>3, <3>1 DEF ObjectShape
    <3>2. CASE x # call.on BY <1>2, <2>1, <2>2, <3>2 DEF ObjectShape, ObjectShapes
    <3> QED BY <3>1, <3>2
  <2>5. Distinct'
    <3>1. ASSUME NEW x \in Objects, NEW y \in Objects, x # y,
                 object'[x].conn, object'[y].conn
          PROVE  object'[x].cmd # object'[y].cmd
      <4>1. x # call.on /\ y # call.on BY ONLY <2>2, <2>3, <3>1
      <4> QED BY ONLY <1>7, <2>2, <3>1, <4>1
    <3> QED BY ONLY <3>1 DEF Distinct
  <2>6. QueuedShape' BY <1>2, <1>3, <2>1, <2>2 DEF QueuedShape
  <2>7. CallShape' BY <1>2, <1>3, <2>1, CallShapeKept
  <2> QED BY <2>4, <2>5, <2>6, <2>7 DEF ObjectShapes
<1>27. CASE Assigned
  <2>1. /\ call.on \in Handles /\ call.from \in Handles /\ call.on # call.from /\ ~Ending
        /\ call' = Idle /\ UNCHANGED <<transaction, sent>>
    BY <1>2, <1>27 DEF Assigned, CallShape, Asking, Ending, Idle
  <2>2. CallShape' BY <1>2, <1>3, <2>1, CallShapeKept
  <2>3. ObjectShapes' /\ object'[Queued] = object[Queued]
    <3>1. CASE object' = object
      BY <1>2, <2>1, <3>1 DEF ObjectShapes, ObjectShape, Distinct
    <3>2. CASE object' = [object EXCEPT ![call.on] = Emptied(InPlaceOf(object[call.from])),
                                        ![call.from] = Unlinked(object[call.from])]
      <4> DEFINE g == call.from
                 u == Unlinked(object[g])
      <4>1. /\ u.kind = object[g].kind /\ u.cmd = object[g].cmd /\ ~u.conn
            /\ ~u.headerDone => u.count = 0
            /\ u.headerDone => object[g].headerDone
        BY <1>3, <1>15, <2>1
      <4>2. Follows(Emptied(InPlaceOf(object[g])), object[g], g) BY <1>3, <1>14, <2>1
      <4> HIDE DEF u
      <4> QED BY <1>13, <2>1, <3>2, <4>1, <4>2 DEF u
    <3> QED BY <1>27, <3>1, <3>2 DEF Assigned
  <2>4. QueuedShape' BY <1>2, <2>1, <2>3 DEF QueuedShape
  <2> QED BY <2>2, <2>3, <2>4
\* Transactions.
<1>30. CASE Begin
  <2>1. /\ call' = call /\ call = Idle /\ transaction = "none" /\ transaction' = "Dirty"
        /\ sent' = sent + 1
        /\ object' = [object EXCEPT ![Queued] = NewReply("Queued")]
    BY <1>30 DEF Begin, MaySend, Active, InTransaction
  <2>2. /\ object'[Queued] = NewReply("Queued")
        /\ \A x \in Objects : x # Queued => object'[x] = object[x]
    BY <1>3, <2>1
  <2>3. LET q == NewReply("Queued") IN
        /\ q.kind = "Queued" /\ q.cmd = sent + 1 /\ q.place = sent + 1 /\ q.count = 0
        /\ q.taken = 0 /\ ~q.headerDone
    BY DEF NewReply, Free
  <2>4. ASSUME NEW x \in Objects PROVE ObjectShape(x)'
    <3>1. CASE x = Queued BY <1>3, <2>1, <2>2, <2>3, <3>1 DEF ObjectShape
    <3>2. CASE x # Queued
      BY <1>2, <1>3, <1>6, <2>1, <2>2, <3>2 DEF ObjectShape, ObjectShapes
    <3> QED BY <3>1, <3>2
  <2>5. Distinct'
    <3>1. ASSUME NEW x \in Objects, NEW y \in Objects, x # y,
                 object'[x].conn, object'[y].conn
          PROVE  object'[x].cmd # object'[y].cmd
      <4>1. CASE x # Queued /\ y # Queued BY ONLY <1>7, <2>2, <3>1, <4>1
      <4>2. CASE x = Queued \/ y = Queued BY ONLY <1>3, <1>6, <2>2, <2>3, <3>1, <4>2
      <4> QED BY <4>1, <4>2
    <3> QED BY ONLY <3>1 DEF Distinct
  <2>6. QueuedShape' BY <2>1, <2>2, <2>3 DEF QueuedShape
  <2>7. CallShape' BY <1>2, <2>1 DEF CallShape, Idle, Asking, Ending, Plain
  <2> QED BY <2>4, <2>5, <2>6, <2>7 DEF ObjectShapes
<1>31. CASE BeginNested
  <2>1. /\ call' = call /\ call = Idle /\ UNCHANGED <<transaction, sent>>
        /\ object' = [object EXCEPT ![Queued] = Counted]
    BY <1>31 DEF BeginNested, Active
  <2>2. /\ Counted.kind = object[Queued].kind /\ Counted.conn = object[Queued].conn
        /\ Counted.cmd = object[Queued].cmd /\ Counted.place = object[Queued].place
        /\ Counted.taken = object[Queued].taken
        /\ Counted.count >= object[Queued].count /\ Counted.count \in Int
        /\ Counted.headerDone = object[Queued].headerDone
    BY <1>3 DEF Counted, Object
  <2>3. Follows(Counted, object[Queued], Queued) BY <2>2 DEF Follows
  <2>4. ObjectShapes' BY <1>2, <1>3, <2>1, <2>3, OneFollows
  <2>5. object'[Queued] = Counted BY <1>3, <2>1
  <2>6. QueuedShape' BY <1>2, <1>3, <1>5, <1>6, <2>1, <2>2, <2>5 DEF QueuedShape
  <2>7. CallShape' BY <1>2, <1>3, <2>1, CallShapeKept
  <2> QED BY <2>4, <2>6, <2>7
<1>32. CASE Commit \/ \E op \in {"abort", "end"} : Abort(op)
  <2>1. /\ call = Idle /\ transaction = "Dirty"
        /\ transaction' \in {"Committed", "Aborted"} /\ UNCHANGED <<sent, object>>
        /\ \E op \in {"commit", "abort", "end"} : call' = Using(op, Queued, NoObject)
    BY <1>32 DEF Commit, Abort, Active
  <2>2. CallShape' BY <2>1 DEF CallShape, Using, Asking, Ending, Plain, Idle
  <2>3. ObjectShapes' BY <1>2, <2>1 DEF ObjectShapes, ObjectShape, Distinct
  <2>4. Ending' /\ call'.status = "reading" BY <2>1 DEF Using, Ending
  <2>5. QueuedShape' BY <1>2, <2>1, <2>4 DEF QueuedShape
  <2> QED BY <2>2, <2>3, <2>5
<1>33. CASE EndTransaction \/ TransactionEnded
  <2>1. /\ transaction' = "none" /\ call' = Idle /\ sent' = sent
        /\ object' = [object EXCEPT ![Queued] = Free]
    BY <1>33 DEF EndTransaction, TransactionEnded, Active
  <2>2. /\ object'[Queued] = Free
        /\ \A x \in Objects : x # Queued => object'[x] = object[x]
    BY <1>3, <2>1
  <2>3. /\ ~Free.conn /\ Free.kind = "Free" /\ Free.cmd = 0 /\ Free.count = 0
        /\ ~Free.headerDone
    BY DEF Free
  <2>4. ASSUME NEW x \in Objects PROVE ObjectShape(x)'
    <3>1. CASE x = Queued BY <1>3, <2>1, <2>2, <2>3, <3>1 DEF ObjectShape
    <3>2. CASE x # Queued BY <1>2, <2>1, <2>2, <3>2 DEF ObjectShape, ObjectShapes
    <3> QED BY <3>1, <3>2
  <2>5. Distinct'
    <3>1. ASSUME NEW x \in Objects, NEW y \in Objects, x # y,
                 object'[x].conn, object'[y].conn
          PROVE  object'[x].cmd # object'[y].cmd
      <4>1. x # Queued /\ y # Queued BY ONLY <2>2, <2>3, <3>1
      <4> QED BY ONLY <1>7, <2>2, <3>1, <4>1
    <3> QED BY ONLY <3>1 DEF Distinct
  <2>6. QueuedShape' BY <2>1, <2>2, <2>3 DEF QueuedShape
  <2>7. CallShape' BY <2>1 DEF CallShape, Idle, Asking, Ending, Plain
  <2> QED BY <2>4, <2>5, <2>6, <2>7 DEF ObjectShapes
<1>34. Now(Queued) => object[Queued].conn /\ call # Idle
  BY DEF Now, Readers, First, Earlier, Work, Idle
<1>35. CASE ReadStatuses
  <2>1. /\ Now(Queued) /\ UNCHANGED <<transaction, sent>>
        /\ call' = call \/ Throw
    BY <1>35 DEF ReadStatuses
  <2>2. PICK o : /\ object' = [object EXCEPT ![Queued] = o]
                 /\ \/ ~o.conn
                    \/ /\ call' = call
                       /\ transaction = "Dirty" => o.taken <= o.count
                 /\ o.kind = object[Queued].kind /\ o.cmd = object[Queued].cmd
                 /\ o.place = object[Queued].place
                 /\ o.headerDone = object[Queued].headerDone
    <3> DEFINE q == object[Queued]
               b == transaction # "Dirty" \/ q.taken < q.count
               o1 == [q EXCEPT !.taken = @ + 1, !.conn = b]
               o2 == [q EXCEPT !.conn = FALSE]
    <3>1. \/ call' = call /\ object' = [object EXCEPT ![Queued] = o1]
          \/ object' = [object EXCEPT ![Queued] = o2]
      BY <1>3, <1>35 DEF ReadStatuses
    <3> b \in BOOLEAN OBVIOUS
    <3> HIDE DEF b
    <3>2. /\ o1.kind = q.kind /\ o1.cmd = q.cmd /\ o1.place = q.place
          /\ o1.taken = q.taken + 1 /\ o1.count = q.count /\ o1.conn = b
          /\ o1.headerDone = q.headerDone
      BY <1>3 DEF Object
    <3>3. ~o1.conn \/ (transaction = "Dirty" => o1.taken <= o1.count)
      <4>1. o1.conn => b BY <3>2
      <4>2. b /\ transaction = "Dirty" => q.taken < q.count BY DEF b
      <4>3. q.taken \in Int /\ q.count \in Int BY <1>3, <1>6
      <4> QED BY ONLY <3>2, <4>1, <4>2, <4>3
    <3>4. o2.kind = q.kind /\ o2.cmd = q.cmd /\ o2.place = q.place /\ ~o2.conn
          /\ o2.headerDone = q.headerDone
      BY <1>3 DEF Object
    <3> HIDE DEF o1, o2
    <3> QED BY <3>1, <3>2, <3>3, <3>4
  <2>3. Follows(o, object[Queued], Queued) BY <1>34, <2>1, <2>2 DEF Follows
  <2>4. ObjectShapes' BY <1>2, <1>3, <2>1, <2>2, <2>3, OneFollows
  <2>5. object'[Queued] = o BY <1>3, <2>2
  <2>6. QueuedShape' BY <1>2, <1>34, <2>1, <2>2, <2>5 DEF QueuedShape, Ending
  <2>7. CallShape' BY <1>2, <1>3, <1>34, <2>1, CallShapeKept
  <2> QED BY <2>4, <2>6, <2>7
<1>36. CASE ReadVerdict
  <2>1. /\ Now(Queued) /\ UNCHANGED <<transaction, sent>>
        /\ \/ Throw \/ Over(Queued)
           \/ transaction = "Committed" /\ call' = [call EXCEPT !.status = "mismatch"]
    BY <1>36 DEF ReadVerdict
  <2> DEFINE q == object[Queued]
             o == [q EXCEPT !.conn = FALSE, !.taken = @ + 1]
  <2>2. object' = [object EXCEPT ![Queued] = o] BY <1>3, <1>36 DEF ReadVerdict
  <2>3. /\ o.kind = q.kind /\ o.cmd = q.cmd /\ ~o.conn BY <1>3 DEF Object
  <2>4. Follows(o, q, Queued) BY <2>3 DEF Follows
  <2> HIDE DEF o
  <2>5. ObjectShapes' BY <1>2, <1>3, <2>1, <2>2, <2>4, OneFollows
  <2>6. object'[Queued] = o BY <1>3, <2>2
  <2>7. QueuedShape' BY <1>2, <2>1, <2>3, <2>6 DEF QueuedShape
  <2>8. transaction = "Committed" => Ending BY <1>2, <1>34, <2>1 DEF QueuedShape
  <2>9. CallShape' BY <1>2, <1>3, <1>34, <2>1, <2>8, CallShapeKept
  <2> QED BY <2>5, <2>7, <2>9
<1>37. CASE Close \/ UNCHANGED vars
  <2>1. UNCHANGED <<sent, object, transaction, call>> BY <1>37 DEF Close, vars
  <2>2. ObjectShapes' BY <1>2, <2>1 DEF ObjectShapes, ObjectShape, Distinct
  <2>3. QueuedShape' BY <1>2, <2>1 DEF QueuedShape, Ending
  <2>4. CallShape' BY <1>2, <1>3, <2>1, CallShapeKept
  <2> QED BY <2>2, <2>3, <2>4
<1> QED
  BY <1>10, <1>11, <1>12, <1>16, <1>21, <1>22, <1>23, <1>24, <1>25, <1>26, <1>27, <1>30,
     <1>31, <1>32, <1>33, <1>35, <1>36, <1>37 DEF ClientStep, RedisppNext, Reading

-----------------------------------------------------------------------------
(* The initial state, and the theorem                                      *)

LEMMA InitialShapes ==
    ASSUME RedisppAssumption, RedisppInit PROVE RedisppTypeOK /\ Shapes
<1>1. Free \in Object BY FreeIsObject
<1>2. <<>> \in Seq(Line) /\ NotInMulti \in ServerState BY DEF NotInMulti, ServerState
<1>3. RedisppTypeOK
  <2>1. sent \in 0..MaxCommands BY DEF RedisppAssumption, RedisppInit
  <2>2. object \in [Objects -> Object] BY <1>1 DEF RedisppInit
  <2>3. call \in [op : Operation, on : Objects \cup {NoObject},
                  from : Objects \cup {NoObject}, status : Status]
    BY DEF RedisppInit, Idle, Operation, Status
  <2>4. culprit \in Culprit BY DEF RedisppInit, Culprit
  <2> QED BY <1>2, <2>1, <2>2, <2>3, <2>4 DEF RedisppInit, RedisppTypeOK
<1>4. \A x \in Objects : /\ object[x] = Free /\ Free.kind = "Free" /\ ~Free.conn
                         /\ Free.cmd = 0 /\ Free.count = 0 /\ ~Free.headerDone
  BY DEF RedisppInit, Free
<1>5. Shapes
  <2>1. sent = 0 /\ call = Idle /\ transaction = "none" /\ Queued \in Objects
    BY DEF RedisppInit, Objects
  <2>2. CallShape BY <2>1 DEF CallShape, Idle, Asking, Ending, Plain
  <2>3. \A x \in Objects : ObjectShape(x) BY <1>4, <2>1 DEF ObjectShape
  <2>4. Distinct BY <1>4 DEF Distinct
  <2> QED BY <1>4, <2>1, <2>2, <2>3, <2>4 DEF Shapes
<1> QED BY <1>3, <1>5

\* The program's calls, its objects and the lines keep their types and their
\* shape, whatever puts the replies out of step (the reply classes of
\* redispp.h, their copies, assignments and destructors).
THEOREM RedisppTypes ==
    ASSUME RedisppAssumption PROVE RedisppSpec => [](RedisppTypeOK /\ Shapes)
<1>1. RedisppInit => RedisppTypeOK /\ Shapes BY InitialShapes
<1>2. RedisppTypeOK /\ Shapes /\ [RedisppNext]_vars => RedisppTypeOK' /\ Shapes'
  BY TypesAreKept, ShapesAreKept DEF Shapes, ClientStep
<1> QED BY <1>1, <1>2, PTL DEF RedisppSpec

-----------------------------------------------------------------------------
(* Lines and the objects that wait for them.  W is a set of objects, ob    *)
(* what they are.                                                          *)

\* The lines from p to p + n, and no others, answer command c.
Block(s, c, p, n) ==
    /\ p + n <= Len(s)
    /\ \A i \in 1..Len(s) : s[i].of = c <=> p <= i /\ i <= p + n

\* What a reply object of kind k that reads one line may find.
Possible(k) == CASE k = "Void" -> {"status", "error"}
                 [] k \in {"Bool", "Int"} -> {"int", "error"}
                 [] k = "String" -> {"bulk", "nil", "error"}

Shape(s, o, p, n) ==
    \/ o.kind \in SimpleKind /\ n = 0 /\ s[p].kind \in Possible(o.kind)
    \/ o.kind = "Multi" /\ ~o.headerDone /\ n = 0 /\ s[p].kind = "error"
    \/ /\ o.kind = "Multi" /\ ~o.headerDone
       /\ s[p].kind = "multi" /\ s[p].n = n
       /\ \A i \in (p + 1)..(p + n) : s[i].kind = "bulk"
    \/ /\ o.kind = "Multi" /\ o.headerDone
       /\ p = 1 /\ o.count = n + 1
       /\ \A i \in p..(p + n) : s[i].kind = "bulk"

\* The answer that reply object o waits for is one block of s.
Answered(s, o) ==
    \E p \in 1..Len(s), n \in 0..Len(s) : Block(s, o.cmd, p, n) /\ Shape(s, o, p, n)

Ordered(s) == \A i, j \in 1..Len(s) : i <= j => s[i].of <= s[j].of
Owned(s, W, ob) == \A i \in 1..Len(s) : \E x \in W : s[i].of = ob[x].cmd

Aligned(s, W, ob) == /\ Ordered(s)
                     /\ Owned(s, W, ob)
                     /\ \A x \in W \cap Handles : Answered(s, ob[x])

\* The two wait for the same lines.
Same(o, p) == /\ o.kind = p.kind /\ o.cmd = p.cmd
              /\ o.headerDone = p.headerDone /\ o.count = p.count

LEMMA LineFields ==
    ASSUME NEW s \in Seq(Line), NEW i \in 1..Len(s)
    PROVE  s[i].of \in Nat /\ s[i].n \in Int /\ s[i].kind \in LineKind
<1>1. s[i] \in Line BY ElementOfSeq
<1> QED BY <1>1 DEF Line

LEMMA SameAnswer ==
    ASSUME NEW s, NEW o, NEW p, Same(o, p), Answered(s, p)
    PROVE  Answered(s, o)
BY DEF Same, Answered, Shape

\* An answer is still there after a line that is not part of it was read,
LEMMA TailAnswered ==
    ASSUME NEW s \in Seq(Line), s # <<>>, NEW o, Answered(s, o), s[1].of # o.cmd
    PROVE  Answered(Tail(s), o)
<1> DEFINE t == Tail(s)
<1>1. /\ Len(s) \in Nat /\ Len(s) > 0 /\ Len(t) = Len(s) - 1
      /\ \A i \in 1..Len(t) : t[i] = s[i + 1]
  BY HeadTailProperties, EmptySeq
<1> HIDE DEF t
<1>2. PICK p \in 1..Len(s), n \in 0..Len(s) : Block(s, o.cmd, p, n) /\ Shape(s, o, p, n)
  BY DEF Answered
<1>3. p # 1
  <2>1. SUFFICES ASSUME p = 1 PROVE FALSE OBVIOUS
  <2>2. 1 \in 1..Len(s) /\ p <= 1 /\ 1 <= p + n BY <1>1, <2>1
  <2>3. s[1].of = o.cmd BY <1>2, <2>2 DEF Block
  <2> QED BY <2>3
<1>4. p - 1 \in 1..Len(t) /\ n \in 0..Len(t) /\ p - 1 + n <= Len(t)
  BY <1>1, <1>2, <1>3 DEF Block
<1>5. Block(t, o.cmd, p - 1, n)
  <2>1. ASSUME NEW i \in 1..Len(t)
        PROVE  t[i].of = o.cmd <=> p - 1 <= i /\ i <= p - 1 + n
    <3>1. i + 1 \in 1..Len(s) BY <1>1
    <3>2. s[i + 1].of = o.cmd <=> p <= i + 1 /\ i + 1 <= p + n
      BY <1>2, <3>1 DEF Block
    <3> QED BY ONLY <1>1, <1>4, <3>2, p \in 1..Len(s), n \in 0..Len(s), Len(s) \in Nat
  <2> QED BY <1>4, <2>1 DEF Block
<1>6. Shape(t, o, p - 1, n)
  <2>1. t[p - 1] = s[p] BY <1>1, <1>4
  <2>2. \A i \in (p - 1 + 1)..(p - 1 + n) : i \in 1..Len(t) /\ i + 1 \in (p + 1)..(p + n)
    BY <1>1, <1>4
  <2>3. (\A i \in (p + 1)..(p + n) : s[i].kind = "bulk")
           => (\A i \in (p - 1 + 1)..(p - 1 + n) : t[i].kind = "bulk")
    BY <1>1, <2>2
  <2> QED BY <1>2, <1>3, <2>1, <2>3 DEF Shape
<1> QED BY <1>4, <1>5, <1>6 DEF Answered, t

\* before other lines,
LEMMA AnsweredBefore ==
    ASSUME NEW s \in Seq(Line), NEW t \in Seq(Line), NEW o, Answered(s, o),
           \A j \in 1..Len(t) : t[j].of # o.cmd
    PROVE  Answered(s \o t, o)
<1> DEFINE u == s \o t
<1>1. /\ Len(s) \in Nat /\ Len(t) \in Nat /\ Len(u) = Len(s) + Len(t)
      /\ \A i \in 1..Len(s) : u[i] = s[i]
      /\ \A i \in 1..Len(u) : i > Len(s) => u[i] = t[i - Len(s)]
  BY ConcatProperties, LenProperties
<1> HIDE DEF u
<1>2. PICK p \in 1..Len(s), n \in 0..Len(s) : Block(s, o.cmd, p, n) /\ Shape(s, o, p, n)
  BY DEF Answered
<1>3. p \in 1..Len(u) /\ n \in 0..Len(u) /\ p + n <= Len(s)
  BY <1>1, <1>2 DEF Block
<1>4. Block(u, o.cmd, p, n)
  <2>1. ASSUME NEW i \in 1..Len(u)
        PROVE  u[i].of = o.cmd <=> p <= i /\ i <= p + n
    <3>1. CASE i <= Len(s) BY <1>1, <1>2, <3>1 DEF Block
    <3>2. CASE i > Len(s)
      <4>1. i - Len(s) \in 1..Len(t) /\ ~(i <= p + n) BY <1>1, <1>3, <3>2
      <4> QED BY <1>1, <3>2, <4>1
    <3> QED BY <1>1, <3>1, <3>2
  <2> QED BY <1>1, <1>3, <2>1 DEF Block
<1>5. Shape(u, o, p, n)
  <2>1. \A i \in p..(p + n) : i \in 1..Len(s) /\ u[i] = s[i]
    BY <1>1, <1>3
  <2>2. u[p] = s[p] /\ \A i \in (p + 1)..(p + n) : u[i] = s[i]
    BY <1>1, <1>3, <2>1
  <2> QED BY <1>2, <2>1, <2>2 DEF Shape
<1> QED BY <1>3, <1>4, <1>5 DEF Answered, u

\* and behind other lines, unless it is being read.
LEMMA AnsweredBehind ==
    ASSUME NEW s \in Seq(Line), NEW t \in Seq(Line), NEW o, Answered(t, o),
           ~o.headerDone,
           \A j \in 1..Len(s) : s[j].of # o.cmd
    PROVE  Answered(s \o t, o)
<1> DEFINE u == s \o t
           k == Len(s)
<1>1. /\ k \in Nat /\ Len(t) \in Nat /\ Len(u) = k + Len(t)
      /\ \A i \in 1..k : u[i] = s[i]
      /\ \A i \in 1..Len(t) : u[k + i] = t[i]
      /\ \A i \in 1..Len(u) : i > k => u[i] = t[i - k]
  <2>1. \A i \in 1..(Len(s) + Len(t)) : u[i] = IF i <= k THEN s[i] ELSE t[i - k]
    BY ConcatProperties
  <2>2. k \in Nat /\ Len(t) \in Nat /\ Len(u) = k + Len(t)
    BY ConcatProperties, LenProperties
  <2> HIDE DEF u
  <2>3. ASSUME NEW i \in 1..Len(t) PROVE u[k + i] = t[i]
    <3>1. k + i \in 1..(Len(s) + Len(t)) /\ ~(k + i <= k) /\ k + i - k = i BY <2>2
    <3> QED BY <2>1, <3>1
  <2> QED BY <2>1, <2>2, <2>3
<1> HIDE DEF u
<1>2. PICK p \in 1..Len(t), n \in 0..Len(t) : Block(t, o.cmd, p, n) /\ Shape(t, o, p, n)
  BY DEF Answered
<1>3. k + p \in 1..Len(u) /\ n \in 0..Len(u) /\ k + p + n <= Len(u) /\ p + n <= Len(t)
  BY <1>1, <1>2 DEF Block
<1>4. Block(u, o.cmd, k + p, n)
  <2>1. ASSUME NEW i \in 1..Len(u)
        PROVE  u[i].of = o.cmd <=> k + p <= i /\ i <= k + p + n
    <3>1. CASE i <= k
      <4>1. i \in 1..k /\ ~(k + p <= i) BY <1>1, <3>1
      <4> QED BY <1>1, <4>1
    <3>2. CASE i > k
      <4>1. i - k \in 1..Len(t) /\ u[i] = t[i - k] BY <1>1, <3>2
      <4>2. t[i - k].of = o.cmd <=> p <= i - k /\ i - k <= p + n
        BY <1>2, <4>1 DEF Block
      <4> QED BY <1>1, <4>1, <4>2
    <3> QED BY <1>1, <3>1, <3>2
  <2> QED BY <1>1, <1>3, <2>1 DEF Block
<1>5. Shape(u, o, k + p, n)
  <2>1. u[k + p] = t[p] BY <1>1
  <2>2. ASSUME \A i \in (p + 1)..(p + n) : t[i].kind = "bulk",
               NEW i \in (k + p + 1)..(k + p + n)
        PROVE  u[i].kind = "bulk"
    <3>1. i - k \in (p + 1)..(p + n) /\ i \in 1..Len(u) /\ i > k BY <1>1, <1>3
    <3> QED BY <1>1, <2>2, <3>1
  <2> QED BY <1>2, <2>1, <2>2 DEF Shape
<1> QED BY <1>3, <1>4, <1>5 DEF Answered, u, k

-----------------------------------------------------------------------------
(* What happens to all lines                                               *)

\* Objects change places.
LEMMA KeepLines ==
    ASSUME NEW s \in Seq(Line), NEW W, NEW ob, Aligned(s, W, ob), NEW W2, NEW ob2,
           \A x \in W : \E y \in W2 : ob2[y].cmd = ob[x].cmd,
           \A y \in W2 \cap Handles : \E x \in W \cap Handles : Same(ob2[y], ob[x])
    PROVE  Aligned(s, W2, ob2)
<1>1. Owned(s, W2, ob2) BY DEF Aligned, Owned
<1>2. \A y \in W2 \cap Handles : Answered(s, ob2[y]) BY SameAnswer DEF Aligned
<1> QED BY <1>1, <1>2 DEF Aligned

\* The object whose line comes first reads it.
LEMMA TakeLine ==
    ASSUME NEW s \in Seq(Line), s # <<>>, NEW W, NEW ob, Aligned(s, W, ob),
           NEW x \in W, s[1].of = ob[x].cmd, NEW W2, NEW ob2, W2 \subseteq W,
           \A y \in W \ {x} : y \in W2 /\ Same(ob2[y], ob[y]) /\ ob[y].cmd # ob[x].cmd,
           x \in W2 => ob2[x].cmd = ob[x].cmd,
           x \in W2 \cap Handles => Answered(Tail(s), ob2[x]),
           x \notin W2 => \A i \in 2..Len(s) : s[i].of # ob[x].cmd
    PROVE  Aligned(Tail(s), W2, ob2)
<1> DEFINE t == Tail(s)
<1>1. /\ Len(s) \in Nat /\ Len(s) > 0 /\ Len(t) = Len(s) - 1 /\ t \in Seq(Line)
      /\ \A i \in 1..Len(t) : t[i] = s[i + 1]
  BY HeadTailProperties, EmptySeq
<1>2. \A y \in (W2 \cap Handles) \ {x} : Answered(t, ob2[y])
  <2> SUFFICES ASSUME NEW y \in (W2 \cap Handles) \ {x} PROVE Answered(t, ob2[y])
    OBVIOUS
  <2>1. Answered(s, ob[y]) /\ Same(ob2[y], ob[y]) /\ ob[y].cmd # s[1].of
    BY DEF Aligned
  <2>2. Answered(t, ob[y]) BY <2>1, TailAnswered
  <2> QED BY <2>1, <2>2, SameAnswer
<1> HIDE DEF t
<1>3. \A i \in 1..Len(t) : i + 1 \in 1..Len(s) /\ i + 1 \in 2..Len(s) BY <1>1
<1>4. Ordered(t)
  <2> SUFFICES ASSUME NEW i \in 1..Len(t), NEW j \in 1..Len(t), i <= j
               PROVE  t[i].of <= t[j].of
    BY DEF Ordered
  <2>1. i + 1 <= j + 1 BY <1>1
  <2>2. s[i + 1].of <= s[j + 1].of BY <1>3, <2>1 DEF Aligned, Ordered
  <2> QED BY <1>1, <2>2
<1>5. Owned(t, W2, ob2)
  <2> SUFFICES ASSUME NEW i \in 1..Len(t) PROVE \E y \in W2 : t[i].of = ob2[y].cmd
    BY DEF Owned
  <2>1. t[i] = s[i + 1] BY <1>1
  <2>2. PICK y \in W : s[i + 1].of = ob[y].cmd BY <1>3 DEF Aligned, Owned
  <2>3. CASE y = x BY <1>3, <2>1, <2>2, <2>3
  <2>4. CASE y # x
    <3>1. y \in W2 /\ Same(ob2[y], ob[y]) BY <2>4
    <3> QED BY <2>1, <2>2, <3>1 DEF Same
  <2> QED BY <2>3, <2>4
<1> QED BY <1>2, <1>4, <1>5 DEF Aligned, t

\* More lines come.
LEMMA JoinLines ==
    ASSUME NEW s \in Seq(Line), NEW t \in Seq(Line), NEW W, NEW V, NEW ob, NEW ob2,
           Aligned(s, W, ob), Aligned(t, V, ob2),
           \A i \in 1..Len(s), j \in 1..Len(t) : s[i].of <= t[j].of,
           \A x \in W : ob2[x].cmd = ob[x].cmd,
           \A x \in W \cap Handles : Same(ob2[x], ob[x]),
           \A x \in W \cap Handles : \A j \in 1..Len(t) : t[j].of # ob[x].cmd,
           \A x \in V \cap Handles :
              ~ob2[x].headerDone /\ \A i \in 1..Len(s) : s[i].of # ob2[x].cmd
    PROVE  Aligned(s \o t, W \cup V, ob2) /\ s \o t \in Seq(Line)
<1> DEFINE u == s \o t
<1>1. /\ Len(s) \in Nat /\ Len(t) \in Nat /\ Len(u) = Len(s) + Len(t)
      /\ \A i \in 1..Len(s) : u[i] = s[i]
      /\ \A i \in 1..Len(u) : i > Len(s) => u[i] = t[i - Len(s)]
      /\ u \in Seq(Line)
  BY ConcatProperties, LenProperties
<1>2. \A x \in W \cap Handles : Answered(u, ob2[x])
  <2> SUFFICES ASSUME NEW x \in W \cap Handles PROVE Answered(u, ob2[x]) OBVIOUS
  <2>1. Answered(s, ob[x]) /\ Same(ob2[x], ob[x]) BY DEF Aligned
  <2>2. Answered(u, ob[x]) BY <2>1, AnsweredBefore
  <2> QED BY <2>1, <2>2, SameAnswer
<1>3. \A x \in V \cap Handles : Answered(u, ob2[x])
  <2> SUFFICES ASSUME NEW x \in V \cap Handles PROVE Answered(u, ob2[x]) OBVIOUS
  <2>1. Answered(t, ob2[x]) /\ ~ob2[x].headerDone BY DEF Aligned
  <2> QED BY <2>1, AnsweredBehind
<1> HIDE DEF u
<1>4. Ordered(u)
  <2> SUFFICES ASSUME NEW i \in 1..Len(u), NEW j \in 1..Len(u), i <= j
               PROVE  u[i].of <= u[j].of
    BY DEF Ordered
  <2>1. CASE j <= Len(s)
    <3>1. i \in 1..Len(s) /\ j \in 1..Len(s) BY <1>1, <2>1
    <3> QED BY <1>1, <3>1 DEF Aligned, Ordered
  <2>2. CASE i > Len(s)
    <3>1. /\ i - Len(s) \in 1..Len(t) /\ j - Len(s) \in 1..Len(t)
          /\ i - Len(s) <= j - Len(s) /\ j > Len(s)
      BY <1>1, <2>2
    <3>2. t[i - Len(s)].of <= t[j - Len(s)].of BY <3>1 DEF Aligned, Ordered
    <3> QED BY <1>1, <2>2, <3>1, <3>2
  <2>3. CASE i <= Len(s) /\ j > Len(s)
    <3>1. i \in 1..Len(s) /\ j - Len(s) \in 1..Len(t) BY <1>1, <2>3
    <3> QED BY <1>1, <2>3, <3>1
  <2> QED BY <1>1, <2>1, <2>2, <2>3
<1>5. Owned(u, W \cup V, ob2)
  <2> SUFFICES ASSUME NEW i \in 1..Len(u) PROVE \E y \in W \cup V : u[i].of = ob2[y].cmd
    BY DEF Owned
  <2>1. CASE i <= Len(s)
    <3>1. i \in 1..Len(s) /\ u[i] = s[i] BY <1>1, <2>1
    <3>2. PICK y \in W : s[i].of = ob[y].cmd BY <3>1 DEF Aligned, Owned
    <3> QED BY <3>1, <3>2
  <2>2. CASE i > Len(s)
    <3>1. i - Len(s) \in 1..Len(t) /\ u[i] = t[i - Len(s)] BY <1>1, <2>2
    <3> QED BY <3>1 DEF Aligned, Owned
  <2> QED BY <1>1, <2>1, <2>2
<1> QED BY <1>1, <1>2, <1>3, <1>4, <1>5 DEF Aligned, u

\* Who has waited longest owns the first line, and its answer is there.
LEMMA HeadOwner ==
    ASSUME NEW s \in Seq(Line), NEW W, NEW ob, Aligned(s, W, ob),
           NEW x \in W \cap Handles, ob[x].cmd \in Int,
           \/ ob[x].headerDone /\ ob[x].kind = "Multi"
           \/ \A y \in W : ob[x].cmd <= ob[y].cmd
    PROVE  /\ s # <<>> /\ s[1].of = ob[x].cmd
           /\ \E n \in 0..Len(s) : Block(s, ob[x].cmd, 1, n) /\ Shape(s, ob[x], 1, n)
<1>1. PICK p \in 1..Len(s), n \in 0..Len(s) :
         Block(s, ob[x].cmd, p, n) /\ Shape(s, ob[x], p, n)
  BY DEF Aligned, Answered
<1>2. Len(s) \in Nat /\ 1 \in 1..Len(s) /\ s # <<>> BY LenProperties, EmptySeq
<1>3. p = 1
  <2>1. CASE ob[x].headerDone /\ ob[x].kind = "Multi"
    BY <1>1, <2>1 DEF Shape, SimpleKind
  <2>2. CASE \A y \in W : ob[x].cmd <= ob[y].cmd
    <3>1. s[p].of = ob[x].cmd BY <1>1, <1>2 DEF Block
    <3>2. s[1].of <= s[p].of BY <1>2 DEF Aligned, Ordered
    <3>3. \E y \in W : s[1].of = ob[y].cmd BY <1>2 DEF Aligned, Owned
    <3>4. ob[x].cmd <= s[1].of BY <2>2, <3>3
    <3>5. s[1].of = ob[x].cmd BY <1>2, <3>1, <3>2, <3>4, LineFields
    <3> QED BY <1>1, <1>2, <3>5 DEF Block
  <2> QED BY <2>1, <2>2
<1>4. s[1].of = ob[x].cmd BY <1>1, <1>2, <1>3 DEF Block
<1> QED BY <1>1, <1>2, <1>3, <1>4

-----------------------------------------------------------------------------
(* The inductive invariant                                                 *)

Waiting == {x \in Objects : Work(x)}
Insiders == {x \in Handles : Work(x) /\ Inside(x)}
Outsiders == Waiting \ Insiders

\* What reply object o has handed out or put aside is part of its own answer.
Own(o) == /\ o.value # NoLine => o.value.of = o.cmd
          /\ \A i \in 1..Len(o.pending) : o.pending[i].of = o.cmd

OwnValues == \A h \in Handles : Own(object[h])

\* The statuses of the transaction end the stream while it is open; then the
\* verdict follows them.
Statuses(s, p, n) == \A i \in p..(p + n) : s[i].kind \in {"status", "error"}
Refused(s, p, n) == \E i \in p..(p + n) : s[i].kind = "error"

StatusesLast(s, c, n) ==
    LET p == Len(s) - n
    IN  /\ p >= 1
        /\ Block(s, c, p, n)
        /\ Statuses(s, p, n)

QueuedAnswers ==
    LET q == object[Queued] IN
    IF server.failed THEN Refused(stream, Len(stream) - q.count, q.count)
    ELSE server.size = q.count /\ Aligned(server.queue, Insiders, object)

OpenTransaction ==
    /\ Work(Queued)
    /\ server.multi
    /\ object[Queued].taken = 0
    /\ StatusesLast(stream, object[Queued].cmd, object[Queued].count)
    /\ QueuedAnswers
    /\ \A x \in Insiders : object[x].cmd > object[Queued].cmd /\ ~object[x].headerDone
    /\ Aligned(stream, Outsiders, object)
    /\ Asking => ~TooEarly(call.on)

Verdict(line) ==
    \/ transaction = "Committed" /\ line.kind = "multi" /\ line.n = object[Queued].count
    \/ transaction = "Aborted" /\ line.kind = "status"

EndingTransaction ==
    LET q == object[Queued]
        n == q.count - q.taken
    IN  /\ ~server.multi
        /\ Ending /\ call.status = "reading"
        /\ n >= -1 /\ Block(stream, q.cmd, 1, n + 1)
        /\ Statuses(stream, 1, n)
        /\ \/ transaction = "Committed" /\ Refused(stream, 1, n)
           \/ Verdict(stream[n + 2]) /\ Aligned(stream, Waiting, object)

NoTransaction == /\ ~server.multi
                 /\ call.status # "mismatch"
                 /\ Aligned(stream, Waiting, object)

InOrder == IF transaction = "Dirty" THEN OpenTransaction
           ELSE IF Work(Queued) THEN EndingTransaction
           ELSE NoTransaction

RedisppInv ==
    /\ RedisppTypeOK
    /\ Shapes
    /\ InStep => OwnValues /\ call.status # "mismatch"
    /\ InStep /\ ~bad => InOrder

-----------------------------------------------------------------------------
(* Who reads                                                               *)

LEMMA LeastNat ==
    ASSUME NEW S, S \subseteq Nat, S # {}
    PROVE  \E m \in S : \A n \in S : m <= n
<1>1. IsWellFoundedOn(OpToRel(<, Nat), Nat) BY NatLessThanWellFounded
<1>2. \E x \in S : \A y \in S : ~ (<<y, x>> \in OpToRel(<, Nat)) BY <1>1, WFMin
<1>3. \A x, y \in Nat : ~ (<<y, x>> \in OpToRel(<, Nat)) => x <= y BY DEF OpToRel
<1> QED BY <1>2, <1>3

LEMMA FirstExists ==
    ASSUME RedisppTypeOK, NEW S, S \subseteq Objects, S # {}
    PROVE  First(S) # {}
<1> DEFINE places == {object[x].place : x \in S}
<1>1. \A x \in S : object[x].place \in Nat BY DEF RedisppTypeOK, Object
<1>2. PICK m \in places : \A n \in places : m <= n
  <2>1. places \subseteq Nat /\ places # {} BY <1>1
  <2> HIDE DEF places
  <2> QED BY <2>1, LeastNat
<1>3. PICK x \in S : object[x].place = m BY <1>2
<1>4. x \in First(S) BY <1>2, <1>3 DEF First
<1> QED BY <1>4

LEMMA Fields ==
    ASSUME RedisppTypeOK, Shapes, NEW x \in Objects
    PROVE  /\ object[x].place \in Nat /\ object[x].cmd \in Nat
           /\ object[x].conn \in BOOLEAN /\ object[x].headerDone \in BOOLEAN
           /\ object[x].count \in Int /\ object[x].taken \in Nat
           /\ object[x].pending \in Seq(Line)
           /\ object[x].conn => object[x].place = object[x].cmd /\ object[x].cmd > 0
           /\ object[x].cmd <= sent
           /\ object[x].headerDone => object[x].kind = "Multi"
           /\ ~object[x].headerDone => object[x].count = 0 \/ x = Queued
<1>1. object[x] \in Object /\ ObjectShape(x) BY Kinds DEF Shapes
<1> QED BY <1>1 DEF Object, ObjectShape

\* The objects whose answers are in the stream.
Owners == IF transaction = "Dirty" THEN Outsiders ELSE Waiting

LEMMA QueuedWaits ==
    ASSUME RedisppTypeOK, Shapes
    PROVE  /\ Work(Queued) <=> object[Queued].conn
           /\ Work(Queued) => transaction = "Dirty" \/ (Ending /\ call.status = "reading")
           /\ Ending => ~Asking /\ call.on = Queued /\ transaction # "Dirty"
<1>1. object[Queued].kind # "Multi" BY Kinds DEF Shapes, ObjectShape
<1>2. Ending => ~Asking /\ call.on = Queued /\ transaction # "Dirty"
  BY DEF Shapes, CallShape, Ending, Asking, Idle
<1>3. Work(Queued) <=> object[Queued].conn BY <1>1, Kinds, Fields DEF Work
<1>4. object[Queued].conn => transaction = "Dirty" \/ (Ending /\ call.status = "reading")
  BY DEF Shapes
<1> QED BY <1>2, <1>3, <1>4

\* Before the answer of the object that reads next there is none of another.
LEMMA ReaderIsFirst ==
    ASSUME RedisppAssumption, RedisppTypeOK, Shapes, NEW x \in Handles, Now(x),
           transaction = "Dirty" => OpenTransaction
    PROVE  /\ x \in Owners
           /\ Asking
           /\ transaction # "Dirty" => ~Work(Queued)
           /\ \/ object[x].headerDone /\ object[x].kind = "Multi"
              \/ \A y \in Owners : object[x].cmd <= object[y].cmd
<1>1. call.status = "reading" /\ x \in Readers BY DEF Now
<1>2. x \in Objects /\ x # Queued BY DEF Objects, RedisppAssumption
<1>3. Asking /\ call.on \in Handles /\ call.on \in Objects
  <2>1. call # Idle BY <1>1 DEF Idle
  <2>2. SUFFICES ASSUME Ending, call.on = Queued PROVE FALSE
    BY <2>1 DEF Shapes, CallShape, Objects
  <2>3. ~Clears BY <2>2, QueuedWaits DEF Clears, Asking
  <2> QED BY <1>1, <1>2, <2>2, <2>3 DEF Readers
<1>4. \/ Clears /\ x \in First(Earlier(call.on))
      \/ x = call.on /\ Work(x) /\ Drains /\ ~(Clears /\ Earlier(x) # {})
  BY <1>1 DEF Readers
<1>5. x \in Waiting
  BY <1>2, <1>4 DEF First, Earlier, Waiting
<1>6. transaction # "Dirty" => ~Work(Queued)
  BY <1>3, QueuedWaits
<1>7. x \in Owners
  <2>1. SUFFICES ASSUME transaction = "Dirty", x \in Insiders PROVE FALSE
    BY <1>5 DEF Owners, Outsiders
  <2>2. /\ object[x].conn /\ object[x].place > object[Queued].place
        /\ ~object[x].headerDone /\ ~TooEarly(call.on)
    BY <1>3, <2>1 DEF Insiders, Inside, Work, OpenTransaction
  <2>3. CASE x = call.on BY <2>1, <2>2, <2>3 DEF TooEarly
  <2>4. CASE Clears /\ x \in First(Earlier(call.on))
    <3>1. /\ object[call.on].conn /\ ~object[call.on].headerDone
          /\ object[x].place < object[call.on].place
      BY <2>4 DEF Clears, First, Earlier
    <3>2. /\ object[x].place \in Nat /\ object[call.on].place \in Nat
          /\ object[Queued].place \in Nat
      BY <1>2, <1>3, Fields DEF Objects
    <3>3. object[call.on].place > object[Queued].place BY <2>2, <3>1, <3>2
    <3> QED BY <2>1, <2>2, <3>1, <3>3 DEF TooEarly
  <2> QED BY <1>4, <2>3, <2>4
<1>8. \/ object[x].headerDone /\ object[x].kind = "Multi"
      \/ \A y \in Waiting : object[x].cmd <= object[y].cmd
  <2>1. \A y \in Waiting : /\ y \in Objects /\ object[y].place \in Nat
                           /\ object[y].place = object[y].cmd /\ object[y].place > 0
    BY Fields DEF Waiting, Work
  <2>2. object[call.on].place \in Nat BY <1>3, Fields
  <2>3. CASE Clears /\ x \in First(Earlier(call.on))
    <3>1. object[x].place < object[call.on].place BY <2>3 DEF First, Earlier
    <3>2. ASSUME NEW y \in Waiting PROVE object[x].cmd <= object[y].cmd
      <4>1. CASE object[y].place < object[call.on].place
        <5>1. y \in Earlier(call.on) BY <2>1, <4>1 DEF Earlier, Waiting
        <5>2. object[x].place <= object[y].place BY <2>3, <5>1 DEF First
        <5> QED BY <1>5, <2>1, <5>2
      <4>2. CASE ~(object[y].place < object[call.on].place)
        BY <1>5, <2>1, <2>2, <3>1, <4>2
      <4> QED BY <4>1, <4>2
    <3> QED BY <3>2
  <2>4. CASE x = call.on /\ Work(x) /\ Clears /\ Earlier(x) = {}
    <3>1. ASSUME NEW y \in Waiting PROVE object[x].cmd <= object[y].cmd
      <4>1. y \notin Earlier(x) BY <2>4
      <4>2. ~(object[y].place < object[x].place) BY <2>1, <4>1 DEF Earlier, Waiting
      <4> QED BY <1>5, <2>1, <4>2
    <3> QED BY <3>1
  <2>5. CASE x = call.on /\ Work(x) /\ Drains /\ ~Clears
    <3>1. object[x].headerDone \/ (object[x].kind = "Multi" /\ call.op # "next")
      <4>1. call.op \in {"result", "next", "destroy", "assign"} BY <1>3 DEF Asking
      <4>2. object[x].conn BY <2>5 DEF Work
      <4>3. call.on = x BY <2>5
      <4> QED BY <2>5, <4>1, <4>2, <4>3 DEF Clears
    <3>2. object[x].kind = "Multi" /\ call.op # "next" => object[x].count > 0
      BY <2>5 DEF Drains
    <3>3. object[x].headerDone BY <1>2, <3>1, <3>2, Fields
    <3> QED BY <1>2, <3>3, Fields
  <2> QED BY <1>4, <2>3, <2>4, <2>5
<1>9. Owners \subseteq Waiting BY DEF Owners, Outsiders
<1> QED BY <1>3, <1>6, <1>7, <1>8, <1>9

\* The object that reads next finds its answer.
LEMMA ReaderOwnsHead ==
    ASSUME RedisppAssumption, RedisppTypeOK, Shapes, InOrder, NEW x \in Handles, Now(x)
    PROVE  /\ x \in Owners
           /\ Asking
           /\ transaction # "Dirty" => ~Work(Queued)
           /\ Aligned(stream, Owners, object)
           /\ stream # <<>> /\ stream[1].of = object[x].cmd
           /\ \E n \in 0..Len(stream) :
                 /\ Block(stream, object[x].cmd, 1, n)
                 /\ Shape(stream, object[x], 1, n)
<1>1. /\ x \in Owners /\ Asking
      /\ transaction # "Dirty" => ~Work(Queued)
      /\ \/ object[x].headerDone /\ object[x].kind = "Multi"
         \/ \A y \in Owners : object[x].cmd <= object[y].cmd
  BY ReaderIsFirst DEF InOrder
<1>2. Aligned(stream, Owners, object)
  BY <1>1 DEF InOrder, OpenTransaction, NoTransaction, Owners
<1>3. stream \in Seq(Line) /\ object[x].cmd \in Int
  <2>1. x \in Objects BY DEF Objects
  <2> QED BY <2>1, Fields DEF RedisppTypeOK
<1>4. x \in Owners \cap Handles BY <1>1
<1> HIDE DEF Owners
<1> QED BY <1>1, <1>2, <1>3, <1>4, HeadOwner

\* The statuses of a transaction move up with the rest.
LEMMA TailStatuses ==
    ASSUME NEW s \in Seq(Line), s # <<>>, NEW c, NEW n \in Nat,
           StatusesLast(s, c, n), s[1].of # c
    PROVE  /\ StatusesLast(Tail(s), c, n)
           /\ Refused(s, Len(s) - n, n) => Refused(Tail(s), Len(Tail(s)) - n, n)
<1> DEFINE t == Tail(s)
           p == Len(s) - n
<1>1. /\ Len(s) \in Nat /\ Len(s) > 0 /\ Len(t) = Len(s) - 1
      /\ \A i \in 1..Len(t) : t[i] = s[i + 1]
  BY HeadTailProperties, EmptySeq
<1> HIDE DEF t
<1>2. /\ p >= 1 /\ p \in Int /\ p + n = Len(s) /\ Len(t) - n = p - 1
      /\ \A i \in 1..Len(s) : s[i].of = c <=> p <= i /\ i <= p + n
      /\ \A i \in p..(p + n) : s[i].kind \in {"status", "error"}
  BY <1>1 DEF StatusesLast, Block, Statuses
<1>3. p # 1
  <2>1. p = 1 => s[1].of = c BY <1>1, <1>2
  <2> QED BY <2>1
<1> HIDE DEF p
<1>4. Block(t, c, p - 1, n)
  <2>1. ASSUME NEW i \in 1..Len(t)
        PROVE  t[i].of = c <=> p - 1 <= i /\ i <= p - 1 + n
    <3>1. i + 1 \in 1..Len(s) BY <1>1
    <3>2. s[i + 1].of = c <=> p <= i + 1 /\ i + 1 <= p + n BY <1>2, <3>1
    <3>3. t[i] = s[i + 1] BY <1>1
    <3> QED BY ONLY <1>2, <3>2, <3>3, i \in 1..Len(t), n \in Nat
  <2> QED BY <1>1, <1>2, <2>1 DEF Block
<1>5. \A i \in (p - 1)..(p - 1 + n) :
         i \in 1..Len(t) /\ t[i] = s[i + 1] /\ i + 1 \in p..(p + n)
  BY <1>1, <1>2, <1>3
<1>6. Statuses(t, p - 1, n) BY <1>2, <1>5 DEF Statuses
<1>7. Refused(s, p, n) => Refused(t, p - 1, n)
  <2> SUFFICES ASSUME NEW i \in p..(p + n), s[i].kind = "error"
               PROVE  \E j \in (p - 1)..(p - 1 + n) : t[j].kind = "error"
    BY DEF Refused
  <2>1. i - 1 \in (p - 1)..(p - 1 + n) /\ i - 1 + 1 = i BY <1>2
  <2> QED BY <1>5, <2>1
<1>8. p - 1 >= 1 BY <1>2, <1>3
<1> QED BY <1>2, <1>4, <1>6, <1>7, <1>8 DEF StatusesLast, t, p

\* Reading one line keeps the order if what is left of an answer is still
\* waited for.
LEMMA ReaderStep ==
    ASSUME RedisppAssumption, RedisppTypeOK, Shapes, InOrder, NEW x \in Handles, Now(x),
           stream' = Tail(stream), UNCHANGED <<transaction, server>>,
           NEW o, object' = [object EXCEPT ![x] = o],
           o.cmd = object[x].cmd, o.conn => o.place = object[x].place,
           call' = call \/ Over(x) \/ Throw,
           NEW n \in 0..Len(stream), Block(stream, object[x].cmd, 1, n),
           \/ n = 0 /\ ~Work(x)'
           \/ Work(x)' /\ Answered(Tail(stream), o),
           object[x].headerDone => o.headerDone, o.conn => object[x].conn
    PROVE  InOrder'
<1>1. /\ x \in Owners /\ Asking
      /\ transaction # "Dirty" => ~Work(Queued)
      /\ Aligned(stream, Owners, object)
      /\ stream # <<>> /\ stream[1].of = object[x].cmd
  BY ReaderOwnsHead
<1>2. /\ x \in Objects /\ Queued \in Objects /\ x # Queued
      /\ object'[x] = o
      /\ \A y \in Objects : y # x => object'[y] = object[y]
      /\ Handles \subseteq Objects
      /\ stream \in Seq(Line) /\ Len(stream) \in Nat
  BY LenProperties DEF Objects, RedisppAssumption, RedisppTypeOK
<1>3. /\ \A y \in Objects : y # x => /\ Work(y)' <=> Work(y)
                                     /\ Inside(y)' <=> Inside(y)
      /\ Work(x)' => (Inside(x)' <=> Inside(x)) /\ Work(x)
  <2>1. \A y \in Objects : y # x => /\ Work(y)' <=> Work(y)
                                    /\ Inside(y)' <=> Inside(y)
    BY <1>2 DEF Work, Inside
  <2>2. Work(x)' => (Inside(x)' <=> Inside(x)) BY <1>2 DEF Work, Inside
  <2>3. Work(x) BY <1>1 DEF Owners, Outsiders, Waiting
  <2> QED BY <2>1, <2>2, <2>3
<1>4. transaction = "Dirty" => x \notin Insiders /\ Insiders' = Insiders
  <2>1. transaction = "Dirty" => x \notin Insiders BY <1>1 DEF Owners, Outsiders
  <2> QED BY <1>2, <1>3, <2>1 DEF Insiders
<1>5. /\ Owners' \subseteq Owners
      /\ \A y \in Owners \ {x} : y \in Owners'
      /\ x \in Owners' <=> Work(x)'
  <2>1. /\ Waiting' \subseteq Waiting
        /\ \A y \in Waiting \ {x} : y \in Waiting'
        /\ x \in Waiting' <=> Work(x)'
    BY <1>2, <1>3 DEF Waiting
  <2> QED BY <1>4, <2>1 DEF Owners, Outsiders
<1>6. Aligned(Tail(stream), Owners', object')
  <2>1. \A y \in Owners : y \in Objects /\ object[y].conn
    BY DEF Owners, Outsiders, Waiting, Work
  <2>2. \A y \in Owners \ {x} : /\ y \in Owners' /\ Same(object'[y], object[y])
                                /\ object[y].cmd # object[x].cmd
    BY <1>1, <1>2, <1>5, <2>1 DEF Same, Shapes, Distinct
  <2>3. x \in Owners' => object'[x].cmd = object[x].cmd BY <1>2
  <2>4. x \in Owners' \cap Handles => Answered(Tail(stream), object'[x]) BY <1>2, <1>5
  <2>5. x \notin Owners' => \A i \in 2..Len(stream) : stream[i].of # object[x].cmd
    BY <1>2, <1>5 DEF Block
  <2>6. SUFFICES ASSUME NEW W, NEW V, W = Owners, V = Owners'
                 PROVE  Aligned(Tail(stream), V, object')
    OBVIOUS
  <2>7. /\ Aligned(stream, W, object) /\ x \in W /\ V \subseteq W
        /\ \A y \in W \ {x} : /\ y \in V /\ Same(object'[y], object[y])
                             /\ object[y].cmd # object[x].cmd
        /\ x \in V => object'[x].cmd = object[x].cmd
        /\ x \in V \cap Handles => Answered(Tail(stream), object'[x])
        /\ x \notin V => \A i \in 2..Len(stream) : stream[i].of # object[x].cmd
    BY <1>1, <1>5, <2>2, <2>3, <2>4, <2>5, <2>6
  <2> QED BY ONLY <1>1, <1>2, <2>7, TakeLine
<1>7. /\ Asking' => call'.on = call.on
      /\ call'.status # "mismatch"
  <2>1. call \in CallState /\ call.status = "reading"
    BY DEF Now, CallState, RedisppTypeOK
  <2>2. CASE call' = call BY <2>1, <2>2
  <2>3. CASE call' = Idle BY <2>3 DEF Idle, Asking
  <2>4. CASE call' = [call EXCEPT !.status = "threw"] BY <2>1, <2>4 DEF CallState
  <2> QED BY <2>2, <2>3, <2>4 DEF Over, Throw
<1>8. CASE transaction # "Dirty"
  <2>1. ~Work(Queued)' BY <1>1, <1>2, <1>3, <1>8
  <2>2. NoTransaction BY <1>1, <1>8 DEF InOrder
  <2> QED BY <1>6, <1>7, <1>8, <2>1, <2>2 DEF InOrder, NoTransaction, Owners
<1>9. CASE transaction = "Dirty"
  <2>1. OpenTransaction BY <1>9 DEF InOrder
  <2>2. object'[Queued] = object[Queued] /\ Work(Queued)' BY <1>2, <1>3, <2>1 DEF OpenTransaction
  <2>3. object[Queued].count \in Nat
    <3>1. object[Queued].conn /\ ~Ending
      BY <1>1, <2>1, QueuedWaits DEF OpenTransaction
    <3>2. object[Queued].taken <= object[Queued].count BY <3>1 DEF Shapes
    <3>3. object[Queued].taken \in Nat /\ object[Queued].count \in Int BY <1>2, Fields
    <3> QED BY <3>2, <3>3
  <2>4. stream[1].of # object[Queued].cmd
    BY <1>1, <1>2, <2>1 DEF OpenTransaction, Owners, Outsiders, Waiting, Work, Shapes, Distinct
  <2>5. /\ StatusesLast(stream', object[Queued].cmd, object[Queued].count)
        /\ Refused(stream, Len(stream) - object[Queued].count, object[Queued].count)
             => Refused(stream', Len(stream') - object[Queued].count, object[Queued].count)
    BY <1>1, <1>2, <2>1, <2>3, <2>4, TailStatuses DEF OpenTransaction
  <2>6. QueuedAnswers'
    <3>1. CASE server.failed BY <2>1, <2>2, <2>5, <3>1 DEF OpenTransaction, QueuedAnswers
    <3>2. CASE ~server.failed
      <4>1. server.size = object[Queued].count /\ Aligned(server.queue, Insiders, object)
        BY <2>1, <3>2 DEF OpenTransaction, QueuedAnswers
      <4>2. \A y \in Insiders : object'[y] = object[y]
        BY <1>2, <1>4, <1>9 DEF Insiders
      <4>3. Aligned(server.queue, Insiders, object')
        BY <4>1, <4>2 DEF Aligned, Owned
      <4> QED BY <1>4, <1>9, <2>2, <3>2, <4>1, <4>3 DEF QueuedAnswers
    <3> QED BY <3>1, <3>2
  <2>7. \A y \in Insiders' : /\ object'[y].cmd > object'[Queued].cmd
                             /\ ~object'[y].headerDone
    BY <1>2, <1>4, <1>9, <2>1, <2>2 DEF OpenTransaction, Insiders
  <2>8. ASSUME Asking' PROVE ~(TooEarly(call.on)')
    <3>1. ~TooEarly(call.on) /\ call.on \in Objects
      BY <1>1, <1>2, <2>1 DEF OpenTransaction, Shapes, CallShape, Asking, Ending, Idle
    <3>2. call'.on = call.on BY <1>7, <2>8
    <3>3. CASE call.on = x
      BY <1>2, <1>9, <2>2, <3>1, <3>2, <3>3 DEF TooEarly
    <3>4. CASE call.on # x
      BY <1>2, <1>9, <2>2, <3>1, <3>2, <3>4 DEF TooEarly
    <3> QED BY <3>3, <3>4
  <2> QED BY <1>6, <1>9, <2>1, <2>2, <2>5, <2>6, <2>7, <2>8
        DEF InOrder, OpenTransaction, Owners
<1> QED BY <1>8, <1>9

-----------------------------------------------------------------------------
(* The reading actions keep the order                                      *)

LEMMA TailBlock ==
    ASSUME NEW s \in Seq(Line), NEW c, NEW n \in Nat, n > 0, Block(s, c, 1, n)
    PROVE  /\ Block(Tail(s), c, 1, n - 1)
           /\ 1 \in 1..Len(Tail(s)) /\ n - 1 \in 0..Len(Tail(s))
           /\ \A i \in 1..n : Tail(s)[i] = s[i + 1]
<1> DEFINE t == Tail(s)
<1>1. s # <<>> /\ Len(s) \in Nat /\ 1 + n <= Len(s)
  <2>1. Len(s) \in Nat /\ 1 + n <= Len(s) BY LenProperties DEF Block
  <2>2. Len(s) # 0 BY <2>1
  <2> QED BY <2>1, <2>2, EmptySeq
<1>2. /\ Len(t) = Len(s) - 1
      /\ \A i \in 1..Len(t) : t[i] = s[i + 1]
  BY <1>1, HeadTailProperties
<1> HIDE DEF t
<1>3. ASSUME NEW i \in 1..Len(t) PROVE t[i].of = c <=> 1 <= i /\ i <= 1 + (n - 1)
  <2>1. i + 1 \in 1..Len(s) /\ t[i] = s[i + 1] BY <1>1, <1>2
  <2>2. s[i + 1].of = c <=> 1 <= i + 1 /\ i + 1 <= 1 + n BY <2>1 DEF Block
  <2> QED BY ONLY <2>1, <2>2, i \in 1..Len(t), n \in Nat, <1>1, <1>2
<1>4. Block(t, c, 1, n - 1) BY <1>1, <1>2, <1>3 DEF Block
<1> QED BY <1>1, <1>2, <1>4 DEF t

LEMMA HeadIsFirst ==
    ASSUME NEW s \in Seq(Line), s # <<>>
    PROVE  Head(s) = s[1] /\ s[1] \in Line /\ Len(s) \in Nat /\ Len(s) > 0
<1>1. Len(s) \in Nat /\ Len(s) > 0 BY EmptySeq
<1> QED BY <1>1, ElementOfSeq

\* A line that is no bulk string goes as a whole, and the reader with it.
LEMMA LineGone ==
    ASSUME NEW reader, ReadLine(reader), ~bad, ~bad', stream # <<>>,
           reader = "bulk" \/ Head(stream).kind # "bulk"
    PROVE  stream' = Tail(stream) /\ ~Jams(reader, stream, bad)
<1>1. stream' = Rest(reader, stream, bad) /\ ~Jams(reader, stream, bad)
  BY DEF ReadLine
<1> QED BY <1>1 DEF Rest

LEMMA SimpleInOrder ==
    ASSUME RedisppAssumption, RedisppTypeOK, Shapes, InOrder, ~bad, ~bad',
           NEW x \in Objects, ReadSimple(x)
    PROVE  InOrder'
<1>1. x \in Handles /\ object[x].kind \in SimpleKind /\ Now(x)
  <2>1. object[Queued].kind \notin SimpleKind
    BY Kinds DEF Shapes, ObjectShape, SimpleKind
  <2> QED BY <2>1 DEF ReadSimple, Objects
<1>2. /\ stream # <<>> /\ stream \in Seq(Line)
      /\ \E n \in 0..Len(stream) : /\ Block(stream, object[x].cmd, 1, n)
                                   /\ Shape(stream, object[x], 1, n)
  BY <1>1, ReaderOwnsHead DEF RedisppTypeOK
<1>3. /\ 0 \in 0..Len(stream) /\ Block(stream, object[x].cmd, 1, 0)
      /\ Head(stream).kind \in Possible(object[x].kind)
  BY <1>1, <1>2, HeadIsFirst DEF Shape, SimpleKind
<1> DEFINE reader == LineReader(object[x].kind)
<1>4. reader = "bulk" \/ Head(stream).kind # "bulk"
  BY <1>1, <1>3 DEF LineReader, Possible, SimpleKind
<1>5. ReadLine(reader) BY DEF ReadSimple
<1>6. stream' = Tail(stream) BY <1>2, <1>4, <1>5, LineGone
<1> HIDE DEF reader
<1>7. object[x] \in Object /\ object \in [Objects -> Object] BY DEF RedisppTypeOK
<1>8. PICK o : /\ object' = [object EXCEPT ![x] = o]
               /\ o.cmd = object[x].cmd /\ o.headerDone = object[x].headerDone
               /\ ~o.conn
               /\ call' = call \/ Over(x) \/ Throw
  <2>1. \/ /\ object' = [object EXCEPT ![x] = [Unlinked(@) EXCEPT !.value = Received]]
           /\ Over(x)
        \/ /\ object' = [object EXCEPT ![x].conn = FALSE]
           /\ Throw
    BY DEF ReadSimple
  <2>2. CASE object' = [object EXCEPT ![x] = [Unlinked(@) EXCEPT !.value = Received]]
    <3>1. LET o == [Unlinked(object[x]) EXCEPT !.value = Received]
          IN  o.cmd = object[x].cmd /\ o.headerDone = object[x].headerDone /\ ~o.conn
      BY <1>7 DEF Unlinked, Object
    <3> QED BY <1>7, <2>1, <2>2, <3>1
  <2>3. CASE object' = [object EXCEPT ![x].conn = FALSE]
    <3>1. LET o == [object[x] EXCEPT !.conn = FALSE]
          IN  o.cmd = object[x].cmd /\ o.headerDone = object[x].headerDone /\ ~o.conn
      BY <1>7 DEF Object
    <3> QED BY <1>7, <2>1, <2>3, <3>1
  <2> QED BY <2>1, <2>2, <2>3
<1>9. ~Work(x)' BY <1>7, <1>8 DEF Work
<1>10. UNCHANGED <<transaction, server>> BY DEF ReadSimple
<1> QED BY <1>1, <1>3, <1>6, <1>8, <1>9, <1>10, ReaderStep

LEMMA HeaderInOrder ==
    ASSUME RedisppAssumption, RedisppTypeOK, Shapes, InOrder, ~bad, ~bad',
           NEW x \in Objects, ReadHeader(x)
    PROVE  InOrder'
<1>1. /\ x \in Handles /\ object[x].kind = "Multi" /\ Now(x) /\ ~object[x].headerDone
      /\ UNCHANGED <<transaction, server>> /\ ReadLine("multi")
  <2>1. object[Queued].kind # "Multi" BY Kinds DEF Shapes, ObjectShape
  <2> QED BY <2>1 DEF ReadHeader, Objects
<1>2. PICK n \in 0..Len(stream) : /\ Block(stream, object[x].cmd, 1, n)
                                  /\ Shape(stream, object[x], 1, n)
  BY <1>1, ReaderOwnsHead
<1>3. stream # <<>> /\ stream \in Seq(Line) BY <1>1, ReaderOwnsHead DEF RedisppTypeOK
<1>4. Head(stream) = stream[1] /\ n \in Nat BY <1>2, <1>3, HeadIsFirst
<1>5. ~Jams("multi", stream, bad) BY <1>1 DEF ReadLine
<1>6. stream[1].kind # "error" BY <1>4, <1>5 DEF Jams
<1>7. /\ stream[1].kind = "multi" /\ stream[1].n = n
      /\ \A i \in 2..(n + 1) : stream[i].kind = "bulk"
  BY <1>1, <1>2, <1>4, <1>6 DEF Shape, SimpleKind
<1>8. stream' = Tail(stream) BY <1>1, <1>3, <1>4, <1>7, LineGone
<1>9. Announced = n /\ Accepted("multi")
  BY <1>3, <1>4, <1>5, <1>7 DEF Announced, Accepted, Accepts, Exhausted, Wanted
<1>10. object[x] \in Object /\ object \in [Objects -> Object] BY DEF RedisppTypeOK
<1> DEFINE p == [object[x] EXCEPT !.headerDone = TRUE, !.count = n, !.total = n]
           o == IF n = 0 THEN Unlinked(p) ELSE p
<1>11. /\ object' = [object EXCEPT ![x] = o]
       /\ call' = call \/ Over(x)
  BY <1>9, <1>10 DEF ReadHeader
<1>12. /\ p.cmd = object[x].cmd /\ p.headerDone /\ p.count = n /\ p.kind = "Multi"
       /\ p.conn = object[x].conn /\ p.place = object[x].place
  BY <1>1, <1>10 DEF Object
<1>13. /\ o.cmd = object[x].cmd /\ o.headerDone
       /\ n = 0 => ~o.conn
       /\ o.conn => object[x].conn /\ o.place = object[x].place
       /\ n # 0 => (o.conn = object[x].conn) /\ o.count = n /\ o.kind = "Multi"
  <2>1. Unlinked(p).cmd = object[x].cmd /\ Unlinked(p).headerDone /\ ~Unlinked(p).conn
    BY <1>10 DEF Unlinked, Object
  <2> HIDE DEF p
  <2> QED BY <1>12, <2>1
<1> HIDE DEF o, p
<1>14. object'[x] = o BY <1>10, <1>11
<1>15. CASE n = 0
  <2>1. ~Work(x)' BY <1>13, <1>14, <1>15 DEF Work
  <2> QED BY <1>1, <1>2, <1>8, <1>11, <1>13, <1>15, <2>1, ReaderStep
<1>16. CASE n # 0
  <2>1. /\ Block(Tail(stream), o.cmd, 1, n - 1)
        /\ 1 \in 1..Len(Tail(stream)) /\ n - 1 \in 0..Len(Tail(stream))
        /\ \A i \in 1..n : Tail(stream)[i] = stream[i + 1]
    <3>1. n \in Nat /\ n > 0 BY ONLY <1>4, <1>16
    <3>2. o.cmd = object[x].cmd BY <1>13
    <3> QED BY ONLY <1>2, <1>3, <3>1, <3>2, TailBlock
  <2>2. \A i \in 1..(1 + (n - 1)) : Tail(stream)[i].kind = "bulk"
    <3>1. ASSUME NEW i \in 1..(1 + (n - 1)) PROVE Tail(stream)[i].kind = "bulk"
      <4>1. n \in Nat /\ i \in 1..n BY ONLY <1>4, <1>16, i \in 1..(1 + (n - 1))
      <4>2. i + 1 \in 1..(n + 1) /\ i + 1 \in 2..(n + 1) BY ONLY <4>1
      <4> QED BY ONLY <1>7, <2>1, <4>1, <4>2
    <3> QED BY <3>1
  <2>3. Shape(Tail(stream), o, 1, n - 1)
    <3>1. /\ o.kind = "Multi" /\ o.headerDone /\ o.count = (n - 1) + 1
      BY <1>4, <1>13, <1>16
    <3> QED BY ONLY <2>2, <3>1 DEF Shape
  <2>4. Answered(Tail(stream), o) BY <2>1, <2>3 DEF Answered
  <2>5. Work(x)
    BY <1>1, ReaderOwnsHead DEF Owners, Outsiders, Waiting
  <2>6. Work(x)'
    <3>1. object[x].conn BY <2>5 DEF Work
    <3>2. (o.conn = object[x].conn) /\ o.count = n BY <1>13, <1>16
    <3>3. o.conn BY <3>1, <3>2, Zenon
    <3>4. o.count > 0 BY ONLY <1>4, <1>16, <3>2
    <3> QED BY <1>14, <3>3, <3>4 DEF Work
  <2> QED BY <1>1, <1>2, <1>8, <1>11, <1>13, <2>4, <2>6, ReaderStep
<1> QED BY <1>15, <1>16

LEMMA ElementInOrder ==
    ASSUME RedisppAssumption, RedisppTypeOK, Shapes, InOrder, ~bad, ~bad',
           NEW x \in Objects, ReadElement(x) \/ DrainElement(x) \/ ReadAhead(x)
    PROVE  InOrder'
<1>1. /\ x \in Handles /\ object[x].kind = "Multi" /\ Now(x) /\ object[x].headerDone
      /\ UNCHANGED <<transaction, server>> /\ ReadLine("bulk")
  <2>1. object[Queued].kind # "Multi" BY Kinds DEF Shapes, ObjectShape
  <2> QED BY <2>1 DEF ReadElement, DrainElement, ReadAhead, Objects
<1>2. PICK n \in 0..Len(stream) : /\ Block(stream, object[x].cmd, 1, n)
                                  /\ Shape(stream, object[x], 1, n)
  BY <1>1, ReaderOwnsHead
<1>3. stream # <<>> /\ stream \in Seq(Line) BY <1>1, ReaderOwnsHead DEF RedisppTypeOK
<1>4. Head(stream) = stream[1] /\ n \in Nat BY <1>2, <1>3, HeadIsFirst
<1>5. /\ object[x].count = n + 1
      /\ \A i \in 1..(n + 1) : stream[i].kind = "bulk"
  BY <1>1, <1>2, <1>4 DEF Shape, SimpleKind
<1>6. stream[1].kind = "bulk" BY <1>4, <1>5
<1>7. stream' = Tail(stream) BY <1>1, <1>3, LineGone
<1>8. Accepted("bulk") /\ Head(stream).kind # "nil"
  BY <1>3, <1>4, <1>6 DEF Accepted, Accepts, Exhausted, Wanted
<1>9. object[x] \in Object /\ object \in [Objects -> Object] BY DEF RedisppTypeOK
<1>10. Work(x) BY <1>1, ReaderOwnsHead DEF Owners, Outsiders, Waiting
<1>11. PICK o : /\ object' = [object EXCEPT ![x] = o]
                /\ o.cmd = object[x].cmd /\ o.headerDone /\ o.kind = "Multi"
                /\ o.count = n
                /\ o.conn => object[x].conn /\ o.place = object[x].place
                /\ n # 0 => o.conn
                /\ call' = call \/ Over(x) \/ Throw
  <2> DEFINE l == OneLess(object[x])
  <2>1. /\ l \in Object /\ l.cmd = object[x].cmd /\ l.headerDone /\ l.kind = "Multi"
        /\ l.count = n /\ l.conn = object[x].conn /\ l.place = object[x].place
    <3>1. object[x].count - 1 = n /\ object[x].count - 1 \in Int BY <1>4, <1>5
    <3> DEFINE d == object[x].count - 1
    <3>2. l = [object[x] EXCEPT !.count = d] BY DEF OneLess
    <3> HIDE DEF d, l
    <3>3. d = n /\ d \in Int BY <3>1 DEF d
    <3> QED BY <1>1, <1>9, <3>2, <3>3 DEF Object
  <2> HIDE DEF l
  <2>2. l.conn BY <1>10, <2>1 DEF Work
  <2>3. CASE ReadElement(x)
    <3> DEFINE o == HandOut(l, Received)
    <3>1. object' = [object EXCEPT ![x] = o] /\ Over(x)
      BY <1>8, <1>9, <2>3 DEF ReadElement, l
    <3>2. /\ o.cmd = l.cmd /\ o.headerDone /\ o.kind = l.kind /\ o.count = l.count
          /\ o.conn = l.conn /\ o.place = l.place
      BY <2>1 DEF HandOut, Object
    <3> HIDE DEF o
    <3> QED BY <2>1, <2>2, <3>1, <3>2
  <2>4. CASE DrainElement(x)
    <3> DEFINE o == LeaveAtEnd(l)
    <3>1. object' = [object EXCEPT ![x] = o] /\ call' = call
      BY <1>8, <1>9, <2>4 DEF DrainElement, l
    <3>2. /\ o.cmd = l.cmd /\ o.headerDone /\ o.kind = l.kind /\ o.count = l.count
          /\ o.conn => l.conn /\ o.place = l.place
          /\ n # 0 => o.conn
      BY <1>4, <2>1, <2>2 DEF LeaveAtEnd, Unlinked, Object
    <3> HIDE DEF o
    <3> QED BY <2>1, <2>2, <3>1, <3>2
  <2>5. CASE ReadAhead(x)
    <3> DEFINE m == PutAside(l, Received)
               o == LeaveAtEnd(m)
    <3>1. object' = [object EXCEPT ![x] = o] /\ call' = call
      BY <1>8, <1>9, <2>5 DEF ReadAhead, l
    <3>2. /\ m.cmd = l.cmd /\ m.headerDone /\ m.kind = l.kind /\ m.count = l.count
          /\ m.conn = l.conn /\ m.place = l.place
          /\ Unlinked(m).cmd = l.cmd /\ Unlinked(m).headerDone
          /\ Unlinked(m).kind = l.kind /\ Unlinked(m).count = l.count /\ ~Unlinked(m).conn
      BY <2>1 DEF PutAside, Unlinked, Object
    <3> HIDE DEF m
    <3>3. /\ o.cmd = l.cmd /\ o.headerDone /\ o.kind = l.kind /\ o.count = l.count
          /\ o.conn => l.conn /\ o.place = l.place
          /\ n # 0 => o.conn
      <4>1. CASE n = 0
        <5>1. o = Unlinked(m) BY <2>1, <3>2, <4>1 DEF LeaveAtEnd
        <5> HIDE DEF o
        <5> QED BY <3>2, <4>1, <5>1
      <4>2. CASE n # 0
        <5>1. ~(m.count <= 0) BY <1>4, <2>1, <3>2, <4>2
        <5>2. o = m BY <5>1 DEF LeaveAtEnd
        <5> HIDE DEF o
        <5> QED BY <2>2, <3>2, <5>2
      <4> QED BY <4>1, <4>2
    <3> HIDE DEF o
    <3> QED BY <2>1, <2>2, <3>1, <3>3
  <2> QED BY <2>3, <2>4, <2>5
<1>12. object'[x] = o BY <1>9, <1>11
<1>13. CASE n = 0
  <2>1. ~Work(x)' BY <1>11, <1>12, <1>13 DEF Work
  <2> QED BY <1>1, <1>2, <1>7, <1>11, <1>13, <2>1, ReaderStep
<1>14. CASE n # 0
  <2>1. /\ Block(Tail(stream), o.cmd, 1, n - 1)
        /\ 1 \in 1..Len(Tail(stream)) /\ n - 1 \in 0..Len(Tail(stream))
        /\ \A i \in 1..n : Tail(stream)[i] = stream[i + 1]
    <3>1. n \in Nat /\ n > 0 BY ONLY <1>4, <1>14
    <3>2. o.cmd = object[x].cmd BY <1>11
    <3> QED BY ONLY <1>2, <1>3, <3>1, <3>2, TailBlock
  <2>2. \A i \in 1..(1 + (n - 1)) : Tail(stream)[i].kind = "bulk"
    <3>1. ASSUME NEW i \in 1..(1 + (n - 1)) PROVE Tail(stream)[i].kind = "bulk"
      <4>1. n \in Nat /\ i \in 1..n BY ONLY <1>4, <1>14, i \in 1..(1 + (n - 1))
      <4>2. i + 1 \in 1..(n + 1) /\ i + 1 \in 2..(n + 1) BY ONLY <4>1
      <4> QED BY ONLY <1>5, <2>1, <4>1, <4>2
    <3> QED BY <3>1
  <2>3. Shape(Tail(stream), o, 1, n - 1)
    <3>1. /\ o.kind = "Multi" /\ o.headerDone /\ o.count = (n - 1) + 1
      BY <1>4, <1>11
    <3> QED BY ONLY <2>2, <3>1 DEF Shape
  <2>4. Answered(Tail(stream), o) BY <2>1, <2>3 DEF Answered
  <2>5. Work(x)'
    <3>1. o.conn /\ o.count > 0 BY <1>4, <1>11, <1>14
    <3> QED BY <1>12, <3>1 DEF Work
  <2> QED BY <1>1, <1>2, <1>7, <1>11, <2>4, <2>5, ReaderStep
<1> QED BY <1>13, <1>14

\* The QueuedReply only reads while the transaction ends.
LEMMA QueuedReads ==
    ASSUME RedisppAssumption, RedisppTypeOK, Shapes, InOrder, Now(Queued)
    PROVE  EndingTransaction /\ Work(Queued) /\ transaction # "Dirty" /\ Ending
<1>1. call.status = "reading" /\ Queued \in Readers BY DEF Now
<1>2. Queued \in Objects /\ Queued \notin Handles /\ Handles \subseteq Objects
  BY DEF Objects, RedisppAssumption
<1>3. Ending
  <2>1. SUFFICES ASSUME Asking, call.on \in Handles PROVE FALSE
    BY <1>1 DEF Shapes, CallShape, Idle
  <2>2. Clears /\ Queued \in First(Earlier(call.on))
    BY <1>1, <1>2, <2>1 DEF Readers
  <2>3. /\ Work(Queued) /\ object[Queued].place < object[call.on].place
        /\ object[call.on].conn /\ ~object[call.on].headerDone
    BY <2>2 DEF First, Earlier, Clears
  <2>4. transaction = "Dirty" BY <2>1, <2>3, QueuedWaits
  <2>5. ~TooEarly(call.on) BY <2>1, <2>4 DEF InOrder, OpenTransaction
  <2>6. object[call.on].place > object[Queued].place BY <1>2, <2>1, <2>3, Fields
  <2> QED BY <2>3, <2>4, <2>5, <2>6 DEF TooEarly
<1>4. transaction # "Dirty" /\ ~Asking BY <1>3, QueuedWaits
<1>5. Work(Queued) BY <1>1, <1>4 DEF Readers, Clears, Asking
<1> QED BY <1>3, <1>4, <1>5 DEF InOrder

LEMMA StatusInOrder ==
    ASSUME RedisppAssumption, RedisppTypeOK, Shapes, InOrder, ~bad, ~bad',
           ReadStatuses, InStep'
    PROVE  InOrder'
<1>1. /\ EndingTransaction /\ Work(Queued) /\ transaction # "Dirty" /\ Ending
      /\ transaction' = transaction /\ server' = server
      /\ ReadLine("status")
  BY QueuedReads DEF ReadStatuses
<1> DEFINE q == object[Queued]
           n == q.count - q.taken
<1>2. /\ Queued \in Objects /\ Queued \notin Handles
      /\ stream \in Seq(Line) /\ Len(stream) \in Nat
      /\ q.count \in Int /\ q.taken \in Nat
      /\ q \in Object /\ object \in [Objects -> Object]
  BY Fields, LenProperties DEF Objects, RedisppAssumption, RedisppTypeOK
<1>3. n \in Nat
  <2>1. q.taken <= q.count BY DEF ReadStatuses
  <2> QED BY <1>2, <2>1
<1>4. /\ Block(stream, q.cmd, 1, n + 1) /\ Statuses(stream, 1, n)
      /\ ~server.multi /\ call.status = "reading"
  BY <1>1 DEF EndingTransaction
<1> HIDE DEF q, n
<1>5. /\ stream # <<>> /\ Head(stream) = stream[1] /\ stream[1].of = q.cmd
      /\ stream[1].kind \in {"status", "error"}
  <2>1. 1 + (n + 1) <= Len(stream) BY <1>4 DEF Block
  <2>2. stream # <<>> /\ 1 \in 1..Len(stream) BY <1>2, <1>3, <2>1, EmptySeq
  <2>3. stream[1].of = q.cmd BY <1>3, <1>4, <2>2 DEF Block
  <2>4. 1 \in 1..(1 + n) BY <1>3
  <2> QED BY <1>2, <1>4, <2>2, <2>3, <2>4, HeadIsFirst DEF Statuses
<1>6. stream' = Tail(stream) BY <1>1, <1>5, LineGone
<1>7. /\ Accepted("status") /\ UNCHANGED call
      /\ object' = [object EXCEPT ![Queued].taken = @ + 1, ![Queued].conn = TRUE]
  <2>1. Accepted("status") BY DEF ReadStatuses, BlameIf, InStep
  <2>2. transaction # "Dirty" \/ object[Queued].taken < object[Queued].count BY <1>1
  <2> QED BY <2>1, <2>2 DEF ReadStatuses
<1>8. stream[1].kind = "status" BY <1>5, <1>7 DEF Accepted, Accepts, Wanted
<1>9. /\ object'[Queued].count = q.count /\ object'[Queued].taken = q.taken + 1
      /\ object'[Queued].cmd = q.cmd /\ object'[Queued].kind = q.kind
      /\ object'[Queued].conn /\ object'[Queued].headerDone = q.headerDone
      /\ \A y \in Objects : y # Queued => object'[y] = object[y]
  BY <1>2, <1>7 DEF q, Object
<1>10. \A y \in Objects : Work(y)' <=> Work(y)
  <2>1. Work(Queued)' <=> Work(Queued)
    BY <1>1, <1>2, <1>9 DEF Work, q
  <2> QED BY <1>9, <2>1 DEF Work
<1>11. Waiting' = Waiting BY <1>10 DEF Waiting
<1>12. /\ Block(stream', q.cmd, 1, n)
       /\ \A i \in 1..(n + 1) : stream'[i] = stream[i + 1]
  <2>1. n + 1 \in Nat /\ n + 1 > 0 /\ (n + 1) - 1 = n BY <1>3
  <2> QED BY ONLY <1>2, <1>4, <1>6, <2>1, TailBlock
<1>13. Statuses(stream', 1, n - 1)
  <2> SUFFICES ASSUME NEW i \in 1..(1 + (n - 1))
               PROVE  stream'[i].kind \in {"status", "error"}
    BY DEF Statuses
  <2>1. i \in 1..(n + 1) /\ i + 1 \in 1..(1 + n) BY <1>3
  <2> QED BY <1>4, <1>12, <2>1 DEF Statuses
<1>14. Refused(stream, 1, n) => Refused(stream', 1, n - 1)
  <2> SUFFICES ASSUME NEW i \in 1..(1 + n), stream[i].kind = "error"
               PROVE  \E j \in 1..(1 + (n - 1)) : stream'[j].kind = "error"
    BY DEF Refused
  <2>1. i # 1 BY <1>8
  <2>2. i - 1 \in 1..(1 + (n - 1)) /\ i - 1 \in 1..(n + 1) /\ (i - 1) + 1 = i
    BY <1>3, <2>1
  <2>3. stream'[i - 1] = stream[i] BY <1>12, <2>2
  <2> QED BY <2>2, <2>3
<1>15. stream'[(n - 1) + 2] = stream[n + 2]
  <2>1. n + 1 \in 1..(n + 1) /\ (n - 1) + 2 = n + 1 /\ (n + 1) + 1 = n + 2 BY <1>3
  <2> QED BY <1>12, <2>1
<1>16. Aligned(stream, Waiting, object) => Aligned(stream', Waiting, object')
  <2> SUFFICES ASSUME Aligned(stream, Waiting, object)
               PROVE  Aligned(Tail(stream), Waiting, object')
    BY <1>6
  <2>1. Queued \in Waiting /\ \A y \in Waiting : y \in Objects /\ object[y].conn
    BY <1>1, <1>2 DEF Waiting, Work
  <2>2. \A y \in Waiting \ {Queued} : /\ Same(object'[y], object[y])
                                      /\ object[y].cmd # object[Queued].cmd
    BY <1>9, <2>1 DEF Same, Shapes, Distinct
  <2>3. stream[1].of = object[Queued].cmd /\ object'[Queued].cmd = object[Queued].cmd
    BY <1>5, <1>9 DEF q
  <2> SUFFICES ASSUME NEW W, W = Waiting PROVE Aligned(Tail(stream), W, object')
    OBVIOUS
  <2> QED BY <1>2, <1>5, <2>1, <2>2, <2>3, TakeLine
<1>17. EndingTransaction'
  <2>1. \/ transaction = "Committed" /\ Refused(stream, 1, n)
        \/ Verdict(stream[n + 2]) /\ Aligned(stream, Waiting, object)
    BY <1>1 DEF EndingTransaction, q, n
  <2>2. object'[Queued].count - object'[Queued].taken = n - 1
    BY <1>2, <1>9 DEF n
  <2>3. n - 1 >= -1 /\ (n - 1) + 1 = n BY <1>3
  <2>4. Ending' BY <1>1, <1>7 DEF Ending
  <2>5. \/ transaction' = "Committed" /\ Refused(stream', 1, n - 1)
        \/ /\ LET line == stream[n + 2] IN
              \/ transaction' = "Committed" /\ line.kind = "multi" /\ line.n = q.count
              \/ transaction' = "Aborted" /\ line.kind = "status"
           /\ Aligned(stream', Waiting', object')
    <3>1. CASE transaction = "Committed" /\ Refused(stream, 1, n) BY <1>1, <1>14, <3>1
    <3>2. CASE Verdict(stream[n + 2]) /\ Aligned(stream, Waiting, object)
      BY <1>1, <1>9, <1>11, <1>16, <3>2 DEF Verdict, q
    <3> QED BY <2>1, <3>1, <3>2
  <2> QED BY <1>1, <1>4, <1>7, <1>9, <1>11, <1>12, <1>13, <1>15,
             <2>2, <2>3, <2>4, <2>5 DEF EndingTransaction, Verdict
<1> QED BY <1>1, <1>2, <1>10, <1>17 DEF InOrder

LEMMA VerdictInOrder ==
    ASSUME RedisppAssumption, RedisppTypeOK, Shapes, InOrder, ~bad, ~bad', ReadVerdict
    PROVE  InOrder' /\ call'.status # "mismatch"
<1>1. /\ EndingTransaction /\ Work(Queued) /\ transaction # "Dirty" /\ Ending
      /\ transaction' = transaction /\ server' = server
  BY QueuedReads DEF ReadVerdict
<1> DEFINE q == object[Queued]
           reader == IF transaction = "Committed" THEN "int" ELSE "status"
<1>2. /\ Queued \in Objects /\ Queued \notin Handles
      /\ stream \in Seq(Line) /\ Len(stream) \in Nat
      /\ q.count \in Int /\ q.taken \in Nat
      /\ q \in Object /\ object \in [Objects -> Object]
  BY Fields, LenProperties DEF Objects, RedisppAssumption, RedisppTypeOK
<1>3. q.count - q.taken = -1
  <2>1. q.taken > q.count BY DEF ReadVerdict
  <2>2. q.count - q.taken >= -1 BY <1>1 DEF EndingTransaction
  <2> QED BY <1>2, <2>1, <2>2
<1>4. /\ Block(stream, q.cmd, 1, 0)
      /\ ~server.multi /\ call.status = "reading"
      /\ Verdict(stream[1]) /\ Aligned(stream, Waiting, object)
  <2>1. ~Refused(stream, 1, -1) BY DEF Refused
  <2>2. (-1) + 1 = 0 /\ (-1) + 2 = 1 OBVIOUS
  <2> QED BY <1>1, <1>3, <2>1, <2>2 DEF EndingTransaction
<1> HIDE DEF q
<1>5. stream # <<>> /\ Head(stream) = stream[1] /\ stream[1].of = q.cmd
  <2>1. 1 + 0 <= Len(stream) BY <1>4 DEF Block
  <2>2. stream # <<>> /\ 1 \in 1..Len(stream) BY <1>2, <2>1, EmptySeq
  <2>3. stream[1].of = q.cmd BY <1>4, <2>2 DEF Block
  <2> QED BY <1>2, <2>2, <2>3, HeadIsFirst
<1>6. Accepted(reader) /\ Head(stream).kind # "bulk"
  BY <1>4, <1>5 DEF Verdict, Accepted, Accepts, Exhausted, Wanted
<1>7. ReadLine(reader) BY DEF ReadVerdict
<1> HIDE DEF reader
<1>8. stream' = Tail(stream) BY <1>5, <1>6, <1>7, LineGone
<1>9. Over(Queued)
  <2>1. transaction = "Committed" => Head(stream).n = object[Queued].count
    BY <1>4, <1>5 DEF Verdict
  <2> QED BY <1>6, <2>1 DEF ReadVerdict, reader
<1>10. call'.status # "mismatch" BY <1>4, <1>9 DEF Over, Idle
<1>11. /\ ~object'[Queued].conn
       /\ \A y \in Objects : y # Queued => object'[y] = object[y]
  BY <1>2 DEF ReadVerdict, q, Object
<1>12. ~Work(Queued)' /\ \A y \in Objects : y # Queued => (Work(y)' <=> Work(y))
  BY <1>11 DEF Work
<1>13. Waiting' = Waiting \ {Queued} BY <1>12 DEF Waiting
<1>14. Aligned(Tail(stream), Waiting \ {Queued}, object')
  <2>1. Queued \in Waiting /\ \A y \in Waiting : y \in Objects /\ object[y].conn
    BY <1>1, <1>2 DEF Waiting, Work
  <2>2. \A y \in Waiting \ {Queued} : /\ Same(object'[y], object[y])
                                      /\ object[y].cmd # object[Queued].cmd
    BY <1>11, <2>1 DEF Same, Shapes, Distinct
  <2>3. stream[1].of = object[Queued].cmd BY <1>5 DEF q
  <2>4. \A i \in 2..Len(stream) : stream[i].of # object[Queued].cmd
    BY <1>2, <1>4 DEF Block, q
  <2> SUFFICES ASSUME NEW W, W = Waiting PROVE Aligned(Tail(stream), W \ {Queued}, object')
    OBVIOUS
  <2> DEFINE V == W \ {Queued}
  <2>5. V \subseteq W /\ Queued \notin V /\ \A y \in W \ {Queued} : y \in V OBVIOUS
  <2> HIDE DEF V
  <2>6. Aligned(Tail(stream), V, object')
    BY <1>2, <1>4, <1>5, <2>1, <2>2, <2>3, <2>4, <2>5, TakeLine
  <2> QED BY <2>6 DEF V
<1>15. NoTransaction'
  BY <1>1, <1>4, <1>8, <1>10, <1>13, <1>14 DEF NoTransaction
<1> QED BY <1>1, <1>10, <1>12, <1>15 DEF InOrder

-----------------------------------------------------------------------------
(* New lines keep the order                                                *)

\* The answer to a new command is one for its object.
LEMMA NewAnswered ==
    ASSUME RedisppAssumption, NEW kind \in ReplyKind, NEW c \in Nat,
           NEW a \in Answers(kind, c), NEW o,
           o.kind = kind, o.cmd = c, ~o.headerDone
    PROVE  /\ a \in Seq(Line) /\ Answered(a, o)
           /\ \A i \in 1..Len(a) : a[i].of = c
<1>1. a \in Seq(Line) BY AnswersAreLines
<1>2. ASSUME NEW k, NEW n \in Int, a = <<LineOf(k, n, c, 0)>>,
             \/ kind \in SimpleKind /\ k \in Possible(kind)
             \/ kind = "Multi" /\ k = "error"
      PROVE  /\ Answered(a, o)
             /\ \A i \in 1..Len(a) : a[i].of = c
  <2>1. Len(a) = 1 /\ a[1].of = c /\ a[1].kind = k BY <1>2 DEF LineOf
  <2>2. \A i \in 1..Len(a) : a[i].of = c BY <2>1
  <2>3. Block(a, o.cmd, 1, 0) BY <2>1 DEF Block
  <2>4. Shape(a, o, 1, 0) BY <1>2, <2>1 DEF Shape
  <2> QED BY <2>1, <2>2, <2>3, <2>4 DEF Answered
<1>3. ASSUME NEW n \in Nat, a = MultiAnswer(c, n), kind = "Multi"
      PROVE  /\ Answered(a, o)
             /\ \A i \in 1..Len(a) : a[i].of = c
  <2>1. Len(a) = n + 1 BY <1>3 DEF MultiAnswer
  <2>2. \A i \in 1..(n + 1) : a[i] = IF i = 1 THEN LineOf("multi", n, c, 0)
                                             ELSE LineOf("bulk", 1, c, i - 1)
    BY <1>3 DEF MultiAnswer
  <2> DEFINE m == LineOf("multi", n, c, 0)
             b(i) == LineOf("bulk", 1, c, i - 1)
  <2>9. /\ m.of = c /\ m.kind = "multi" /\ m.n = n
        /\ \A i : b(i).of = c /\ b(i).kind = "bulk"
    BY DEF LineOf
  <2>10. \A i \in 1..(n + 1) : a[i] = IF i = 1 THEN m ELSE b(i) BY <2>2
  <2> HIDE DEF m, b
  <2>3. \A i \in 1..(n + 1) : a[i].of = c BY ONLY <2>9, <2>10
  <2>4. a[1].kind = "multi" /\ a[1].n = n BY ONLY <2>9, <2>10, n \in Nat
  <2>5. \A i \in 2..(1 + n) : a[i].kind = "bulk"
    <3>1. \A i \in 2..(1 + n) : i \in 1..(n + 1) /\ i # 1 BY ONLY n \in Nat
    <3> QED BY ONLY <2>9, <2>10, <3>1
  <2>6. Block(a, o.cmd, 1, n) BY <2>1, <2>3 DEF Block
  <2>7. Shape(a, o, 1, n) BY <1>3, <2>4, <2>5 DEF Shape
  <2>8. 1 \in 1..Len(a) /\ n \in 0..Len(a) BY <2>1
  <2> QED BY <2>1, <2>3, <2>6, <2>7, <2>8 DEF Answered
<1>4. CASE a = <<LineOf("error", 0, c, 0)>>
  BY <1>1, <1>2, <1>4 DEF ReplyKind, SimpleKind, Possible
<1>5. CASE a \in Replies(kind, c)
  <2>1. CASE kind = "Void"
    <3>1. a = <<LineOf("status", 0, c, 0)>> BY <1>5, <2>1, RepliesOfKind
    <3> QED BY <1>1, <1>2, <2>1, <3>1 DEF SimpleKind, Possible
  <2>2. CASE kind \in {"Bool", "Int"}
    <3>1. PICK n \in 0..1 : a = <<LineOf("int", n, c, 0)>> BY <1>5, <2>2, RepliesOfKind
    <3> QED BY <1>1, <1>2, <2>2, <3>1 DEF SimpleKind, Possible
  <2>3. CASE kind = "String"
    <3>1. a = <<LineOf("nil", -1, c, 0)>> \/ a = <<LineOf("bulk", 1, c, 0)>>
      BY <1>5, <2>3, RepliesOfKind
    <3> QED BY <1>1, <1>2, <2>3, <3>1 DEF SimpleKind, Possible
  <2>4. CASE kind = "Multi"
    <3>1. PICK n \in Lengths : a = MultiAnswer(c, n) BY <1>5, <2>4, RepliesOfKind
    <3>2. n \in Nat BY DEF RedisppAssumption
    <3> QED BY <1>1, <1>3, <2>4, <3>1, <3>2
  <2> QED BY <2>1, <2>2, <2>3, <2>4 DEF ReplyKind, SimpleKind
<1> QED BY <1>1, <1>4, <1>5 DEF Answers

\* One more status, at the end.
LEMMA AppendStatus ==
    ASSUME NEW s \in Seq(Line), NEW c, NEW n \in Nat, StatusesLast(s, c, n),
           NEW l \in Line, l.of = c, l.kind \in {"status", "error"}
    PROVE  LET t == s \o <<l>> IN
           /\ StatusesLast(t, c, n + 1)
           /\ Refused(s, Len(s) - n, n) \/ l.kind = "error"
                 => Refused(t, Len(t) - (n + 1), n + 1)
<1> DEFINE t == s \o <<l>>
           p == Len(s) - n
<1>1. /\ Len(s) \in Nat /\ Len(t) = Len(s) + 1
      /\ \A i \in 1..Len(s) : t[i] = s[i]
      /\ t[Len(s) + 1] = l
  <2>1. <<l>> \in Seq(Line) /\ Len(<<l>>) = 1 /\ <<l>>[1] = l OBVIOUS
  <2>2. /\ Len(s) \in Nat /\ Len(t) = Len(s) + 1
        /\ \A i \in 1..(Len(s) + 1) : t[i] = IF i <= Len(s) THEN s[i] ELSE <<l>>[i - Len(s)]
    BY <2>1, ConcatProperties, LenProperties
  <2> HIDE DEF t
  <2>3. Len(s) + 1 \in 1..(Len(s) + 1) /\ ~(Len(s) + 1 <= Len(s)) /\ Len(s) + 1 - Len(s) = 1
    BY <2>2
  <2> QED BY <2>1, <2>2, <2>3
<1> HIDE DEF t
<1>2. /\ p >= 1 /\ p \in Int /\ p + n = Len(s) /\ Len(t) - (n + 1) = p
      /\ \A i \in 1..Len(s) : s[i].of = c <=> p <= i /\ i <= p + n
      /\ \A i \in p..(p + n) : s[i].kind \in {"status", "error"}
  BY <1>1 DEF StatusesLast, Block, Statuses
<1> HIDE DEF p
<1>3. Block(t, c, p, n + 1)
  <2>1. ASSUME NEW i \in 1..Len(t) PROVE t[i].of = c <=> p <= i /\ i <= p + (n + 1)
    <3>1. CASE i <= Len(s) BY <1>1, <1>2, <3>1
    <3>2. CASE i = Len(s) + 1 BY <1>1, <1>2, <3>2
    <3> QED BY <1>1, <3>1, <3>2
  <2> QED BY <1>1, <1>2, <2>1 DEF Block
<1>4. \A i \in p..(p + n) : i \in 1..Len(s) /\ i \in p..(p + (n + 1)) /\ t[i] = s[i]
  BY <1>1, <1>2
<1>5. Statuses(t, p, n + 1)
  <2> SUFFICES ASSUME NEW i \in p..(p + (n + 1)) PROVE t[i].kind \in {"status", "error"}
    BY DEF Statuses
  <2>1. CASE i = p + (n + 1)
    <3>1. i = Len(s) + 1 BY <1>1, <1>2, <2>1
    <3> QED BY <1>1, <3>1
  <2>2. CASE i # p + (n + 1)
    <3>1. i \in p..(p + n) BY <1>2, <2>2
    <3> QED BY <1>2, <1>4, <3>1
  <2> QED BY <2>1, <2>2
<1>6. Refused(s, p, n) => Refused(t, p, n + 1) BY <1>4 DEF Refused
<1>7. l.kind = "error" => Refused(t, p, n + 1)
  <2>1. Len(s) + 1 \in p..(p + (n + 1)) BY <1>1, <1>2
  <2> QED BY <1>1, <2>1 DEF Refused
<1> QED BY <1>2, <1>3, <1>5, <1>6, <1>7 DEF StatusesLast, t, p

LEMMA OneLine ==
    ASSUME RedisppAssumption, NEW l \in Line, NEW ob, l.of = ob[Queued].cmd
    PROVE  <<l>> \in Seq(Line) /\ Aligned(<<l>>, {Queued}, ob)
<1>1. <<l>> \in Seq(Line) /\ Len(<<l>>) = 1 /\ <<l>>[1] = l OBVIOUS
<1>2. \A i, j \in 1..1 : i = 1 /\ j = 1 OBVIOUS
<1>3. l.of \in Nat BY DEF Line
<1>4. Ordered(<<l>>) BY <1>1, <1>2, <1>3 DEF Ordered
<1>5. Owned(<<l>>, {Queued}, ob) BY <1>1, <1>2 DEF Owned
<1>6. {Queued} \cap Handles = {} BY DEF RedisppAssumption
<1> QED BY <1>1, <1>4, <1>5, <1>6 DEF Aligned

\* No line answers a command that was not sent yet.
LEMMA NoFuture ==
    ASSUME RedisppTypeOK, Shapes, NEW s \in Seq(Line), NEW W, W \subseteq Objects,
           Aligned(s, W, object)
    PROVE  \A i \in 1..Len(s) : s[i].of \in Nat /\ s[i].of <= sent
<1> SUFFICES ASSUME NEW i \in 1..Len(s) PROVE s[i].of \in Nat /\ s[i].of <= sent
  OBVIOUS
<1>1. PICK x \in W : s[i].of = object[x].cmd BY DEF Aligned, Owned
<1>2. x \in Objects BY <1>1
<1> QED BY <1>1, <1>2, Fields

\* In an open transaction what is in the stream was asked for before it.
LEMMA OutsidersBefore ==
    ASSUME RedisppAssumption, RedisppTypeOK, Shapes, OpenTransaction
    PROVE  /\ \A i \in 1..Len(stream) : stream[i].of <= object[Queued].cmd
           /\ \A x \in Outsiders \cap Handles : object[x].cmd # object[Queued].cmd
           /\ Queued \in Outsiders
           /\ object[Queued].place = object[Queued].cmd
           /\ object[Queued].conn
<1>1. Queued \in Objects /\ Queued \notin Handles /\ object[Queued].conn
  BY DEF Objects, RedisppAssumption, OpenTransaction, Work
<1>2. object[Queued].place = object[Queued].cmd /\ object[Queued].cmd \in Nat
  BY <1>1, Fields
<1>3. Queued \in Outsiders
  BY <1>1 DEF OpenTransaction, Outsiders, Waiting, Insiders
<1>4. ASSUME NEW x \in Outsiders
      PROVE  object[x].cmd <= object[Queued].cmd /\ x \in Objects /\ object[x].conn
  <2>1. x \in Objects /\ object[x].conn BY DEF Outsiders, Waiting, Work
  <2>2. CASE x = Queued BY <1>2, <2>1, <2>2
  <2>3. CASE x # Queued
    <3>1. x \in Handles BY <2>1, <2>3 DEF Objects
    <3>2. ~Inside(x) BY <3>1 DEF Outsiders, Waiting, Insiders
    <3> QED BY <1>1, <1>2, <2>1, <3>2, Fields DEF Inside
  <2> QED BY <2>2, <2>3
<1>5. \A i \in 1..Len(stream) : stream[i].of <= object[Queued].cmd
  <2> SUFFICES ASSUME NEW i \in 1..Len(stream) PROVE stream[i].of <= object[Queued].cmd
    OBVIOUS
  <2>1. PICK x \in Outsiders : stream[i].of = object[x].cmd
    BY DEF OpenTransaction, Aligned, Owned
  <2> QED BY <1>4, <2>1
<1>6. \A x \in Outsiders \cap Handles : object[x].cmd # object[Queued].cmd
  BY <1>1, <1>4 DEF Shapes, Distinct
<1> QED BY <1>1, <1>2, <1>3, <1>5, <1>6

\* A command goes to the end of what waits, wherever its answer is put.
LEMMA JoinAnswer ==
    ASSUME RedisppAssumption, RedisppTypeOK, Shapes, NEW s \in Seq(Line),
           NEW W, W \subseteq Objects, Aligned(s, W, object),
           NEW h \in Handles, h \notin W, NEW k \in ReplyKind,
           NEW a \in Answers(k, sent + 1), NEW ob,
           ob[h] = NewReply(k), ob[Queued].cmd = object[Queued].cmd,
           \A x \in Objects \ {h, Queued} : ob[x] = object[x]
    PROVE  Aligned(s \o a, W \cup {h}, ob) /\ s \o a \in Seq(Line)
<1>1. sent \in Nat /\ sent + 1 \in Nat BY Kinds
<1>2. ob[h].kind = k /\ ob[h].cmd = sent + 1 /\ ~ob[h].headerDone
  BY DEF NewReply, Free
<1>3. /\ a \in Seq(Line) /\ Answered(a, ob[h])
      /\ \A i \in 1..Len(a) : a[i].of = sent + 1
  BY <1>1, <1>2, NewAnswered
<1>4. Aligned(a, {h}, ob)
  <2>1. Ordered(a) BY <1>1, <1>3 DEF Ordered
  <2>2. Owned(a, {h}, ob) BY <1>2, <1>3 DEF Owned
  <2> QED BY <1>3, <2>1, <2>2 DEF Aligned
<1>5. \A i \in 1..Len(s) : s[i].of \in Nat /\ s[i].of <= sent BY NoFuture
<1>6. \A x \in W : /\ x \in Objects /\ x # h
                   /\ object[x].cmd \in Nat /\ object[x].cmd <= sent
  BY Fields
<1>7. \A x \in W : ob[x].cmd = object[x].cmd BY <1>6
<1>8. \A x \in W \cap Handles : Same(ob[x], object[x])
  BY <1>6 DEF Same, RedisppAssumption
<1>9. \A i \in 1..Len(s), j \in 1..Len(a) : s[i].of <= a[j].of
  BY <1>1, <1>3, <1>5
<1>10. \A x \in W \cap Handles : \A j \in 1..Len(a) : a[j].of # object[x].cmd
  BY <1>1, <1>3, <1>6
<1>11. \A x \in {h} \cap Handles :
          ~ob[x].headerDone /\ \A i \in 1..Len(s) : s[i].of # ob[x].cmd
  BY <1>1, <1>2, <1>5
<1> QED BY <1>3, <1>4, <1>7, <1>8, <1>9, <1>10, <1>11, JoinLines

LEMMA SendInOrder ==
    ASSUME RedisppAssumption, RedisppTypeOK, Shapes, InOrder, ~bad,
           NEW h \in Handles, NEW k \in ReplyKind, NEW command, Send(h, command, k)
    PROVE  InOrder'
<1>1. /\ call = Idle /\ call' = call /\ transaction' = transaction
      /\ object[h].kind = "Free" /\ Write(Answers(k, sent + 1))
      /\ object' = [object EXCEPT ![h] = NewReply(k), ![Queued] = Counted]
  BY DEF Send, MaySend, Active
<1>2. /\ Queued \in Objects /\ Queued \notin Handles /\ h \in Objects /\ h # Queued
      /\ object \in [Objects -> Object] /\ stream \in Seq(Line) /\ server \in ServerState
      /\ sent \in Nat
      /\ \A x \in Objects : object[x].conn =>
            object[x].place = object[x].cmd /\ object[x].cmd <= sent
      /\ object[Queued] \in Object
      /\ \A x \in Objects : object[x].place \in Nat /\ object[x].cmd \in Nat
  BY Kinds, Fields DEF RedisppTypeOK, RedisppAssumption, Objects
<1>3. /\ object'[h] = NewReply(k) /\ object'[Queued] = Counted
      /\ \A x \in Objects \ {h, Queued} : object'[x] = object[x]
  BY <1>1, <1>2
<1>4. LET q == object[Queued] IN
      /\ Counted.kind = q.kind /\ Counted.cmd = q.cmd /\ Counted.conn = q.conn
      /\ Counted.place = q.place /\ Counted.taken = q.taken
      /\ Counted.headerDone = q.headerDone
      /\ transaction # "none" => Counted.count = q.count + 1
  BY <1>2 DEF Counted, Object
<1>5. /\ NewReply(k).kind = k /\ k # "Free" /\ NewReply(k).cmd = sent + 1
      /\ NewReply(k).place = sent + 1 /\ NewReply(k).conn /\ ~NewReply(k).headerDone
  BY DEF NewReply, Free, ReplyKind, SimpleKind
<1>6. ~object[h].conn /\ ~Work(h) /\ Work(h)'
  <2>1. ObjectShape(h) BY <1>2 DEF Shapes
  <2>2. ~object[h].conn BY <1>1, <2>1 DEF ObjectShape
  <2> QED BY <1>3, <1>5, <2>2 DEF Work
<1>7. \A x \in Objects \ {h} : Work(x)' <=> Work(x)
  <2>1. Work(Queued) <=> object[Queued].conn BY QueuedWaits
  <2>2. Work(Queued)' <=> object[Queued].conn
    <3>1. object[Queued].kind # "Multi" BY <1>2 DEF Shapes, ObjectShape
    <3> QED BY <1>2, <1>3, <1>4, <3>1 DEF Work
  <2>3. \A x \in Objects \ {h, Queued} : Work(x)' <=> Work(x) BY <1>3 DEF Work
  <2> QED BY <2>1, <2>2, <2>3
<1>8. Waiting' = Waiting \cup {h} /\ h \notin Waiting /\ Waiting \subseteq Objects
  BY <1>2, <1>6, <1>7 DEF Waiting
<1>9. ~Ending /\ ~Asking /\ call.status # "mismatch" BY <1>1 DEF Idle, Ending, Asking
<1>10. PICK o \in Outcomes(Answers(k, sent + 1)) :
          stream' = stream \o o.lines /\ server' = o.state
  BY <1>1 DEF Write
<1>11. CASE transaction # "Dirty"
  <2>1. ~Work(Queued) /\ ~Work(Queued)' BY <1>2, <1>7, <1>9, <1>11, QueuedWaits
  <2>2. NoTransaction BY <1>11, <2>1 DEF InOrder
  <2>3. PICK a \in Answers(k, sent + 1) : o = [lines |-> a, state |-> server]
    BY <1>10, <2>2 DEF Outcomes, NoTransaction
  <2>4. stream' = stream \o a /\ server' = server BY <1>10, <2>3
  <2>5. Aligned(stream, Waiting, object) /\ ~server.multi BY <2>2 DEF NoTransaction
  <2>6. Aligned(stream \o a, Waiting \cup {h}, object')
    <3> SUFFICES ASSUME NEW W, W = Waiting PROVE Aligned(stream \o a, W \cup {h}, object')
      OBVIOUS
    <3> QED BY <1>2, <1>3, <1>4, <1>8, <2>5, JoinAnswer
  <2>7. NoTransaction' BY <1>1, <1>8, <1>9, <2>4, <2>5, <2>6 DEF NoTransaction
  <2> QED BY <1>1, <1>11, <2>1, <2>7 DEF InOrder
<1>12. CASE transaction = "Dirty"
  <2>1. OpenTransaction BY <1>12 DEF InOrder
  <2> DEFINE q == object[Queued]
             l(kind) == LineOf(kind, 0, q.cmd, server.size + 1)
  <2>2. /\ Work(Queued) /\ server.multi /\ q.conn
        /\ q.count \in Nat /\ q.cmd \in Nat /\ q.place = q.cmd /\ q.cmd <= sent
    <3>1. Work(Queued) /\ q.conn /\ server.multi /\ q.taken = 0
      BY <2>1, QueuedWaits DEF OpenTransaction
    <3>2. q.taken <= q.count /\ q.count \in Int BY <1>2, <1>9, <3>1, Fields DEF Shapes
    <3> QED BY <1>2, <3>1, <3>2
  <2>3. PICK kind \in {"status", "error"} :
          /\ stream' = stream \o <<l(kind)>>
          /\ server'.multi
          /\ server.failed \/ kind = "error" <=> server'.failed
          /\ kind = "status" => \E a \in Answers(k, sent + 1) :
                /\ server'.size = server.size + 1
                /\ server'.queue = server.queue \o a
    <3>1. CASE /\ o.lines = <<l("error")>>
               /\ o.state = [server EXCEPT !.failed = TRUE]
      <4>1. server'.multi /\ server'.failed
        BY <1>2, <1>10, <2>2, <3>1 DEF ServerState
      <4> QED BY <1>10, <3>1, <4>1
    <3>2. ASSUME NEW a \in Answers(k, sent + 1), o.lines = <<l("status")>>,
                 o.state = [server EXCEPT !.size = @ + 1, !.queue = @ \o a]
          PROVE  /\ stream' = stream \o <<l("status")>> /\ server'.multi
                 /\ (server'.failed = server.failed)
                 /\ server'.size = server.size + 1
                 /\ server'.queue = server.queue \o a
      <4>1. /\ server'.multi /\ (server'.failed = server.failed)
            /\ server'.size = server.size + 1
            /\ server'.queue = server.queue \o a
        <5> DEFINE r == server.queue \o a
                   m == server.size + 1
        <5>1. server' = [server EXCEPT !.size = m, !.queue = r] BY <1>10, <3>2
        <5> HIDE DEF r, m
        <5>2. /\ (server'.multi = server.multi) /\ (server'.failed = server.failed)
              /\ server'.size = m /\ server'.queue = r
          BY <1>2, <5>1 DEF ServerState
        <5> QED BY <2>2, <5>2 DEF r, m
      <4> QED BY <1>10, <3>2, <4>1
    <3>3. \/ /\ o.lines = <<l("error")>>
             /\ o.state = [server EXCEPT !.failed = TRUE]
          \/ \E a \in Answers(k, sent + 1) :
                /\ o.lines = <<l("status")>>
                /\ o.state = [server EXCEPT !.size = @ + 1, !.queue = @ \o a]
      <4> DEFINE R(a) == [lines |-> <<l("status")>>,
                          state |-> [server EXCEPT !.size = @ + 1, !.queue = @ \o a]]
                 e == [lines |-> <<l("error")>>,
                       state |-> [server EXCEPT !.failed = TRUE]]
      <4>1. o \in {R(a) : a \in Answers(k, sent + 1)} \cup {e}
        BY <1>10, <2>2 DEF Outcomes
      <4>2. /\ e.lines = <<l("error")>> /\ e.state = [server EXCEPT !.failed = TRUE]
            /\ \A a : /\ R(a).lines = <<l("status")>>
                      /\ R(a).state = [server EXCEPT !.size = @ + 1, !.queue = @ \o a]
        OBVIOUS
      <4> HIDE DEF R, e, l
      <4>3. o = e \/ \E a \in Answers(k, sent + 1) : o = R(a) BY <4>1
      <4>4. CASE o = e BY ONLY <4>2, <4>4
      <4>5. ASSUME NEW a \in Answers(k, sent + 1), o = R(a)
            PROVE  /\ o.lines = <<l("status")>>
                   /\ o.state = [server EXCEPT !.size = @ + 1, !.queue = @ \o a]
        BY ONLY <4>2, <4>5
      <4> QED BY ONLY <4>3, <4>4, <4>5
    <3> QED BY <3>1, <3>2, <3>3
  <2>4. l(kind) \in Line /\ l(kind).of = q.cmd /\ l(kind).kind = kind
    BY <1>2, <2>2 DEF LineOf, Line, LineKind, ServerState
  <2> DEFINE ln == l(kind)
  <2> HIDE DEF l
  <2>5. /\ StatusesLast(stream', q.cmd, q.count + 1)
        /\ Refused(stream, Len(stream) - q.count, q.count) \/ kind = "error"
             => Refused(stream', Len(stream') - (q.count + 1), q.count + 1)
    BY <1>2, <2>1, <2>2, <2>3, <2>4, AppendStatus DEF OpenTransaction
  <2>6. Insiders' = Insiders \cup {h} /\ h \notin Insiders /\ Insiders \subseteq Objects
    <3>1. Inside(h)' BY <1>2, <1>3, <1>4, <1>5, <2>2 DEF Inside
    <3>2. \A x \in Objects \ {h, Queued} : Inside(x)' <=> Inside(x)
      BY <1>3, <1>4 DEF Inside
    <3> QED BY <1>2, <1>6, <1>7, <3>1, <3>2 DEF Insiders, Objects
  <2>7. Outsiders' = Outsiders
    BY <1>8, <2>6 DEF Outsiders
  <2>8. QueuedAnswers'
    <3>1. CASE server'.failed
      <4>1. Refused(stream', Len(stream') - (q.count + 1), q.count + 1)
        BY <2>1, <2>3, <2>5, <3>1 DEF OpenTransaction, QueuedAnswers
      <4> QED BY <1>3, <1>4, <1>12, <3>1, <4>1 DEF QueuedAnswers
    <3>2. CASE ~server'.failed
      <4>1. kind = "status" /\ ~server.failed BY <2>3, <3>2
      <4>2. PICK a \in Answers(k, sent + 1) : /\ server'.size = server.size + 1
                                              /\ server'.queue = server.queue \o a
        BY <2>3, <4>1
      <4>3. server.size = q.count /\ Aligned(server.queue, Insiders, object)
        BY <2>1, <4>1 DEF OpenTransaction, QueuedAnswers
      <4>4. server.queue \in Seq(Line) BY <1>2 DEF ServerState
      <4>5. Aligned(server.queue \o a, Insiders \cup {h}, object')
        <5> SUFFICES ASSUME NEW W, W = Insiders
                     PROVE  Aligned(server.queue \o a, W \cup {h}, object')
          OBVIOUS
        <5> QED BY <1>3, <1>4, <2>6, <4>3, <4>4, JoinAnswer
      <4> QED BY <1>3, <1>4, <1>12, <2>6, <3>2, <4>2, <4>3, <4>5 DEF QueuedAnswers
    <3> QED BY <3>1, <3>2
  <2>9. \A x \in Insiders' : /\ object'[x].cmd > object'[Queued].cmd
                             /\ ~object'[x].headerDone
    <3>1. object'[h].cmd > object'[Queued].cmd /\ ~object'[h].headerDone
      BY <1>2, <1>3, <1>4, <1>5, <2>2
    <3>2. \A x \in Insiders : x \in Objects \ {h, Queued}
      BY <1>2, <2>6 DEF Insiders
    <3> QED BY <1>3, <1>4, <2>1, <2>6, <3>1, <3>2 DEF OpenTransaction
  <2>10. Aligned(stream', Outsiders', object')
    <3>1. /\ \A i \in 1..Len(stream) : stream[i].of <= q.cmd
          /\ \A x \in Outsiders \cap Handles : object[x].cmd # q.cmd
          /\ Queued \in Outsiders
      BY <2>1, OutsidersBefore
    <3>2. \A x \in Outsiders : x \in Objects /\ x # h
      BY <1>8 DEF Outsiders
    <3>3. <<ln>> \in Seq(Line) /\ Aligned(<<ln>>, {Queued}, object')
      BY <1>3, <1>4, <2>4, OneLine
    <3>4. Len(<<ln>>) = 1 /\ <<ln>>[1] = ln OBVIOUS
    <3>5. \A j \in 1..Len(<<ln>>) : <<ln>>[j].of = q.cmd BY <2>4, <3>4
    <3>6. \A x \in Outsiders : object'[x].cmd = object[x].cmd
      BY <1>3, <1>4, <3>2
    <3>7. \A x \in Outsiders \cap Handles : Same(object'[x], object[x])
      BY <1>2, <1>3, <3>2 DEF Same
    <3>8. {Queued} \cap Handles = {} BY <1>2
    <3>9. Aligned(stream, Outsiders, object) BY <2>1 DEF OpenTransaction
    <3> HIDE DEF ln, q
    <3> SUFFICES ASSUME NEW W, W = Outsiders PROVE Aligned(stream \o <<ln>>, W, object')
      BY <2>3, <2>7 DEF ln
    <3>10. W \cup {Queued} = W BY <3>1
    <3> DEFINE t == <<ln>>
    <3>11. /\ stream \in Seq(Line) /\ t \in Seq(Line)
           /\ Aligned(stream, W, object) /\ Aligned(t, {Queued}, object')
           /\ \A i \in 1..Len(stream), j \in 1..Len(t) : stream[i].of <= t[j].of
           /\ \A x \in W : object'[x].cmd = object[x].cmd
           /\ \A x \in W \cap Handles : Same(object'[x], object[x])
           /\ \A x \in W \cap Handles : \A j \in 1..Len(t) : t[j].of # object[x].cmd
           /\ \A x \in {Queued} \cap Handles :
                 ~object'[x].headerDone /\ \A i \in 1..Len(stream) : stream[i].of # object'[x].cmd
      BY <1>2, <3>1, <3>3, <3>5, <3>6, <3>7, <3>8, <3>9
    <3> HIDE DEF t
    <3>12. Aligned(stream \o t, W \cup {Queued}, object') BY ONLY <3>11, JoinLines
    <3> QED BY <3>10, <3>12 DEF t
  <2>11. ~Asking' BY <1>1, <1>9 DEF Asking
  <2>12. OpenTransaction'
    BY <1>2, <1>3, <1>4, <1>7, <2>1, <2>2, <2>3, <2>5, <2>8, <2>9, <2>10, <2>11,
       <1>12 DEF OpenTransaction
  <2> QED BY <1>1, <1>12, <2>12 DEF InOrder
<1> QED BY <1>11, <1>12

-----------------------------------------------------------------------------
(* Steps that leave the lines alone                                        *)

\* Objects may change places as long as the same answers are waited for.
LEMMA SameLines ==
    ASSUME RedisppAssumption, RedisppTypeOK, Shapes, InOrder, RedisppTypeOK', Shapes',
           UNCHANGED <<stream, server, transaction>>, object'[Queued] = object[Queued],
           transaction # "Dirty" => ~Work(Queued),
           \A x \in Handles : Work(x) =>
              \E y \in Handles : Work(y)' /\ object'[y].cmd = object[x].cmd,
           \A y \in Handles : Work(y)' =>
              \E x \in Handles : Work(x) /\ Same(object'[y], object[x]),
           call'.status # "mismatch",
           Asking' => ~(TooEarly(call.on)')
    PROVE  InOrder'
<1>1. /\ Queued \in Objects /\ Queued \notin Handles /\ Handles \subseteq Objects
      /\ \A x \in Objects : x = Queued \/ x \in Handles
      /\ stream \in Seq(Line) /\ server.queue \in Seq(Line)
  BY Kinds DEF RedisppTypeOK, RedisppAssumption, ServerState
<1>2. Work(Queued)' <=> Work(Queued) BY DEF Work
<1>3. CASE transaction # "Dirty"
  <2>1. ~Work(Queued) /\ ~Work(Queued)' BY <1>2, <1>3
  <2>2. NoTransaction BY <1>3, <2>1 DEF InOrder
  <2>3. Waiting \subseteq Handles /\ Waiting' \subseteq Handles
    BY <1>1, <2>1 DEF Waiting
  <2>4. \A x \in Waiting : \E y \in Waiting' : object'[y].cmd = object[x].cmd
    BY <1>1, <2>3 DEF Waiting
  <2>5. \A y \in Waiting' \cap Handles : \E x \in Waiting \cap Handles :
           Same(object'[y], object[x])
    BY <1>1, <2>3 DEF Waiting
  <2>6. Aligned(stream, Waiting', object')
    <3> SUFFICES ASSUME NEW W, W = Waiting, NEW V, V = Waiting'
                 PROVE  Aligned(stream, V, object')
      OBVIOUS
    <3>1. Aligned(stream, W, object) BY <2>2 DEF NoTransaction
    <3>2. \A x \in W : \E y \in V : object'[y].cmd = object[x].cmd BY <2>4
    <3>3. \A y \in V \cap Handles : \E x \in W \cap Handles : Same(object'[y], object[x])
      BY <2>5
    <3> QED BY ONLY <1>1, <3>1, <3>2, <3>3, KeepLines
  <2>7. NoTransaction' BY <2>2, <2>6 DEF NoTransaction
  <2> QED BY <1>3, <2>1, <2>7 DEF InOrder
<1>4. CASE transaction = "Dirty"
  <2>1. OpenTransaction BY <1>4 DEF InOrder
  <2>2. Work(Queued) /\ Work(Queued)' BY <1>2, <2>1 DEF OpenTransaction
  <2>3. \A x \in Handles : Work(x) => (Inside(x) <=> object[x].cmd > object[Queued].place)
    BY <1>1, Fields DEF Work, Inside
  <2>4. \A y \in Handles :
           Work(y)' => (Inside(y)' <=> object'[y].cmd > object[Queued].place)
    <3> SUFFICES ASSUME NEW y \in Handles, Work(y)'
                 PROVE  Inside(y)' <=> object'[y].cmd > object[Queued].place
      OBVIOUS
    <3>1. ObjectShape(y)' /\ object'[y].conn BY <1>1 DEF Shapes, Work
    <3>2. object'[y].place = object'[y].cmd BY <3>1 DEF ObjectShape
    <3> QED BY <3>2 DEF Inside
  <2>5. \A x \in Insiders : \E y \in Insiders' : object'[y].cmd = object[x].cmd
    BY <2>3, <2>4 DEF Insiders
  <2>6. \A y \in Insiders' : \E x \in Insiders : Same(object'[y], object[x])
    <3> SUFFICES ASSUME NEW y \in Handles, Work(y)', Inside(y)'
                 PROVE  \E x \in Insiders : Same(object'[y], object[x])
      BY DEF Insiders
    <3>1. PICK x \in Handles : Work(x) /\ Same(object'[y], object[x]) OBVIOUS
    <3>2. Inside(x) BY <2>3, <2>4, <3>1 DEF Same
    <3> QED BY <3>1, <3>2 DEF Insiders
  <2>7. Insiders \subseteq Handles /\ Insiders' \subseteq Handles BY DEF Insiders
  <2>8. \A x : x \in Outsiders <=> x = Queued \/ (x \in Handles /\ Work(x) /\ ~Inside(x))
    BY <1>1, <2>2 DEF Outsiders, Waiting, Insiders
  <2>9. \A x : x \in Outsiders' <=>
               x = Queued \/ (x \in Handles /\ Work(x)' /\ ~(Inside(x)'))
    BY <1>1, <2>2 DEF Outsiders, Waiting, Insiders
  <2>10. \A x \in Outsiders : \E y \in Outsiders' : object'[y].cmd = object[x].cmd
    <3> SUFFICES ASSUME NEW x \in Outsiders
                 PROVE  \E y \in Outsiders' : object'[y].cmd = object[x].cmd
      OBVIOUS
    <3>1. CASE x = Queued BY <2>9, <3>1
    <3>2. CASE x # Queued
      <4>1. x \in Handles /\ Work(x) /\ ~Inside(x) BY <2>8, <3>2
      <4>2. PICK y \in Handles : Work(y)' /\ object'[y].cmd = object[x].cmd BY <4>1
      <4>3. ~(Inside(y)') BY <2>3, <2>4, <4>1, <4>2
      <4> QED BY <2>9, <4>2, <4>3
    <3> QED BY <3>1, <3>2
  <2>11. \A y \in Outsiders' \cap Handles : \E x \in Outsiders \cap Handles :
            Same(object'[y], object[x])
    <3> SUFFICES ASSUME NEW y \in Outsiders', y \in Handles
                 PROVE  \E x \in Outsiders \cap Handles : Same(object'[y], object[x])
      OBVIOUS
    <3>1. Work(y)' /\ ~(Inside(y)') BY <1>1, <2>9
    <3>2. PICK x \in Handles : Work(x) /\ Same(object'[y], object[x]) BY <3>1
    <3>3. ~Inside(x) BY <2>3, <2>4, <3>1, <3>2 DEF Same
    <3> QED BY <2>8, <3>2, <3>3
  <2>12. Aligned(stream, Outsiders', object')
    <3> SUFFICES ASSUME NEW W, W = Outsiders, NEW V, V = Outsiders'
                 PROVE  Aligned(stream, V, object')
      OBVIOUS
    <3>1. Aligned(stream, W, object) BY <2>1 DEF OpenTransaction
    <3>2. \A x \in W : \E y \in V : object'[y].cmd = object[x].cmd BY <2>10
    <3>3. \A y \in V \cap Handles : \E x \in W \cap Handles : Same(object'[y], object[x])
      BY <2>11
    <3> QED BY ONLY <1>1, <3>1, <3>2, <3>3, KeepLines
  <2>13. QueuedAnswers'
    <3>1. CASE server.failed BY <2>1, <3>1 DEF OpenTransaction, QueuedAnswers
    <3>2. CASE ~server.failed
      <4>1. server.size = object[Queued].count /\ Aligned(server.queue, Insiders, object)
        BY <2>1, <3>2 DEF OpenTransaction, QueuedAnswers
      <4>2. Aligned(server.queue, Insiders', object')
        <5> SUFFICES ASSUME NEW W, W = Insiders, NEW V, V = Insiders'
                     PROVE  Aligned(server.queue, V, object')
          OBVIOUS
        <5>1. Aligned(server.queue, W, object) BY <4>1
        <5>2. \A x \in W : \E y \in V : object'[y].cmd = object[x].cmd BY <2>5
        <5>3. \A y \in V \cap Handles : \E x \in W \cap Handles :
                 Same(object'[y], object[x])
          BY <2>6, <2>7
        <5> QED BY ONLY <1>1, <5>1, <5>2, <5>3, KeepLines
      <4> QED BY <3>2, <4>1, <4>2 DEF QueuedAnswers
    <3> QED BY <3>1, <3>2
  <2>14. \A y \in Insiders' : object'[y].cmd > object'[Queued].cmd /\ ~object'[y].headerDone
    BY <2>1, <2>6 DEF OpenTransaction, Same
  <2>15. OpenTransaction' BY <2>1, <2>2, <2>12, <2>13, <2>14 DEF OpenTransaction
  <2> QED BY <1>4, <2>15 DEF InOrder
<1> QED BY <1>3, <1>4

LEMMA Blameless ==
    ASSUME NEW condition \in BOOLEAN, NEW reason, reason # "none",
           BlameIf(condition, reason), InStep'
    PROVE  ~condition /\ InStep
BY DEF BlameIf, InStep

LEMMA IdleAsksNothing ==
    ASSUME RedisppTypeOK, Shapes, call.op \notin {"commit", "abort", "end"}
    PROVE  transaction # "Dirty" => ~Work(Queued)
BY QueuedWaits DEF Ending

LEMMA AskInOrder ==
    ASSUME RedisppAssumption, RedisppTypeOK, Shapes, InOrder, RedisppTypeOK', Shapes', InStep',
           NEW h \in Handles, NEW g \in Handles,
           Result(h) \/ NextElement(h) \/ Destroy(h) \/ Assign(h, g)
    PROVE  InOrder'
<1>1. /\ call = Idle /\ UNCHANGED <<stream, object, transaction, server>>
      /\ BlameIf(TooEarly(h), "early")
      /\ call'.on = h /\ call'.status = "reading"
  BY DEF Result, NextElement, Destroy, Assign, Active, Using
<1>2. TooEarly(h) \in BOOLEAN
  <2>1. h \in Objects BY DEF Objects
  <2> QED BY <2>1, Fields DEF TooEarly
<1>3. ~TooEarly(h) BY <1>1, <1>2, Blameless
<1>4. ~(TooEarly(call.on)') BY <1>1, <1>3 DEF TooEarly
<1>5. \A x : Work(x)' <=> Work(x) BY <1>1 DEF Work
<1>6. transaction # "Dirty" => ~Work(Queued) BY <1>1, IdleAsksNothing DEF Idle
<1>7. \A x \in Handles : Same(object'[x], object[x]) BY <1>1 DEF Same
<1> QED BY <1>1, <1>4, <1>5, <1>6, <1>7, SameLines DEF Same

\* The copy waits in place of the other.
LEMMA MovedInOrder ==
    ASSUME RedisppAssumption, RedisppTypeOK, Shapes, InOrder, RedisppTypeOK', Shapes',
           NEW h \in Handles, NEW g \in Handles, h # g, ~Work(h),
           UNCHANGED <<stream, server, transaction>>,
           NEW o, NEW p, object' = [object EXCEPT ![h] = o, ![g] = p],
           Same(o, object[g]), o.conn = object[g].conn, ~p.conn,
           call' = Idle, transaction # "Dirty" => ~Work(Queued)
    PROVE  InOrder'
<1>1. /\ Queued \in Objects /\ Queued \notin Handles /\ Handles \subseteq Objects
      /\ object \in [Objects -> Object]
  BY Kinds DEF RedisppTypeOK, RedisppAssumption
<1>2. /\ object'[h] = o /\ object'[g] = p
      /\ \A x \in Objects : x # h /\ x # g => object'[x] = object[x]
  BY <1>1
<1>3. (Work(h)' <=> Work(g)) /\ ~(Work(g)') BY <1>2 DEF Work, Same
<1>4. \A x \in Objects : x # h /\ x # g => (Work(x)' <=> Work(x)) BY <1>2 DEF Work
<1>5. \A x \in Handles : Work(x) =>
         \E y \in Handles : Work(y)' /\ object'[y].cmd = object[x].cmd
  <2> SUFFICES ASSUME NEW x \in Handles, Work(x)
               PROVE  \E y \in Handles : Work(y)' /\ object'[y].cmd = object[x].cmd
    OBVIOUS
  <2>1. CASE x = g BY <1>2, <1>3, <2>1 DEF Same
  <2>2. CASE x # g BY <1>1, <1>2, <1>4, <2>2
  <2> QED BY <2>1, <2>2
<1>6. \A y \in Handles : Work(y)' => \E x \in Handles : Work(x) /\ Same(object'[y], object[x])
  <2> SUFFICES ASSUME NEW y \in Handles, Work(y)'
               PROVE  \E x \in Handles : Work(x) /\ Same(object'[y], object[x])
    OBVIOUS
  <2>1. CASE y = h BY <1>2, <1>3, <2>1
  <2>2. CASE y # h
    <3>1. Work(y) /\ object'[y] = object[y] BY <1>1, <1>2, <1>3, <1>4, <2>2
    <3> QED BY <3>1 DEF Same
  <2> QED BY <2>1, <2>2
<1>7. call'.status # "mismatch" /\ ~Asking' BY DEF Idle, Asking
<1>8. object'[Queued] = object[Queued] BY <1>1, <1>2
<1> QED BY <1>5, <1>6, <1>7, <1>8, SameLines

LEMMA CopyInOrder ==
    ASSUME RedisppAssumption, RedisppTypeOK, Shapes, InOrder, RedisppTypeOK', Shapes',
           NEW h \in Handles, NEW g \in Handles, Copy(h, g)
    PROVE  InOrder'
<1>1. /\ call = Idle /\ call' = Idle /\ UNCHANGED <<stream, server, transaction>>
      /\ h # g /\ h \in Objects /\ g \in Objects
      /\ object' = [object EXCEPT ![h] = InPlaceOf(object[g]),
                                  ![g] = LeftBehind(object[g])]
  BY DEF Copy, Active, Objects
<1>2. ~Work(h)
  <2>1. ObjectShape(h) BY <1>1 DEF Shapes
  <2> QED BY <2>1 DEF Copy, ObjectShape, Work
<1>3. transaction # "Dirty" => ~Work(Queued) BY <1>1, IdleAsksNothing DEF Idle
<1>4. object[g] \in Object BY <1>1, Kinds
<1>5. Same(InPlaceOf(object[g]), object[g]) /\ (InPlaceOf(object[g]).conn = object[g].conn)
  BY <1>4 DEF Same, InPlaceOf, Object
<1>6. ~LeftBehind(object[g]).conn BY <1>4 DEF LeftBehind, Unlinked, Object
<1> QED BY <1>1, <1>2, <1>3, <1>5, <1>6, MovedInOrder

\* What the program leaves alone stays where it is.
LEMMA StaysInOrder ==
    ASSUME RedisppAssumption, RedisppTypeOK, Shapes, InOrder, RedisppTypeOK', Shapes',
           UNCHANGED <<stream, server, transaction>>,
           NEW h \in Handles, NEW o, object' = object \/ object' = [object EXCEPT ![h] = o],
           \/ ~Work(h) /\ ~o.conn
           \/ Same(o, object[h]) /\ (o.conn = object[h].conn)
           \/ object' = object,
           call' = Idle, transaction # "Dirty" => ~Work(Queued)
    PROVE  InOrder'
<1>1. /\ Queued \in Objects /\ Queued \notin Handles /\ Handles \subseteq Objects
      /\ object \in [Objects -> Object]
  BY Kinds DEF RedisppTypeOK, RedisppAssumption
<1>2. /\ object'[h] = o \/ object' = object
      /\ \A x \in Objects : x # h => object'[x] = object[x]
  BY <1>1
<1>3. \A x \in Handles : /\ Work(x)' <=> Work(x)
                         /\ Work(x) => Same(object'[x], object[x])
  <2> SUFFICES ASSUME NEW x \in Handles
               PROVE  /\ Work(x)' <=> Work(x)
                      /\ Work(x) => Same(object'[x], object[x])
    OBVIOUS
  <2>1. CASE object'[x] = object[x] BY <2>1 DEF Work, Same
  <2>2. CASE x = h /\ object'[h] = o /\ ~Work(h) /\ ~o.conn BY <2>2 DEF Work
  <2>3. CASE x = h /\ object'[h] = o /\ Same(o, object[h]) /\ (o.conn = object[h].conn)
    BY <2>3 DEF Work, Same
  <2> QED BY <1>1, <1>2, <2>1, <2>2, <2>3
<1>4. \A x \in Handles : Work(x) => object'[x].cmd = object[x].cmd BY <1>3 DEF Same
<1>5. call'.status # "mismatch" /\ ~Asking' BY DEF Idle, Asking
<1>6. object'[Queued] = object[Queued] BY <1>1, <1>2
<1> QED BY <1>3, <1>4, <1>5, <1>6, SameLines

LEMMA PendingInOrder ==
    ASSUME RedisppAssumption, RedisppTypeOK, Shapes, InOrder, RedisppTypeOK', Shapes',
           NextPending
    PROVE  InOrder'
<1>1. /\ call.on \in Handles /\ call.on \in Objects /\ call' = Idle
      /\ UNCHANGED <<stream, server, transaction>>
      /\ transaction # "Dirty" => ~Work(Queued)
  <2>1. call.op = "next" BY DEF NextPending
  <2>2. call.on \in Handles BY <2>1 DEF Shapes, CallShape, Asking, Ending, Idle
  <2> QED BY <2>1, <2>2, IdleAsksNothing DEF NextPending, Objects
<1> DEFINE o == object[call.on]
           p == HandOut(OneFewer(o), Head(o.pending))
<1>2. object' = [object EXCEPT ![call.on] = p] BY DEF NextPending
<1>3. o \in Object BY <1>1, Kinds
<1>4. Same(p, o) /\ (p.conn = o.conn) BY <1>3 DEF Same, HandOut, OneFewer, Object
<1> HIDE DEF p
<1> QED BY <1>1, <1>2, <1>4, StaysInOrder

\* Nobody reads: neither does the object in use, if it has something to read.
LEMMA NoReader ==
    ASSUME RedisppTypeOK, Shapes, Readers = {}
    PROVE  /\ Work(call.on) => ~Drains
           /\ transaction # "Dirty" => ~Work(Queued)
<1>1. Work(call.on) => ~Drains
  <2> SUFFICES ASSUME Work(call.on), Drains PROVE FALSE OBVIOUS
  <2>1. Clears /\ Earlier(call.on) # {} BY DEF Readers
  <2>2. First(Earlier(call.on)) = {} BY <2>1 DEF Readers
  <2>3. Earlier(call.on) \subseteq Objects BY DEF Earlier
  <2> QED BY <2>1, <2>2, <2>3, FirstExists
<1>2. transaction # "Dirty" => ~Work(Queued)
  <2> SUFFICES ASSUME transaction # "Dirty", Work(Queued) PROVE FALSE OBVIOUS
  <2>1. Ending /\ object[Queued].conn BY QueuedWaits
  <2>2. Readers = {Queued} BY <2>1, EndingReader
  <2> QED BY <2>2
<1> QED BY <1>1, <1>2

LEMMA ReturnInOrder ==
    ASSUME RedisppAssumption, RedisppTypeOK, Shapes, InOrder, RedisppTypeOK', Shapes',
           call.status # "mismatch", Return
    PROVE  InOrder'
<1>1. /\ call.status = "reading" /\ Readers = {}
      /\ call' = Idle /\ UNCHANGED <<stream, server, transaction>>
  BY DEF Return, Ended, Shapes, CallShape
<1>2. transaction # "Dirty" => ~Work(Queued) BY <1>1, NoReader
<1>3. CASE call.op = "next"
  <2>1. call.on \in Handles BY <1>3 DEF Shapes, CallShape, Asking, Ending, Idle
  <2>2. object' = [object EXCEPT ![call.on] = Unlinked(object[call.on])]
    BY <1>3 DEF Return
  <2>3. Drains BY <1>3 DEF Drains
  <2>4. ~Work(call.on) BY <1>1, <2>3, NoReader
  <2>5. object[call.on] \in Object BY <2>1, Kinds DEF Objects
  <2>6. ~Unlinked(object[call.on]).conn BY <2>5 DEF Unlinked, Object
  <2> QED BY <1>1, <1>2, <2>1, <2>2, <2>4, <2>6, StaysInOrder
<1>4. CASE call.op # "next"
  <2>1. object' = object BY <1>4 DEF Return
  <2>2. \A x : Work(x)' <=> Work(x) BY <2>1 DEF Work
  <2>3. \A x \in Handles : Same(object'[x], object[x]) BY <2>1 DEF Same
  <2>4. call'.status # "mismatch" /\ ~Asking' BY <1>1 DEF Idle, Asking
  <2> QED BY <1>1, <1>2, <2>1, <2>2, <2>3, <2>4, SameLines DEF Same
<1> QED BY <1>3, <1>4

LEMMA DestroyedInOrder ==
    ASSUME RedisppAssumption, RedisppTypeOK, Shapes, InOrder, RedisppTypeOK', Shapes',
           ~bad, InStep', Destroyed
    PROVE  InOrder'
<1>1. /\ call.on \in Handles /\ call.on \in Objects /\ call' = Idle
      /\ UNCHANGED <<stream, server, transaction>>
      /\ object' = [object EXCEPT ![call.on] = Free]
      /\ transaction # "Dirty" => ~Work(Queued)
  <2>1. call.op = "destroy" BY DEF Destroyed
  <2>2. call.on \in Handles BY <2>1 DEF Shapes, CallShape, Asking, Ending, Idle
  <2> QED BY <2>1, <2>2, IdleAsksNothing DEF Destroyed, Objects
<1> DEFINE c == ~bad /\ Work(call.on)
           r == IF object[call.on].kind = "Multi" THEN "dropped" ELSE "swallowed"
<1>2. BlameIf(c, r) /\ r # "none" /\ c \in BOOLEAN BY DEF Destroyed
<1> HIDE DEF c, r
<1>3. ~c BY <1>2, Blameless
<1>4. ~Work(call.on) BY <1>3 DEF c
<1>5. ~Free.conn BY DEF Free
<1> QED BY <1>1, <1>4, <1>5, StaysInOrder

LEMMA AssignedInOrder ==
    ASSUME RedisppAssumption, RedisppTypeOK, Shapes, InOrder, RedisppTypeOK', Shapes',
           ~bad, InStep', Assigned
    PROVE  InOrder'
<1>1. /\ call.on \in Handles /\ call.from \in Handles /\ call.on # call.from
      /\ call.from \in Objects
      /\ call' = Idle /\ UNCHANGED <<stream, server, transaction>>
      /\ transaction # "Dirty" => ~Work(Queued)
  <2>1. call.op = "assign" BY DEF Assigned
  <2>2. /\ call.on \in Handles /\ call.from \in Handles /\ call.on # call.from
    BY <2>1 DEF Shapes, CallShape, Asking, Ending, Idle
  <2> QED BY <2>1, <2>2, IdleAsksNothing DEF Assigned, Objects
<1>2. CASE call.status = "threw"
  <2>1. object' = object BY <1>2 DEF Assigned
  <2> QED BY <1>1, <2>1, StaysInOrder
<1>3. CASE call.status # "threw"
  <2> DEFINE c == ~bad /\ (Work(call.on) \/ object[call.from].pending # <<>>)
             r == IF Work(call.on) THEN "dropped" ELSE "overwritten"
  <2>1. BlameIf(c, r) /\ r # "none" /\ c \in BOOLEAN BY <1>3 DEF Assigned
  <2> HIDE DEF c, r
  <2>2. ~c BY <2>1, Blameless
  <2>3. ~Work(call.on) BY <2>2 DEF c
  <2> DEFINE o == Emptied(InPlaceOf(object[call.from]))
             p == Unlinked(object[call.from])
  <2>4. object' = [object EXCEPT ![call.on] = o, ![call.from] = p]
    BY <1>3 DEF Assigned
  <2>5. object[call.from] \in Object BY <1>1, Kinds
  <2>6. Same(o, object[call.from]) /\ (o.conn = object[call.from].conn)
    BY <2>5 DEF Same, Emptied, InPlaceOf, Object
  <2>7. ~p.conn BY <2>5 DEF Unlinked, Object
  <2> HIDE DEF o, p
  <2> QED BY <1>1, <2>3, <2>4, <2>6, <2>7, MovedInOrder
<1> QED BY <1>2, <1>3

LEMMA TransactionEndsInOrder ==
    ASSUME RedisppAssumption, RedisppTypeOK, Shapes, InOrder,
           EndTransaction \/ TransactionEnded
    PROVE  InOrder'
<1>1. /\ call' = Idle /\ transaction' = "none" /\ UNCHANGED <<stream, server>>
      /\ object' = [object EXCEPT ![Queued] = Free]
  BY DEF EndTransaction, TransactionEnded, Active
<1>2. transaction # "Dirty" /\ ~Work(Queued)
  <2>1. CASE EndTransaction
    <3>1. call = Idle /\ transaction # "Dirty" BY <2>1 DEF EndTransaction, Active
    <3> QED BY <3>1, IdleAsksNothing DEF Idle
  <2>2. CASE TransactionEnded
    <3>1. Ending BY <2>2 DEF TransactionEnded, Ending
    <3>2. transaction # "Dirty" BY <3>1, QueuedWaits
    <3>3. CASE Readers = {} BY <3>2, <3>3, NoReader
    <3>4. CASE call.status = "threw" BY <3>2, <3>4, QueuedWaits
    <3> QED BY <2>2, <3>3, <3>4 DEF TransactionEnded, Ended
  <2> QED BY <2>1, <2>2
<1>3. NoTransaction BY <1>2 DEF InOrder
<1>4. /\ Queued \in Objects /\ Queued \notin Handles /\ object \in [Objects -> Object]
  BY Kinds DEF RedisppTypeOK, RedisppAssumption
<1>5. /\ object'[Queued] = Free
      /\ \A x \in Objects : x # Queued => object'[x] = object[x]
  BY <1>1, <1>4
<1>6. ~Work(Queued)' BY <1>5 DEF Work, Free
<1>7. \A x \in Objects : x # Queued => (Work(x)' <=> Work(x)) BY <1>5 DEF Work
<1>8. Waiting' = Waiting BY <1>2, <1>6, <1>7 DEF Waiting
<1>9. \A x \in Waiting : x \in Objects /\ x # Queued BY <1>2 DEF Waiting
<1>10. \A x \in Waiting : object'[x] = object[x] BY <1>5, <1>9
<1>11. Aligned(stream', Waiting', object')
  BY <1>1, <1>3, <1>8, <1>10 DEF NoTransaction, Aligned, Owned
<1>12. NoTransaction' BY <1>1, <1>3, <1>11 DEF NoTransaction, Idle
<1> QED BY <1>1, <1>6, <1>12 DEF InOrder

LEMMA TypeInOrder ==
    ASSUME RedisppAssumption, RedisppTypeOK, Shapes, InOrder, ~bad, InStep', Type
    PROVE  InOrder'
<1>1. /\ call = Idle /\ UNCHANGED <<object, transaction, call>>
      /\ BlameIf(transaction = "Dirty" \/ \E x \in Objects : Work(x), "type")
  BY DEF Type, MaySend, Active
<1>2. transaction # "Dirty" /\ \A x \in Objects : ~Work(x)
  BY <1>1, Blameless
<1>3. Waiting = {} /\ ~Work(Queued) BY <1>2, Kinds DEF Waiting
<1>4. NoTransaction BY <1>2, <1>3 DEF InOrder
<1>5. stream = <<>>
  <2>1. stream \in Seq(Line) BY DEF RedisppTypeOK
  <2>2. ~(1 \in 1..Len(stream)) BY <1>3, <1>4 DEF NoTransaction, Aligned, Owned
  <2> QED BY <2>1, <2>2, LenProperties, EmptySeq
<1>6. PICK a \in Answers("Void", sent + 1) :
         /\ stream' = Rest("status", stream \o a, bad)
         /\ server' = server
  BY <1>4 DEF Type, Outcomes, NoTransaction
<1>7. PICK l : /\ a = <<l>> /\ l.kind # "bulk"
  <2>1. "Void" \in ReplyKind BY DEF ReplyKind, SimpleKind
  <2>2. a \in Replies("Void", sent + 1) \/ a = <<LineOf("error", 0, sent + 1, 0)>>
    BY DEF Answers
  <2>3. a \in Replies("Void", sent + 1) => a = <<LineOf("status", 0, sent + 1, 0)>>
    BY <2>1, RepliesOfKind
  <2> QED BY <2>2, <2>3 DEF LineOf
<1>8. stream' = <<>>
  <2>1. stream \o a = <<l>> BY <1>5, <1>7
  <2>2. Head(<<l>>) = l /\ Tail(<<l>>) = <<>> /\ <<l>> # <<>> OBVIOUS
  <2> QED BY <1>6, <1>7, <2>1, <2>2 DEF Rest, Jams, Exhausted
<1>9. Waiting' = {} BY <1>1, <1>3 DEF Waiting, Work
<1>10. Len(<<>>) = 0 /\ 1..0 = {} OBVIOUS
<1>11. Aligned(stream', Waiting', object')
  BY <1>8, <1>9, <1>10 DEF Aligned, Ordered, Owned
<1>12. NoTransaction' BY <1>1, <1>4, <1>6, <1>11 DEF NoTransaction
<1>13. ~Work(Queued)' BY <1>1, <1>3 DEF Work
<1> QED BY <1>1, <1>2, <1>12, <1>13 DEF InOrder

LEMMA BeginInOrder ==
    ASSUME RedisppAssumption, RedisppTypeOK, Shapes, InOrder, ~bad, Begin
    PROVE  InOrder'
<1> DEFINE l == LineOf("status", 0, sent + 1, 0)
           q == NewReply("Queued")
           t == <<l>>
<1>1. /\ call = Idle /\ call' = call /\ transaction = "none" /\ transaction' = "Dirty"
      /\ object' = [object EXCEPT ![Queued] = q]
      /\ stream' = Append(stream, l)
      /\ server' = [NotInMulti EXCEPT !.multi = TRUE]
  BY DEF Begin, MaySend, Active, InTransaction
<1>2. /\ Queued \in Objects /\ Queued \notin Handles /\ object \in [Objects -> Object]
      /\ sent \in Nat /\ stream \in Seq(Line) /\ Len(stream) \in Nat
      /\ Handles \subseteq Objects
  BY Kinds, LenProperties DEF RedisppTypeOK, RedisppAssumption
<1>3. l \in Line /\ l.of = sent + 1 /\ l.kind = "status"
  BY <1>2 DEF LineOf, Line, LineKind
<1>4. /\ q.kind = "Queued" /\ q.cmd = sent + 1 /\ q.place = sent + 1 /\ q.conn
      /\ q.count = 0 /\ q.taken = 0 /\ ~q.headerDone
  BY DEF NewReply, Free
<1>5. /\ server'.multi /\ ~server'.failed /\ server'.size = 0 /\ server'.queue = <<>>
  BY <1>1 DEF NotInMulti
<1> HIDE DEF l, q
<1>6. /\ object'[Queued] = q
      /\ \A x \in Objects : x # Queued => object'[x] = object[x]
  BY <1>1, <1>2
<1>7. ~Work(Queued)
  <2>1. object[Queued].kind = "Free" BY <1>1 DEF Shapes
  <2>2. ~object[Queued].conn BY <1>2, <2>1 DEF Shapes, ObjectShape
  <2> QED BY <2>2 DEF Work
<1>8. NoTransaction BY <1>1, <1>7 DEF InOrder
<1>9. Work(Queued)' BY <1>4, <1>6 DEF Work
<1>10. \A x \in Objects : x # Queued => (Work(x)' <=> Work(x)) BY <1>6 DEF Work
<1>11. Waiting' = Waiting \cup {Queued} BY <1>2, <1>9, <1>10 DEF Waiting
<1>12. Insiders' = {}
  <2> SUFFICES ASSUME NEW x \in Handles, Work(x)', Inside(x)' PROVE FALSE
    BY DEF Insiders
  <2>1. x \in Objects /\ x # Queued BY <1>2
  <2>2. object[x].conn /\ object'[x] = object[x] BY <1>6, <1>10, <2>1 DEF Work
  <2>3. object[x].place \in Nat /\ object[x].place <= sent BY <2>1, <2>2, Fields
  <2>4. object[x].place > sent + 1 BY <1>4, <1>6, <2>2 DEF Inside
  <2> QED BY <1>2, <2>3, <2>4
<1>13. Outsiders' = Waiting \cup {Queued} BY <1>11, <1>12 DEF Outsiders
<1>14. Aligned(stream, Waiting, object) BY <1>8 DEF NoTransaction
<1>15. \A i \in 1..Len(stream) : stream[i].of \in Nat /\ stream[i].of <= sent
  <2> SUFFICES ASSUME NEW W, W = Waiting
               PROVE  \A i \in 1..Len(stream) : stream[i].of \in Nat /\ stream[i].of <= sent
    OBVIOUS
  <2>1. W \subseteq Objects /\ Aligned(stream, W, object) BY <1>14 DEF Waiting
  <2> QED BY ONLY <1>2, <2>1, NoFuture, RedisppTypeOK, Shapes
<1>16. /\ t \in Seq(Line) /\ Len(t) = 1 /\ t[1] = l
       /\ stream' = stream \o t
       /\ Aligned(t, {Queued}, object')
  <2>1. Aligned(t, {Queued}, object') BY <1>3, <1>4, <1>6, OneLine
  <2> QED BY <1>1, <1>2, <1>3, <2>1, AppendIsConcat
<1>17. /\ Len(stream') = Len(stream) + 1
       /\ \A i \in 1..Len(stream) : stream'[i] = stream[i]
       /\ stream'[Len(stream) + 1] = l
  BY <1>1, <1>2, <1>3
<1>18. Aligned(stream \o t, Waiting \cup {Queued}, object')
  <2>1. \A x \in Waiting : x \in Objects /\ x # Queued BY <1>7 DEF Waiting
  <2>2. \A x \in Waiting : object'[x] = object[x] BY <1>6, <2>1
  <2>3. \A j \in 1..Len(t) : t[j].of = sent + 1 BY <1>3, <1>16
  <2>4. \A x \in Waiting : object[x].cmd \in Nat /\ object[x].cmd <= sent
    BY <2>1, Fields
  <2> HIDE DEF t
  <2> SUFFICES ASSUME NEW W, W = Waiting
               PROVE  Aligned(stream \o t, W \cup {Queued}, object')
    OBVIOUS
  <2>5. /\ stream \in Seq(Line) /\ t \in Seq(Line)
        /\ Aligned(stream, W, object) /\ Aligned(t, {Queued}, object')
        /\ \A i \in 1..Len(stream), j \in 1..Len(t) : stream[i].of <= t[j].of
        /\ \A x \in W : object'[x].cmd = object[x].cmd
        /\ \A x \in W \cap Handles : Same(object'[x], object[x])
        /\ \A x \in W \cap Handles : \A j \in 1..Len(t) : t[j].of # object[x].cmd
        /\ \A x \in {Queued} \cap Handles :
              ~object'[x].headerDone /\ \A i \in 1..Len(stream) : stream[i].of # object'[x].cmd
    BY <1>2, <1>14, <1>15, <1>16, <2>2, <2>3, <2>4 DEF Same
  <2> QED BY ONLY <2>5, JoinLines
<1>19. StatusesLast(stream', sent + 1, 0)
  <2>1. Len(stream') - 0 = Len(stream) + 1 /\ Len(stream) + 1 >= 1 BY <1>2, <1>17
  <2>2. ASSUME NEW i \in 1..Len(stream')
        PROVE  stream'[i].of = sent + 1 <=>
                  Len(stream) + 1 <= i /\ i <= (Len(stream) + 1) + 0
    <3>1. CASE i <= Len(stream)
      <4>1. i \in 1..Len(stream) BY <1>2, <3>1
      <4> QED BY <1>2, <1>15, <1>17, <4>1
    <3>2. CASE i = Len(stream) + 1 BY <1>2, <1>3, <1>17, <3>2
    <3> QED BY <1>2, <1>17, <3>1, <3>2
  <2>3. Block(stream', sent + 1, Len(stream) + 1, 0) BY <1>2, <1>17, <2>2 DEF Block
  <2>4. Statuses(stream', Len(stream) + 1, 0)
    <3>1. \A i \in (Len(stream) + 1)..((Len(stream) + 1) + 0) : i = Len(stream) + 1
      BY <1>2
    <3> QED BY <1>3, <1>17, <3>1 DEF Statuses
  <2> QED BY <2>1, <2>3, <2>4 DEF StatusesLast
<1>20. QueuedAnswers'
  <2>1. Len(<<>>) = 0 /\ 1..0 = {} OBVIOUS
  <2>2. Aligned(<<>>, {}, object') BY <2>1 DEF Aligned, Ordered, Owned
  <2> QED BY <1>4, <1>5, <1>6, <1>12, <2>2 DEF QueuedAnswers
<1>21. ~Asking' BY <1>1 DEF Asking, Idle
<1>22. OpenTransaction'
  BY <1>4, <1>5, <1>6, <1>9, <1>12, <1>13, <1>16, <1>18, <1>19, <1>20, <1>21
     DEF OpenTransaction
<1> QED BY <1>1, <1>22 DEF InOrder

AllStatuses(s, c, n) ==
    /\ Len(s) = n + 1
    /\ \A i \in 1..(n + 1) : s[i].of = c /\ s[i].kind \in {"status", "error"}

\* When the transaction is about to end there is nothing but its statuses.
LEMMA OnlyStatuses ==
    ASSUME RedisppAssumption, RedisppTypeOK, Shapes, OpenTransaction, ~Ending,
           Outsiders = {Queued}
    PROVE  LET q == object[Queued] IN
           /\ q.count \in Nat /\ q.taken = 0 /\ q.cmd \in Nat
           /\ AllStatuses(stream, q.cmd, q.count)
           /\ server.failed => Refused(stream, 1, q.count)
<1> DEFINE q == object[Queued]
<1>1. /\ q.taken = 0 /\ q.conn /\ q.count \in Int /\ q.cmd \in Nat
      /\ stream \in Seq(Line) /\ Len(stream) \in Nat
  BY Kinds, Fields, LenProperties, QueuedWaits DEF OpenTransaction, RedisppTypeOK
<1>2. q.count \in Nat
  <2>1. q.taken <= q.count BY <1>1 DEF Shapes
  <2> QED BY <1>1, <2>1
<1> DEFINE n == q.count
           p == Len(stream) - n
<1>3. p >= 1 /\ Block(stream, q.cmd, p, n) /\ Statuses(stream, p, n)
  BY DEF OpenTransaction, StatusesLast
<1>4. \A i \in 1..Len(stream) : stream[i].of = q.cmd
  BY DEF OpenTransaction, Aligned, Owned
<1> HIDE DEF q
<1>5. p = 1
  <2>1. 1 \in 1..Len(stream) BY <1>1, <1>2, <1>3
  <2>2. p <= 1 BY <1>3, <1>4, <2>1 DEF Block
  <2> QED BY <1>1, <1>2, <1>3, <2>2
<1>6. Len(stream) = n + 1 BY <1>1, <1>2, <1>5
<1>7. \A i \in 1..(n + 1) : stream[i].kind \in {"status", "error"}
  <2>1. 1 + n = n + 1 BY <1>2
  <2> QED BY <1>3, <1>5, <2>1 DEF Statuses
<1>8. server.failed => Refused(stream, 1, n)
  BY <1>5 DEF OpenTransaction, QueuedAnswers, q
<1>9. AllStatuses(stream, q.cmd, n) BY <1>4, <1>6, <1>7 DEF AllStatuses
<1> QED BY <1>1, <1>2, <1>8, <1>9 DEF q

\* The verdict follows the statuses.
LEMMA VerdictLast ==
    ASSUME NEW s \in Seq(Line), NEW c, NEW n \in Nat, AllStatuses(s, c, n),
           NEW w \in Seq(Line), Len(w) = 1, w[1].of = c
    PROVE  LET u == s \o w IN
           /\ u \in Seq(Line) /\ Len(u) = n + 2
           /\ \A i \in 1..(n + 2) : u[i].of = c
           /\ Statuses(u, 1, n) /\ u[n + 2] = w[1]
           /\ Refused(s, 1, n) => Refused(u, 1, n)
<1> DEFINE u == s \o w
<1>0. /\ Len(s) = n + 1
      /\ \A i \in 1..(n + 1) : s[i].of = c /\ s[i].kind \in {"status", "error"}
  BY DEF AllStatuses
<1>1. /\ u \in Seq(Line) /\ Len(u) = n + 2
      /\ \A i \in 1..(n + 1) : u[i] = s[i]
      /\ u[n + 2] = w[1]
  <2>1. /\ u \in Seq(Line) /\ Len(u) = Len(s) + Len(w)
        /\ \A i \in 1..(Len(s) + Len(w)) : u[i] = IF i <= Len(s) THEN s[i] ELSE w[i - Len(s)]
    BY ConcatProperties
  <2> HIDE DEF u
  <2>2. /\ u \in Seq(Line) /\ Len(u) = (n + 1) + 1
        /\ \A i \in 1..((n + 1) + 1) : u[i] = IF i <= n + 1 THEN s[i] ELSE w[i - (n + 1)]
    BY <1>0, <2>1
  <2>3. n + 2 \in 1..((n + 1) + 1) /\ ~(n + 2 <= n + 1) /\ (n + 2) - (n + 1) = 1
    OBVIOUS
  <2>4. u[n + 2] = w[1] BY <2>2, <2>3
  <2>5. \A i \in 1..(n + 1) : i \in 1..((n + 1) + 1) /\ i <= n + 1 OBVIOUS
  <2> QED BY <2>2, <2>4, <2>5
<1> HIDE DEF u
<1>2. \A i \in 1..(n + 2) : u[i].of = c BY <1>0, <1>1
<1>3. \A i \in 1..(1 + n) : i \in 1..(n + 1) /\ u[i] = s[i] BY <1>0, <1>1
<1>4. Statuses(u, 1, n) BY <1>0, <1>3 DEF Statuses
<1>5. Refused(s, 1, n) => Refused(u, 1, n) BY <1>3 DEF Refused
<1> QED BY <1>1, <1>2, <1>4, <1>5 DEF u

LEMMA AbortInOrder ==
    ASSUME RedisppAssumption, RedisppTypeOK, Shapes, InOrder, ~bad, InStep',
           NEW op \in {"abort", "end"}, Abort(op)
    PROVE  InOrder'
<1> DEFINE q == object[Queued]
           n == q.count
           l == LineOf("status", 0, q.cmd, server.size + 1)
<1>1. /\ call = Idle /\ transaction = "Dirty" /\ transaction' = "Aborted"
      /\ call' = Using(op, Queued, NoObject) /\ object' = object
      /\ stream' = Append(stream, l) /\ server' = NotInMulti
      /\ BlameIf(\E x \in Handles : Work(x), "aborted")
  BY DEF Abort, SendDiscard, Active
<1>2. \A x \in Handles : ~Work(x) BY <1>1, Blameless
<1>3. OpenTransaction /\ ~Ending BY <1>1 DEF InOrder, Idle, Ending
<1>4. /\ Queued \in Objects /\ stream \in Seq(Line) /\ server \in ServerState
      /\ \A x \in Objects : x = Queued \/ x \in Handles
      /\ Queued \notin Handles
  BY Kinds DEF RedisppTypeOK, RedisppAssumption
<1>5. Waiting = {Queued} /\ Outsiders = {Queued}
  BY <1>2, <1>3, <1>4 DEF Waiting, Outsiders, Insiders, OpenTransaction
<1>6. /\ n \in Nat /\ q.taken = 0 /\ q.cmd \in Nat
      /\ AllStatuses(stream, q.cmd, n)
  BY <1>3, <1>5, OnlyStatuses
<1>7. l \in Line /\ l.of = q.cmd /\ l.kind = "status"
  BY <1>4, <1>6 DEF LineOf, Line, LineKind, ServerState
<1> HIDE DEF l, q, n
<1> DEFINE w == <<l>>
           u == stream \o w
<1>8. stream' = u BY <1>1, <1>4, <1>7, AppendIsConcat
<1>14. w \in Seq(Line) /\ Len(w) = 1 /\ w[1] = l BY <1>7
<1> HIDE DEF w
<1>9. /\ u \in Seq(Line) /\ Len(u) = n + 2
      /\ \A i \in 1..(n + 2) : u[i].of = q.cmd
      /\ Statuses(u, 1, n) /\ u[n + 2] = l
  BY <1>4, <1>6, <1>7, <1>14, VerdictLast
<1> HIDE DEF u
<1>10. Block(u, q.cmd, 1, n + 1) BY <1>6, <1>9 DEF Block
<1>11. Aligned(u, {Queued}, object)
  <2>1. Ordered(u) BY <1>6, <1>9 DEF Ordered
  <2>2. Owned(u, {Queued}, object) BY <1>9 DEF Owned, q
  <2> QED BY <1>4, <2>1, <2>2 DEF Aligned
<1>12. Waiting' = {Queued} /\ Work(Queued)' /\ Ending' /\ call'.status = "reading"
  BY <1>1, <1>3, <1>5 DEF Waiting, Work, OpenTransaction, Ending, Using
<1>13. EndingTransaction'
  <2>1. n - 0 = n /\ n >= -1 BY <1>6
  <2>2. ~server'.multi BY <1>1 DEF NotInMulti
  <2>3. object'[Queued].count - object'[Queued].taken = n BY <1>1, <1>6, <2>1 DEF q, n
  <2>5. Aligned(stream', Waiting', object') BY <1>1, <1>8, <1>11, <1>12
  <2>6. Block(stream', object'[Queued].cmd, 1, n + 1) /\ Statuses(stream', 1, n)
    BY <1>1, <1>8, <1>9, <1>10 DEF q
  <2>7. Verdict(stream[object[Queued].count - object[Queued].taken + 2])'
    BY <1>1, <1>7, <1>8, <1>9, <2>3 DEF Verdict
  <2> QED BY <1>1, <1>12, <2>1, <2>2, <2>3, <2>5, <2>6, <2>7 DEF EndingTransaction
<1> QED BY <1>1, <1>12, <1>13 DEF InOrder

LEMMA CommitInOrder ==
    ASSUME RedisppAssumption, RedisppTypeOK, Shapes, InOrder, ~bad, InStep', Commit
    PROVE  InOrder'
<1> DEFINE q == object[Queued]
           n == q.count
           error == LineOf("error", 0, q.cmd, server.size + 1)
           multi == LineOf("multi", server.size, q.cmd, server.size + 1)
<1>1. /\ call = Idle /\ transaction = "Dirty" /\ transaction' = "Committed"
      /\ call' = Using("commit", Queued, NoObject) /\ object' = object
      /\ stream' = stream \o ExecAnswer /\ server' = NotInMulti
      /\ BlameIf(OutOfOrder, "order")
  BY DEF Commit, SendExec, Active
<1>2. \A x \in Handles : Work(x) => Inside(x)
  <2>1. OutOfOrder \in BOOLEAN BY DEF OutOfOrder
  <2>2. ~OutOfOrder BY <1>1, <2>1, Blameless
  <2> QED BY <2>2 DEF OutOfOrder
<1>3. OpenTransaction /\ ~Ending BY <1>1 DEF InOrder, Idle, Ending
<1>4. /\ Queued \in Objects /\ stream \in Seq(Line) /\ server \in ServerState
      /\ server.queue \in Seq(Line)
      /\ \A x \in Objects : x = Queued \/ x \in Handles
      /\ Queued \notin Handles /\ Handles \subseteq Objects
  BY Kinds DEF RedisppTypeOK, RedisppAssumption, ServerState
<1>5. Outsiders = {Queued} /\ Waiting = Insiders \cup {Queued}
  BY <1>2, <1>3, <1>4 DEF Waiting, Outsiders, Insiders, OpenTransaction
<1>6. /\ n \in Nat /\ q.taken = 0 /\ q.cmd \in Nat
      /\ AllStatuses(stream, q.cmd, n)
      /\ server.failed => Refused(stream, 1, n)
  BY <1>3, <1>5, OnlyStatuses
<1>7. /\ error \in Line /\ error.of = q.cmd
      /\ multi \in Line /\ multi.of = q.cmd /\ multi.kind = "multi" /\ multi.n = server.size
  BY <1>4, <1>6 DEF LineOf, Line, LineKind, ServerState
<1>8. \/ server.failed /\ ExecAnswer = <<error>>
      \/ ~server.failed /\ ExecAnswer = <<multi>> \o server.queue
  BY DEF ExecAnswer
<1> HIDE DEF error, multi, q, n
<1>9. Waiting' = Waiting /\ Work(Queued)' /\ Ending' /\ call'.status = "reading"
  BY <1>1, <1>3 DEF Waiting, Work, OpenTransaction, Ending, Using
<1>10. /\ object'[Queued].count - object'[Queued].taken = n /\ n >= -1
       /\ object'[Queued].count = n /\ object'[Queued].cmd = q.cmd
       /\ ~server'.multi
  BY <1>1, <1>6 DEF q, n, NotInMulti
<1>11. CASE server.failed
  <2> DEFINE w == <<error>>
             u == stream \o w
  <2>1. /\ stream' = u
        /\ w \in Seq(Line) /\ Len(w) = 1 /\ w[1] = error
    <3>1. stream' = u BY <1>1, <1>8, <1>11
    <3>2. w \in Seq(Line) /\ Len(w) = 1 /\ w[1] = error BY <1>7
    <3> QED BY <3>1, <3>2
  <2> HIDE DEF w
  <2>2. /\ Len(u) = n + 2
        /\ \A i \in 1..(n + 2) : u[i].of = q.cmd
        /\ Statuses(u, 1, n)
        /\ Refused(stream, 1, n) => Refused(u, 1, n)
    <3>1. /\ stream \in Seq(Line) /\ n \in Nat /\ AllStatuses(stream, q.cmd, n)
          /\ w \in Seq(Line) /\ Len(w) = 1 /\ w[1].of = q.cmd
      BY <1>4, <1>6, <1>7, <2>1
    <3> QED BY ONLY <3>1, VerdictLast
  <2> HIDE DEF u
  <2>3. Block(u, q.cmd, 1, n + 1) BY <1>6, <2>2 DEF Block
  <2>4. Refused(u, 1, n) BY <1>6, <1>11, <2>2
  <2>5. EndingTransaction'
    BY <1>1, <1>9, <1>10, <2>1, <2>2, <2>3, <2>4 DEF EndingTransaction
  <2> QED BY <1>1, <1>9, <2>5 DEF InOrder
<1>12. CASE ~server.failed
  <2> DEFINE w == <<multi>>
             s == stream \o w
             t == server.queue
             u == s \o t
  <2>1. w \in Seq(Line) /\ Len(w) = 1 /\ w[1] = multi BY <1>7
  <2> HIDE DEF w
  <2>2. stream' = u
    <3>1. stream' = stream \o (w \o server.queue) BY <1>1, <1>8, <1>12 DEF w
    <3>2. (stream \o w) \o server.queue = stream \o (w \o server.queue)
      <4> SUFFICES ASSUME NEW a \in Seq(Line), NEW b \in Seq(Line), NEW c \in Seq(Line)
                   PROVE  (a \o b) \o c = a \o (b \o c)
        BY <1>4, <2>1
      <4> QED BY ConcatAssociative
    <3> QED BY ONLY <3>1, <3>2
  <2>3. /\ s \in Seq(Line) /\ Len(s) = n + 2
        /\ \A i \in 1..(n + 2) : s[i].of = q.cmd
        /\ Statuses(s, 1, n) /\ s[n + 2] = multi
    BY <1>4, <1>6, <1>7, <2>1, VerdictLast
  <2>4. server.size = n /\ Aligned(t, Insiders, object)
    BY <1>3, <1>12 DEF OpenTransaction, QueuedAnswers, q, n
  <2>5. \A x \in Insiders : object[x].cmd > q.cmd /\ ~object[x].headerDone /\ x \in Objects
    BY <1>3, <1>4 DEF OpenTransaction, q, Insiders
  <2> HIDE DEF s, t, u
  <2>6. \A j \in 1..Len(t) : t[j].of > q.cmd
    <3> SUFFICES ASSUME NEW j \in 1..Len(t) PROVE t[j].of > q.cmd OBVIOUS
    <3>1. PICK x \in Insiders : t[j].of = object[x].cmd BY <2>4 DEF Aligned, Owned
    <3> QED BY <2>5, <3>1
  <2>7. t \in Seq(Line) BY <1>4 DEF t
  <2>8. \A j \in 1..Len(t) : t[j].of \in Nat /\ t[j].of # q.cmd /\ q.cmd <= t[j].of
    BY <1>6, <2>6, <2>7, LineFields
  <2>9. Aligned(s, {Queued}, object)
    <3>1. Ordered(s) BY <1>6, <2>3 DEF Ordered
    <3>2. Owned(s, {Queued}, object) BY <2>3 DEF Owned, q
    <3> QED BY <1>4, <3>1, <3>2 DEF Aligned
  <2>10. Aligned(u, {Queued} \cup Insiders, object)
    <3> SUFFICES ASSUME NEW V, V = Insiders PROVE Aligned(u, {Queued} \cup V, object)
      OBVIOUS
    <3>1. \A x \in V : object[x].cmd \in Nat /\ object[x].cmd > q.cmd
      BY <2>5, Fields
    <3>2. /\ Aligned(t, V, object)
          /\ \A i \in 1..Len(s), j \in 1..Len(t) : s[i].of <= t[j].of
          /\ \A x \in {Queued} : object[x].cmd = object[x].cmd
          /\ \A x \in {Queued} \cap Handles : Same(object[x], object[x])
          /\ \A x \in {Queued} \cap Handles : \A j \in 1..Len(t) : t[j].of # object[x].cmd
          /\ \A x \in V \cap Handles :
                ~object[x].headerDone /\ \A i \in 1..Len(s) : s[i].of # object[x].cmd
      <4>1. \A i \in 1..Len(s) : s[i].of = q.cmd BY <2>3
      <4>2. \A i \in 1..Len(s), j \in 1..Len(t) : s[i].of <= t[j].of BY <2>8, <4>1
      <4>3. {Queued} \cap Handles = {} BY <1>4
      <4>4. \A x \in V : ~object[x].headerDone BY <2>5
      <4>5. \A x \in V : \A i \in 1..Len(s) : s[i].of # object[x].cmd
        BY <1>6, <3>1, <4>1
      <4>6. Aligned(t, V, object) BY <2>4
      <4> QED BY ONLY <4>2, <4>3, <4>4, <4>5, <4>6
    <3> QED BY ONLY <2>3, <2>7, <2>9, <3>2, JoinLines DEF u
  <2>11. /\ Len(u) \in Nat /\ n + 2 <= Len(u)
         /\ \A i \in 1..(n + 2) : u[i] = s[i]
         /\ \A i \in 1..Len(u) : i > n + 2 => u[i].of # q.cmd
    <3>1. /\ Len(t) \in Nat /\ Len(u) = (n + 2) + Len(t)
          /\ \A i \in 1..((n + 2) + Len(t)) :
                u[i] = IF i <= n + 2 THEN s[i] ELSE t[i - (n + 2)]
      <4>1. /\ Len(t) \in Nat /\ Len(u) = Len(s) + Len(t)
            /\ \A i \in 1..(Len(s) + Len(t)) :
                  u[i] = IF i <= Len(s) THEN s[i] ELSE t[i - Len(s)]
        BY ONLY <2>3, <2>7, ConcatProperties, LenProperties DEF u
      <4> QED BY ONLY <2>3, <4>1
    <3>2. ASSUME NEW i \in 1..Len(u), i > n + 2 PROVE u[i].of # q.cmd
      <4>1. i - (n + 2) \in 1..Len(t) /\ u[i] = t[i - (n + 2)] BY <1>6, <3>1, <3>2
      <4> QED BY <2>8, <4>1
    <3>3. \A i \in 1..(n + 2) : i \in 1..((n + 2) + Len(t)) /\ i <= n + 2
      BY <1>6, <3>1
    <3>4. \A i \in 1..(n + 2) : u[i] = s[i] BY ONLY <3>1, <3>3
    <3>5. Len(u) \in Nat /\ n + 2 <= Len(u) BY ONLY <1>6, <3>1
    <3> QED BY ONLY <3>2, <3>4, <3>5
  <2>12. Block(u, q.cmd, 1, n + 1)
    <3>1. ASSUME NEW i \in 1..Len(u)
          PROVE  u[i].of = q.cmd <=> 1 <= i /\ i <= 1 + (n + 1)
      <4>1. CASE i <= n + 2
        <5>1. i \in 1..(n + 2) BY <1>6, <4>1
        <5>2. u[i].of = q.cmd BY <2>3, <2>11, <5>1
        <5> QED BY <1>6, <5>1, <5>2
      <4>2. CASE i > n + 2
        <5>1. u[i].of # q.cmd BY <2>11, <4>2
        <5> QED BY <1>6, <4>2, <5>1
      <4> QED BY <1>6, <4>1, <4>2
    <3>2. 1 + (n + 1) <= Len(u) BY <1>6, <2>11
    <3> QED BY <3>1, <3>2 DEF Block
  <2>13. Statuses(u, 1, n) /\ u[n + 2] = multi
    <3>1. \A i \in 1..(1 + n) : i \in 1..(n + 2) BY <1>6
    <3>2. n + 2 \in 1..(n + 2) BY <1>6
    <3> QED BY <2>3, <2>11, <3>1, <3>2 DEF Statuses
  <2>14. Verdict(stream[object[Queued].count - object[Queued].taken + 2])'
    BY <1>1, <1>7, <1>10, <2>2, <2>4, <2>13 DEF Verdict
  <2>15. Aligned(stream', Waiting', object')
    <3>1. {Queued} \cup Insiders = Waiting BY <1>5
    <3> QED BY <1>1, <1>9, <2>2, <2>10, <3>1
  <2>16. EndingTransaction'
    BY <1>1, <1>9, <1>10, <2>2, <2>12, <2>13, <2>14, <2>15 DEF EndingTransaction
  <2> QED BY <1>1, <1>9, <2>16 DEF InOrder
<1> QED BY <1>11, <1>12

-----------------------------------------------------------------------------
(* What the program gets                                                   *)

LEMMA OwnOperators ==
    ASSUME NEW o \in Object, Own(o)
    PROVE  /\ Own(Unlinked(o)) /\ Own(InPlaceOf(o)) /\ Own(OneLess(o)) /\ Own(Emptied(o))
           /\ Own(LeaveAtEnd(o)) /\ Own(LeftBehind(o))
           /\ \A b \in BOOLEAN : Own([o EXCEPT !.conn = b])
<1>1. Len(<<>>) = 0 /\ 1..0 = {} OBVIOUS
<1>2. Unlinked(o) \in Object BY UnlinkedIsObject
<1>3. Own(Unlinked(o)) BY DEF Own, Unlinked, Object
<1>4. Own(InPlaceOf(o)) BY DEF Own, InPlaceOf, Object
<1>5. Own(OneLess(o)) BY DEF Own, OneLess, Object
<1>6. Own(Emptied(o)) BY <1>1 DEF Own, Emptied, Object
<1>7. Own(LeaveAtEnd(o)) BY <1>3 DEF LeaveAtEnd
<1>8. Own(LeftBehind(o)) BY <1>1, <1>2, <1>3 DEF Own, LeftBehind, Object
<1>9. \A b \in BOOLEAN : Own([o EXCEPT !.conn = b]) BY DEF Own, Object
<1> QED BY <1>3, <1>4, <1>5, <1>6, <1>7, <1>8, <1>9

LEMMA OwnLine ==
    ASSUME NEW o \in Object, Own(o), NEW line \in Line, line.of = o.cmd
    PROVE  /\ Own(HandOut(o, line)) /\ Own(PutAside(o, line))
           /\ Own([o EXCEPT !.value = line])
<1>1. Own(HandOut(o, line)) BY DEF Own, HandOut, Object
<1>2. Own([o EXCEPT !.value = line]) BY DEF Own, Object
<1>3. Own(PutAside(o, line))
  <2> DEFINE p == PutAside(o, line)
             s == o.pending
             t == Append(s, line)
  <2>1. s \in Seq(Line) BY DEF Object
  <2>2. p.value = o.value /\ p.cmd = o.cmd /\ p.pending = t
    BY DEF PutAside, Object
  <2> HIDE DEF p
  <2>3. /\ Len(s) \in Nat /\ Len(t) = Len(s) + 1
        /\ \A i \in 1..Len(s) : t[i] = s[i]
        /\ t[Len(s) + 1] = line
    BY <2>1
  <2>4. ASSUME NEW i \in 1..Len(t) PROVE t[i].of = o.cmd
    <3>1. CASE i \in 1..Len(s) BY <2>3, <3>1 DEF Own
    <3>2. CASE i = Len(s) + 1 BY <2>3, <3>2
    <3> QED BY <2>3, <3>1, <3>2
  <2> HIDE DEF t
  <2>5. Own(p) BY <2>2, <2>4 DEF Own
  <2> QED BY <2>5 DEF p
<1> QED BY <1>1, <1>2, <1>3

LEMMA OwnPending ==
    ASSUME NEW o \in Object, Own(o), o.pending # <<>>
    PROVE  Own(HandOut(OneFewer(o), Head(o.pending)))
<1> DEFINE s == o.pending
           t == Tail(s)
           l == Head(s)
<1>1. s \in Seq(Line) /\ s # <<>> BY DEF Object
<1>2. /\ Len(s) \in Nat /\ Len(s) > 0 /\ Len(t) = Len(s) - 1
      /\ \A i \in 1..Len(t) : t[i] = s[i + 1]
      /\ l = s[1] /\ l \in Line /\ t \in Seq(Line)
  BY <1>1, HeadTailProperties, EmptySeq, HeadIsFirst
<1>3. OneFewer(o) \in Object /\ OneFewer(o).cmd = o.cmd
  <2>1. OneFewer(o).cmd = o.cmd BY DEF OneFewer, Object
  <2> QED BY <1>2, <2>1, PendingIsObject
<1>4. \A i \in 1..Len(s) : s[i].of = o.cmd BY DEF Own
<1>5. Own(OneFewer(o))
  <2>1. OneFewer(o).pending = t /\ OneFewer(o).value = o.value BY DEF OneFewer, Object
  <2> HIDE DEF t
  <2>2. \A i \in 1..Len(t) : i + 1 \in 1..Len(s) /\ t[i] = s[i + 1] BY <1>2
  <2>3. \A i \in 1..Len(t) : t[i].of = o.cmd BY <1>4, <2>2
  <2> QED BY <1>3, <2>1, <2>3 DEF Own
<1>6. l.of = OneFewer(o).cmd
  <2>1. 1 \in 1..Len(s) BY <1>2
  <2> QED BY <1>2, <1>3, <1>4, <2>1
<1> QED BY <1>2, <1>3, <1>5, <1>6, OwnLine

\* What a reader accepts is part of its own answer.
LEMMA ReceivesOwn ==
    ASSUME RedisppAssumption, RedisppTypeOK, Shapes, ~bad => InOrder,
           NEW x \in Handles, Now(x), NEW reader, Accepted(reader)
    PROVE  Received \in Line /\ Received.of = object[x].cmd
<1>1. stream \in Seq(Line) BY DEF RedisppTypeOK
<1>2. ~bad /\ stream # <<>> BY <1>1, AcceptedIsLine
<1>3. Received \in Line /\ Received.of = Head(stream).of BY <1>1, ReceivedIsLine
<1>4. stream[1].of = object[x].cmd BY <1>2, ReaderOwnsHead
<1> QED BY <1>1, <1>2, <1>3, <1>4, HeadIsFirst

LEMMA OneOwn ==
    ASSUME RedisppTypeOK, OwnValues, NEW x \in Objects, NEW o,
           object' = object \/ object' = [object EXCEPT ![x] = o],
           x \in Handles => Own(o)
    PROVE  OwnValues'
<1>1. object \in [Objects -> Object] BY DEF RedisppTypeOK
<1>2. \A y \in Objects : object'[y] = object[y] \/ (y = x /\ object'[y] = o) BY <1>1
<1>3. ASSUME NEW y \in Handles PROVE Own(object'[y])
  <2>1. y \in Objects BY DEF Objects
  <2> QED BY <1>2, <2>1 DEF OwnValues
<1> QED BY <1>3 DEF OwnValues

LEMMA TwoOwn ==
    ASSUME RedisppTypeOK, OwnValues, NEW x \in Objects, NEW o, NEW y \in Objects, NEW p,
           object' = [object EXCEPT ![x] = o, ![y] = p],
           x \in Handles => Own(o), y \in Handles => Own(p)
    PROVE  OwnValues'
<1>1. object \in [Objects -> Object] BY DEF RedisppTypeOK
<1>2. \A z \in Objects : \/ object'[z] = object[z]
                         \/ z = x /\ object'[z] = o
                         \/ z = y /\ object'[z] = p
  BY <1>1
<1>3. ASSUME NEW z \in Handles PROVE Own(object'[z])
  <2>1. z \in Objects BY DEF Objects
  <2> QED BY <1>2, <2>1 DEF OwnValues
<1> QED BY <1>3 DEF OwnValues

LEMMA ValuesAreKept ==
    ASSUME RedisppAssumption, RedisppTypeOK, Shapes, OwnValues, ~bad => InOrder,
           ClientStep
    PROVE  OwnValues'
<1>1. /\ Queued \in Objects /\ Queued \notin Handles /\ Handles \subseteq Objects
      /\ \A x \in Objects : x = Queued \/ x \in Handles
      /\ \A x \in Objects : object[x] \in Object
      /\ object \in [Objects -> Object]
  BY Kinds DEF RedisppTypeOK, RedisppAssumption
<1>2. \A x \in Handles : Own(object[x]) BY DEF OwnValues
<1>3. Own(Free)
  <2>1. Len(<<>>) = 0 /\ 1..0 = {} OBVIOUS
  <2> QED BY <2>1 DEF Own, Free
<1>4. \A k : Own(NewReply(k))
  <2>1. Len(<<>>) = 0 /\ 1..0 = {} OBVIOUS
  <2> QED BY <2>1 DEF Own, NewReply, Free
<1>5. object' = object => OwnValues' BY DEF OwnValues
<1>6. \A o : object' = [object EXCEPT ![Queued] = o] => OwnValues' BY <1>1, OneOwn
<1>10. ASSUME NEW h \in Handles, NEW k \in ReplyKind, NEW command, Send(h, command, k)
       PROVE  OwnValues'
  <2>1. object' = [object EXCEPT ![h] = NewReply(k), ![Queued] = Counted]
    BY <1>10 DEF Send
  <2>2. h \in Objects BY <1>1
  <2> QED BY <1>1, <1>4, <2>1, <2>2, TwoOwn
<1>11. ASSUME NEW h \in Handles, NEW g \in Handles, Copy(h, g) PROVE OwnValues'
  <2>1. object' = [object EXCEPT ![h] = InPlaceOf(object[g]), ![g] = LeftBehind(object[g])]
    BY <1>11 DEF Copy
  <2>2. /\ h \in Objects /\ g \in Objects
        /\ Own(InPlaceOf(object[g])) /\ Own(LeftBehind(object[g]))
    BY <1>1, <1>2, OwnOperators
  <2> QED BY <2>1, <2>2, TwoOwn
<1>12. CASE \/ Begin \/ BeginNested \/ ReadStatuses \/ ReadVerdict
            \/ EndTransaction \/ TransactionEnded
  <2>1. \E o : object' = [object EXCEPT ![Queued] = o]
    <3>1. CASE Begin \/ BeginNested \/ EndTransaction \/ TransactionEnded
      BY <3>1 DEF Begin, BeginNested, EndTransaction, TransactionEnded
    <3>2. CASE ReadStatuses \/ ReadVerdict
      BY <1>1, <3>2 DEF ReadStatuses, ReadVerdict
    <3> QED BY <1>12, <3>1, <3>2
  <2> QED BY <1>6, <2>1
<1>13. ASSUME NEW x \in Objects, ReadSimple(x) PROVE OwnValues'
  <2>1. Now(x) /\ object[x].kind \in SimpleKind BY <1>13 DEF ReadSimple
  <2>2. x \in Handles
    <3>1. object[Queued].kind \notin SimpleKind
      BY <1>1 DEF Shapes, ObjectShape, SimpleKind
    <3> QED BY <1>1, <2>1, <3>1
  <2> DEFINE reader == LineReader(object[x].kind)
  <2>3. \/ /\ Accepted(reader)
           /\ object' = [object EXCEPT ![x] = [Unlinked(object[x]) EXCEPT !.value = Received]]
        \/ object' = [object EXCEPT ![x] = [object[x] EXCEPT !.conn = FALSE]]
    BY <1>1, <1>13 DEF ReadSimple
  <2> HIDE DEF reader
  <2>4. CASE object' = [object EXCEPT ![x] = [object[x] EXCEPT !.conn = FALSE]]
    <3>1. Own([object[x] EXCEPT !.conn = FALSE]) BY <1>1, <1>2, <2>2, OwnOperators
    <3> QED BY <2>4, <3>1, OneOwn
  <2>5. CASE /\ Accepted(reader)
             /\ object' = [object EXCEPT ![x] = [Unlinked(object[x]) EXCEPT !.value = Received]]
    <3>1. Received \in Line /\ Received.of = object[x].cmd
      BY <2>1, <2>2, <2>5, ReceivesOwn
    <3>2. /\ Own(Unlinked(object[x])) /\ Unlinked(object[x]) \in Object
          /\ Unlinked(object[x]).cmd = object[x].cmd
      <4>1. Unlinked(object[x]).cmd = object[x].cmd BY <1>1 DEF Unlinked, Object
      <4> QED BY <1>1, <1>2, <2>2, <4>1, OwnOperators, UnlinkedIsObject
    <3> DEFINE u == Unlinked(object[x])
               l == Received
    <3> HIDE DEF u, l
    <3>3. Own([u EXCEPT !.value = l])
      <4>1. u \in Object /\ Own(u) /\ l \in Line /\ l.of = u.cmd BY <3>1, <3>2 DEF u, l
      <4> QED BY ONLY <4>1, OwnLine
    <3>4. object' = [object EXCEPT ![x] = [u EXCEPT !.value = l]] BY <2>5 DEF u, l
    <3> QED BY <3>3, <3>4, OneOwn
  <2> QED BY <2>3, <2>4, <2>5
<1>14. ASSUME NEW x \in Objects, ReadHeader(x) PROVE OwnValues'
  <2>1. x \in Handles
    <3>1. object[Queued].kind # "Multi" BY <1>1 DEF Shapes, ObjectShape
    <3> QED BY <1>1, <1>14, <3>1 DEF ReadHeader
  <2> DEFINE a == Announced
             o == [object[x] EXCEPT !.headerDone = TRUE, !.count = a, !.total = a]
  <2>2. object' = [object EXCEPT ![x] = Unlinked(o)] \/ object' = [object EXCEPT ![x] = o]
    BY <1>14 DEF ReadHeader
  <2> HIDE DEF a
  <2>3. o.value = object[x].value /\ o.pending = object[x].pending /\ o.cmd = object[x].cmd
    BY <1>1 DEF Object
  <2>4. /\ Unlinked(o).value = object[x].value /\ Unlinked(o).pending = object[x].pending
        /\ Unlinked(o).cmd = object[x].cmd
    BY <1>1 DEF Unlinked, Object
  <2> DEFINE u == Unlinked(o)
  <2>5. Own(o) /\ Own(u)
    <3> HIDE DEF o
    <3>1. u.value = object[x].value /\ u.pending = object[x].pending /\ u.cmd = object[x].cmd
      BY <2>4
    <3> HIDE DEF u
    <3> QED BY <1>2, <2>1, <2>3, <3>1 DEF Own
  <2> HIDE DEF o
  <2> QED BY <2>2, <2>5, OneOwn
<1>15. ASSUME NEW x \in Objects, ReadElement(x) \/ DrainElement(x) \/ ReadAhead(x)
       PROVE  OwnValues'
  <2>1. x \in Handles /\ Now(x)
    <3>1. object[Queued].kind # "Multi" BY <1>1 DEF Shapes, ObjectShape
    <3> QED BY <1>1, <1>15, <3>1 DEF ReadElement, DrainElement, ReadAhead
  <2> DEFINE o == OneLess(object[x])
  <2>2. o \in Object /\ Own(o) /\ o.cmd = object[x].cmd
    <3>1. o.cmd = object[x].cmd BY <1>1 DEF OneLess, Object
    <3> QED BY <1>1, <1>2, <2>1, <3>1, OwnOperators, UnlinkedIsObject
  <2>3. \/ object' = [object EXCEPT ![x] = o]
        \/ object' = [object EXCEPT ![x] = LeaveAtEnd(o)]
        \/ object' = [object EXCEPT ![x] = Emptied(o)]
        \/ Accepted("bulk") /\ object' = [object EXCEPT ![x] = HandOut(o, Received)]
        \/ Accepted("bulk") /\ object' = [object EXCEPT ![x] = LeaveAtEnd(PutAside(o, Received))]
    BY <1>1, <1>15 DEF ReadElement, DrainElement, ReadAhead
  <2> HIDE DEF o
  <2>4. Own(LeaveAtEnd(o)) /\ Own(Emptied(o)) BY <2>2, OwnOperators
  <2>5. ASSUME Accepted("bulk")
        PROVE  Own(HandOut(o, Received)) /\ Own(LeaveAtEnd(PutAside(o, Received)))
    <3>1. Received \in Line /\ Received.of = o.cmd BY <2>1, <2>2, <2>5, ReceivesOwn
    <3>2. Own(HandOut(o, Received)) /\ Own(PutAside(o, Received))
      BY <2>2, <3>1, OwnLine
    <3>3. PutAside(o, Received) \in Object BY <2>2, <3>1, PendingIsObject
    <3> QED BY <3>2, <3>3, OwnOperators
  <2> QED BY <2>2, <2>3, <2>4, <2>5, OneOwn
<1>16. CASE NextPending
  <2>1. call.on \in Handles /\ call.on \in Objects
    BY <1>1, <1>16 DEF NextPending, Shapes, CallShape, Asking, Ending, Idle
  <2> DEFINE o == object[call.on]
  <2>2. /\ o.pending # <<>>
        /\ object' = [object EXCEPT ![call.on] = HandOut(OneFewer(o), Head(o.pending))]
    BY <1>16 DEF NextPending
  <2>3. o \in Object /\ Own(o) BY <1>1, <1>2, <2>1
  <2> HIDE DEF o
  <2>4. Own(HandOut(OneFewer(o), Head(o.pending))) BY <2>2, <2>3, OwnPending
  <2> QED BY <2>1, <2>2, <2>4, OneOwn
<1>17. CASE Return
  <2>1. CASE object' = object BY <1>5, <2>1
  <2>2. CASE call.op = "next" /\ object' = [object EXCEPT ![call.on] = Unlinked(object[call.on])]
    <3>1. call.on \in Handles /\ call.on \in Objects
      BY <1>1, <2>2 DEF Shapes, CallShape, Asking, Ending, Idle
    <3>2. Own(Unlinked(object[call.on])) BY <1>1, <1>2, <3>1, OwnOperators
    <3> QED BY <2>2, <3>1, <3>2, OneOwn
  <2> QED BY <1>17, <2>1, <2>2 DEF Return
<1>18. CASE Destroyed
  <2>1. call.on \in Handles /\ call.on \in Objects
    BY <1>1, <1>18 DEF Destroyed, Shapes, CallShape, Asking, Ending, Idle
  <2>2. object' = [object EXCEPT ![call.on] = Free] BY <1>18 DEF Destroyed
  <2> QED BY <1>3, <2>1, <2>2, OneOwn
<1>19. CASE Assigned
  <2>1. /\ call.on \in Handles /\ call.from \in Handles
        /\ call.on \in Objects /\ call.from \in Objects
    BY <1>1, <1>19 DEF Assigned, Shapes, CallShape, Asking, Ending, Idle
  <2>2. CASE object' = object BY <1>5, <2>2
  <2>3. CASE object' = [object EXCEPT ![call.on] = Emptied(InPlaceOf(object[call.from])),
                                      ![call.from] = Unlinked(object[call.from])]
    <3>1. /\ Own(InPlaceOf(object[call.from])) /\ Own(Unlinked(object[call.from]))
          /\ InPlaceOf(object[call.from]) \in Object
      BY <1>1, <1>2, <2>1, OwnOperators, UnlinkedIsObject
    <3>2. Own(Emptied(InPlaceOf(object[call.from]))) BY <3>1, OwnOperators
    <3> QED BY <2>1, <2>3, <3>1, <3>2, TwoOwn
  <2> QED BY <1>19, <2>2, <2>3 DEF Assigned
<1>20. ASSUME NEW h \in Handles, NEW g \in Handles,
              Result(h) \/ NextElement(h) \/ Destroy(h) \/ Assign(h, g)
       PROVE  OwnValues'
  BY <1>5, <1>20 DEF Result, NextElement, Destroy, Assign
<1>21. CASE \/ Type \/ (\E c \in BareCommands : Bare(c)) \/ Commit
            \/ Abort("abort") \/ Abort("end") \/ Close
  BY <1>5, <1>21 DEF Type, Bare, Commit, Abort, Close
<1> QED
  BY <1>10, <1>11, <1>12, <1>13, <1>14, <1>15, <1>16, <1>17, <1>18, <1>19, <1>20, <1>21
     DEF ClientStep, RedisppNext, Reading

\* A commit with the right number of results reports no other one.
LEMMA NoMismatch ==
    ASSUME RedisppAssumption, RedisppTypeOK, Shapes, ~bad => InOrder,
           call.status # "mismatch", ClientStep
    PROVE  call'.status # "mismatch"
<1>1. call \in CallState BY DEF RedisppTypeOK, CallState
<1>2. Throw => call'.status # "mismatch" BY <1>1 DEF Throw, Idle, CallState
<1>3. \A x : Over(x) => call'.status # "mismatch" BY DEF Over, Idle
<1>4. CASE ReadVerdict
  <2> DEFINE reader == IF transaction = "Committed" THEN "int" ELSE "status"
  <2>1. CASE ~Accepted(reader) BY <1>2, <1>4, <2>1 DEF ReadVerdict
  <2>2. CASE Accepted(reader)
    <3>1. ~bad /\ stream # <<>> BY <2>2, AcceptedIsLine DEF RedisppTypeOK
    <3>2. ~Jams(reader, stream, bad) /\ reader # "bulk"
      BY <2>2, <3>1 DEF Accepted, Accepts, Wanted, Jams, Exhausted
    <3>3. ReadLine(reader) BY <1>4 DEF ReadVerdict
    <3> HIDE DEF reader
    <3>4. ~bad' BY <3>2, <3>3 DEF ReadLine
    <3> QED BY <1>4, <3>1, <3>4, VerdictInOrder
  <2> QED BY <2>1, <2>2
<1>5. call' = call => call'.status # "mismatch" OBVIOUS
<1>6. call' = Idle => call'.status # "mismatch" BY DEF Idle
<1>7. \A op, h, g : call' = Using(op, h, g) => call'.status # "mismatch" BY DEF Using
<1>8. ASSUME NEW x \in Objects,
             \/ ReadSimple(x) \/ ReadHeader(x) \/ ReadElement(x) \/ DrainElement(x)
             \/ ReadAhead(x)
      PROVE  call'.status # "mismatch"
  BY <1>2, <1>3, <1>5, <1>8 DEF ReadSimple, ReadHeader, ReadElement, DrainElement, ReadAhead
<1>9. CASE ReadStatuses BY <1>2, <1>5, <1>9 DEF ReadStatuses
<1>10. CASE NextPending \/ Return \/ Destroyed \/ Assigned \/ TransactionEnded \/ EndTransaction
  BY <1>5, <1>6, <1>10
     DEF NextPending, Return, Destroyed, Assigned, TransactionEnded, EndTransaction
<1>11. ASSUME NEW h \in Handles, NEW g \in Handles,
              \/ Result(h) \/ NextElement(h) \/ Destroy(h) \/ Assign(h, g) \/ Copy(h, g)
              \/ \E k \in ReplyKind : \E command : Send(h, command, k)
       PROVE  call'.status # "mismatch"
  BY <1>5, <1>7, <1>11 DEF Result, NextElement, Destroy, Assign, Copy, Send
<1>12. CASE \/ Type \/ (\E c \in BareCommands : Bare(c)) \/ Commit \/ Abort("abort")
            \/ Abort("end") \/ Close \/ Begin \/ BeginNested
  BY <1>5, <1>7, <1>12 DEF Type, Bare, Commit, Abort, Close, Begin, BeginNested
<1> QED BY <1>4, <1>8, <1>9, <1>10, <1>11, <1>12 DEF ClientStep, RedisppNext, Reading

-----------------------------------------------------------------------------
(* The steps together                                                      *)

\* Nothing puts the replies back into step, and a fail state is never cleared.
LEMMA OnlyInStep ==
    ASSUME ClientStep, InStep'
    PROVE  InStep
<1>1. UNCHANGED culprit => InStep BY DEF InStep
<1>2. \A c, r : BlameIf(c, r) => InStep BY DEF BlameIf, InStep
<1>3. ASSUME NEW h \in Handles, NEW g \in Handles,
             \/ Result(h) \/ NextElement(h) \/ Destroy(h) \/ Assign(h, g) \/ Copy(h, g)
             \/ \E k \in ReplyKind : \E command : Send(h, command, k)
      PROVE  InStep
  BY <1>1, <1>2, <1>3 DEF Result, NextElement, Destroy, Assign, Copy, Send
<1>4. ASSUME NEW x \in Objects,
             \/ ReadSimple(x) \/ ReadHeader(x) \/ ReadElement(x) \/ DrainElement(x)
             \/ ReadAhead(x)
      PROVE  InStep
  BY <1>1, <1>4 DEF ReadSimple, ReadHeader, ReadElement, DrainElement, ReadAhead
<1>5. CASE \/ ReadStatuses \/ ReadVerdict \/ NextPending \/ Return \/ Destroyed
           \/ Assigned \/ TransactionEnded
  BY <1>1, <1>2, <1>5
     DEF ReadStatuses, ReadVerdict, NextPending, Return, Destroyed, Assigned, TransactionEnded
<1>6. CASE \/ Type \/ (\E c \in BareCommands : Bare(c)) \/ Commit \/ Abort("abort")
           \/ Abort("end") \/ Close \/ Begin \/ BeginNested \/ EndTransaction
  BY <1>1, <1>2, <1>6
     DEF Type, Bare, Commit, Abort, Close, Begin, BeginNested, EndTransaction
<1> QED BY <1>3, <1>4, <1>5, <1>6 DEF ClientStep, RedisppNext, Reading

LEMMA FailedStays ==
    ASSUME ClientStep, bad
    PROVE  bad'
<1>1. UNCHANGED bad => bad' OBVIOUS
<1>2. \A reader : ReadLine(reader) => bad' BY DEF ReadLine, Jams, Exhausted
<1>3. ASSUME NEW h \in Handles, NEW g \in Handles,
             \/ Result(h) \/ NextElement(h) \/ Destroy(h) \/ Assign(h, g) \/ Copy(h, g)
             \/ \E k \in ReplyKind : \E command : Send(h, command, k)
      PROVE  bad'
  BY <1>1, <1>3 DEF Result, NextElement, Destroy, Assign, Copy, Send
<1>4. ASSUME NEW x \in Objects,
             \/ ReadSimple(x) \/ ReadHeader(x) \/ ReadElement(x) \/ DrainElement(x)
             \/ ReadAhead(x)
      PROVE  bad'
  BY <1>2, <1>4 DEF ReadSimple, ReadHeader, ReadElement, DrainElement, ReadAhead
<1>5. CASE ReadStatuses \/ ReadVerdict BY <1>2, <1>5 DEF ReadStatuses, ReadVerdict
<1>6. CASE Type BY <1>6 DEF Type, Jams, Exhausted
<1>7. CASE \/ NextPending \/ Return \/ Destroyed \/ Assigned \/ TransactionEnded
           \/ (\E c \in BareCommands : Bare(c)) \/ Commit \/ Abort("abort")
           \/ Abort("end") \/ Close \/ Begin \/ BeginNested \/ EndTransaction
  BY <1>1, <1>7
     DEF NextPending, Return, Destroyed, Assigned, TransactionEnded,
         Bare, Commit, Abort, Close, Begin, BeginNested, EndTransaction
<1> QED BY <1>3, <1>4, <1>5, <1>6, <1>7 DEF ClientStep, RedisppNext, Reading

\* No step that leaves the replies in step disturbs the order of the lines.
LEMMA OrderIsKept ==
    ASSUME RedisppAssumption, RedisppTypeOK, Shapes, InOrder, ~bad, ~bad',
           RedisppTypeOK', Shapes', call.status # "mismatch", ClientStep, InStep'
    PROVE  InOrder'
<1>1. ASSUME NEW h \in Handles, NEW k \in ReplyKind, NEW command, Send(h, command, k)
      PROVE  InOrder'
  BY <1>1, SendInOrder
<1>2. CASE Type BY <1>2, TypeInOrder
<1>3. ASSUME NEW command, Bare(command) PROVE InOrder'
  <2>1. BlameIf(TRUE, "bare") BY <1>3 DEF Bare
  <2> QED BY <2>1, Blameless
<1>4. CASE BeginNested
  <2>1. BlameIf(TRUE, "nested") BY <1>4 DEF BeginNested
  <2> QED BY <2>1, Blameless
<1>5. ASSUME NEW h \in Handles, NEW g \in Handles,
             Result(h) \/ NextElement(h) \/ Destroy(h) \/ Assign(h, g)
      PROVE  InOrder'
  BY <1>5, AskInOrder
<1>6. ASSUME NEW h \in Handles, NEW g \in Handles, Copy(h, g) PROVE InOrder'
  BY <1>6, CopyInOrder
<1>7. CASE Begin BY <1>7, BeginInOrder
<1>8. CASE Commit BY <1>8, CommitInOrder
<1>9. CASE Abort("abort") \/ Abort("end") BY <1>9, AbortInOrder
<1>10. CASE EndTransaction \/ TransactionEnded BY <1>10, TransactionEndsInOrder
<1>11. ASSUME NEW x \in Objects, ReadSimple(x) PROVE InOrder' BY <1>11, SimpleInOrder
<1>12. ASSUME NEW x \in Objects, ReadHeader(x) PROVE InOrder' BY <1>12, HeaderInOrder
<1>13. ASSUME NEW x \in Objects, ReadElement(x) \/ DrainElement(x) \/ ReadAhead(x)
       PROVE  InOrder'
  BY <1>13, ElementInOrder
<1>14. CASE ReadStatuses BY <1>14, StatusInOrder
<1>15. CASE ReadVerdict BY <1>15, VerdictInOrder
<1>16. CASE NextPending BY <1>16, PendingInOrder
<1>17. CASE Return BY <1>17, ReturnInOrder
<1>18. CASE Destroyed BY <1>18, DestroyedInOrder
<1>19. CASE Assigned BY <1>19, AssignedInOrder
<1>20. CASE Close BY <1>20 DEF Close
<1> QED
  BY <1>1, <1>2, <1>3, <1>4, <1>5, <1>6, <1>7, <1>8, <1>9, <1>10, <1>11, <1>12, <1>13,
     <1>14, <1>15, <1>16, <1>17, <1>18, <1>19, <1>20 DEF ClientStep, RedisppNext, Reading

\* At first there is no line, nobody waits, and nothing was handed out.
LEMMA InvInit ==
    ASSUME RedisppAssumption, RedisppInit
    PROVE  RedisppInv
<1>1. RedisppTypeOK /\ Shapes BY InitialShapes
<1>2. /\ stream = <<>> /\ Len(stream) = 0 /\ call.status # "mismatch"
      /\ transaction = "none" /\ ~server.multi /\ Handles \subseteq Objects
      /\ \A x \in Objects : object[x] = Free
  BY DEF RedisppInit, Idle, NotInMulti, Objects
<1>3. ~Free.conn /\ Free.value = NoLine /\ Len(Free.pending) = 0 BY DEF Free
<1>4. Waiting = {} /\ ~Work(Queued)
  BY <1>2, <1>3 DEF Waiting, Work, Objects
<1>5. Aligned(stream, Waiting, object) BY <1>2, <1>4 DEF Aligned, Ordered, Owned
<1>6. OwnValues
  <2>1. 1..0 = {} OBVIOUS
  <2> QED BY <1>2, <1>3, <2>1 DEF OwnValues, Own
<1> QED BY <1>1, <1>2, <1>4, <1>5, <1>6 DEF RedisppInv, InOrder, NoTransaction

LEMMA InvUnchanged ==
    ASSUME RedisppInv, UNCHANGED vars
    PROVE  RedisppInv'
BY DEF vars, RedisppInv, RedisppTypeOK, Shapes, CallShape, ObjectShape, Distinct, Asking,
       Ending, Plain, InStep, OwnValues, InOrder, OpenTransaction, EndingTransaction,
       NoTransaction, QueuedAnswers, Verdict, Waiting, Outsiders, Insiders, Work, Inside,
       TooEarly

LEMMA InvStep ==
    ASSUME RedisppAssumption, RedisppInv, [ClientStep]_vars
    PROVE  RedisppInv'
<1>1. CASE UNCHANGED vars BY <1>1, InvUnchanged
<1>2. CASE ClientStep
  <2>1. RedisppTypeOK /\ Shapes BY DEF RedisppInv
  <2>2. RedisppTypeOK' /\ Shapes' BY <2>1, TypesAreKept, ShapesAreKept DEF Shapes
  <2>3. ASSUME InStep' PROVE OwnValues' /\ call'.status # "mismatch"
    <3>1. /\ OwnValues /\ call.status # "mismatch"
          /\ ~bad => InOrder
      BY <1>2, <2>3, OnlyInStep DEF RedisppInv
    <3> QED BY <1>2, <2>1, <3>1, ValuesAreKept, NoMismatch
  <2>4. ASSUME InStep', ~bad' PROVE InOrder'
    <3>1. ~bad BY <1>2, <2>4, FailedStays
    <3>2. InOrder /\ call.status # "mismatch" BY <1>2, <2>4, <3>1, OnlyInStep DEF RedisppInv
    <3> QED BY <1>2, <2>1, <2>2, <2>4, <3>1, <3>2, OrderIsKept
  <2> QED BY <2>2, <2>3, <2>4 DEF RedisppInv
<1> QED BY <1>1, <1>2

\* The invariant, for every program.
THEOREM ReplyOrder ==
    ASSUME RedisppAssumption PROVE RedisppSpec => []RedisppInv
<1>1. RedisppInit => RedisppInv BY InvInit
<1>2. RedisppInv /\ [RedisppNext]_vars => RedisppInv' BY InvStep DEF ClientStep
<1> QED BY <1>1, <1>2, PTL DEF RedisppSpec

\* As long as nothing has put the replies out of step, every result and every
\* element that a program gets is the answer to the command whose reply object
\* it asked (BaseReply::clearPendingResults, readResult of the reply classes).
THEOREM RepliesAreRight ==
    ASSUME RedisppAssumption PROVE RedisppSpec => []RightReply
<1>1. RedisppInv => RightReply BY DEF RedisppInv, RightReply, OwnValues, Own
<1> QED BY <1>1, ReplyOrder, PTL

\* As long as nothing has put the replies out of step, commit() and abort() find
\* exactly the lines they have counted at the head of the stream, and as many
\* results of EXEC (QueuedReply::readResult).
THEOREM CommitsMatch ==
    ASSUME RedisppAssumption PROVE RedisppSpec => []CommitsInStep
<1>1. RedisppInv => CommitsInStep
  <2> SUFFICES ASSUME RedisppInv, InStep, ~bad, Now(Queued)
               PROVE  LET q == object[Queued]
                          left == q.count + 2 - q.taken
                      IN  /\ left \in 1..Len(stream)
                          /\ \A i \in 1..Len(stream) : stream[i].of = q.cmd <=> i <= left
                          /\ transaction = "Committed" =>
                               \/ stream[left].kind = "multi" /\ stream[left].n = q.count
                               \/ \E i \in 1..(left - 1) : stream[i].kind = "error"
    BY DEF RedisppInv, CommitsInStep
  <2>1. RedisppTypeOK /\ Shapes /\ InOrder BY DEF RedisppInv
  <2>2. EndingTransaction BY <2>1, QueuedReads
  <2> DEFINE q == object[Queued]
             n == q.count - q.taken
  <2>3. q.count \in Int /\ q.taken \in Nat /\ Len(stream) \in Nat
    BY <2>1, Fields, LenProperties DEF Objects, RedisppTypeOK
  <2>4. /\ n >= -1 /\ Block(stream, q.cmd, 1, n + 1)
        /\ \/ transaction = "Committed" /\ Refused(stream, 1, n)
           \/ Verdict(stream[n + 2])
    BY <2>2 DEF EndingTransaction
  <2>5. n \in Int /\ q.count + 2 - q.taken = n + 2 /\ (n + 2) - 1 = 1 + n
    <3>1. \A a \in Int, b \in Nat :
            /\ a - b \in Int /\ a + 2 - b = (a - b) + 2
            /\ ((a - b) + 2) - 1 = 1 + (a - b)
      OBVIOUS
    <3> HIDE DEF q
    <3> QED BY <2>3, <3>1
  <2> HIDE DEF n
  <2>6. n + 2 \in 1..Len(stream) BY <2>3, <2>4, <2>5 DEF Block
  <2>7. ASSUME NEW i \in 1..Len(stream) PROVE stream[i].of = q.cmd <=> i <= n + 2
    <3>1. stream[i].of = q.cmd <=> 1 <= i /\ i <= 1 + (n + 1) BY <2>4 DEF Block
    <3> QED BY <2>3, <2>5, <3>1
  <2>8. transaction = "Committed" =>
           \/ stream[n + 2].kind = "multi" /\ stream[n + 2].n = q.count
           \/ \E i \in 1..(1 + n) : stream[i].kind = "error"
    BY <2>4 DEF Verdict, Refused
  <2> QED BY <2>5, <2>6, <2>7, <2>8
<1> QED BY <1>1, ReplyOrder, PTL

\* As long as nothing has put the replies out of step, nobody reads a line that
\* the server will not send: a call that reads finds a line, or the connection
\* has failed (redispp.cpp, the reads of a Buffer).
THEOREM ReadersAreServed ==
    ASSUME RedisppAssumption PROVE RedisppSpec => []NeverStuck
<1>1. RedisppInv => NeverStuck
  <2> SUFFICES ASSUME RedisppInv, InStep, call.status = "reading", Readers # {}, ~bad
               PROVE  stream # <<>>
    BY DEF NeverStuck, Blocked
  <2>1. RedisppTypeOK /\ Shapes /\ InOrder BY DEF RedisppInv
  <2>2. PICK x \in Readers : Now(x) BY DEF Now
  <2>3. CASE x \in Handles BY <2>1, <2>2, <2>3, ReaderOwnsHead
  <2>4. CASE x = Queued
    <3> DEFINE m == object[Queued].count - object[Queued].taken + 1
    <3>1. EndingTransaction BY <2>1, <2>2, <2>4, QueuedReads
    <3>2. Block(stream, object[Queued].cmd, 1, m) /\ m \in Int /\ m >= 0
      <4>1. object[Queued].count \in Int /\ object[Queued].taken \in Nat
        BY <2>1, Fields DEF Objects
      <4> QED BY <3>1, <4>1 DEF EndingTransaction
    <3> HIDE DEF m
    <3>3. 1 + m <= Len(stream) BY <3>2 DEF Block
    <3> QED BY <3>2, <3>3
  <2>5. x \in Objects
    <3>1. call.on \in Objects \cup {NoObject} BY <2>1 DEF RedisppTypeOK
    <3>2. call.on # NoObject
      BY <2>1, Kinds DEF Shapes, CallShape, Asking, Ending, Idle, RedisppAssumption, Objects
    <3> QED BY <2>2, <3>1, <3>2 DEF Readers, First, Earlier
  <2> QED BY <2>3, <2>4, <2>5 DEF Objects
<1> QED BY <1>1, ReplyOrder, PTL

-----------------------------------------------------------------------------
(* Enumerations.  The lines of one answer are numbered without a gap, also *)
(* while the server has queued them in a transaction, ...                  *)

Numbered(s) == \A i, j \in 1..Len(s) :
    j = i + 1 /\ s[j].of = s[i].of /\ s[j].kind = "bulk" =>
        s[j].idx = s[i].idx + 1 /\ (s[i].kind = "multi" => s[i].idx = 0)

SentBy(s, n) == \A i \in 1..Len(s) : s[i].of <= n

LinesNumbered == /\ Numbered(stream) /\ SentBy(stream, sent)
                 /\ Numbered(server.queue) /\ SentBy(server.queue, sent)

\* ... an enumerator has handed out or put aside all lines up to the next one
\* in the stream, and is asked for no element while it reads ahead for another.
Given(h) == call.on = h /\ call.op \in {"destroy", "assign"} /\ call.status = "reading"

Whole(o) ==
    /\ o.taken + Len(o.pending) + o.count = o.total
    /\ \A i \in 1..Len(o.pending) : o.pending[i].idx = o.taken + i
    /\ o.value # NoLine => o.value.idx = o.taken
    /\ ~o.headerDone => o.taken = 0 /\ o.pending = <<>> /\ o.value = NoLine

Continues(o, s) ==
    o.conn /\ o.headerDone /\ o.count > 0 /\ s # <<>> /\ s[1].of = o.cmd =>
        s[1].idx = o.taken + Len(o.pending) + 1

PartlyRead(h) == Work(h) /\ object[h].pending # <<>>

Enumerated(h) ==
    /\ object[h].pending # <<>> => object[h].headerDone
    /\ PartlyRead(h) => call.status = "reading" /\ Clears /\ h \in First(Earlier(call.on))
    /\ object[h].kind = "Multi" /\ ~Given(h) =>
          Whole(object[h]) /\ Continues(object[h], stream)

Enumerations == /\ call.op = "result" => object[call.on].kind # "Multi"
                /\ \A h \in Handles : Enumerated(h)

EnumInv == InStep /\ ~bad => LinesNumbered /\ Enumerations

LEMMA TailNumbered ==
    ASSUME NEW s \in Seq(Line), s # <<>>, Numbered(s), NEW n, SentBy(s, n)
    PROVE  Numbered(Tail(s)) /\ SentBy(Tail(s), n)
<1> DEFINE t == Tail(s)
<1>1. /\ Len(s) \in Nat /\ Len(t) \in Nat /\ Len(s) = Len(t) + 1
      /\ \A i \in 1..Len(t) : t[i] = s[i + 1]
  BY HeadTailProperties, EmptySeq
<1> HIDE DEF t
<1>2. \A i \in 1..Len(t) : i + 1 \in 1..Len(s) BY <1>1
<1>3. Numbered(t)
  <2> SUFFICES ASSUME NEW i \in 1..Len(t), NEW j \in 1..Len(t), j = i + 1,
                      t[j].of = t[i].of, t[j].kind = "bulk"
               PROVE  t[j].idx = t[i].idx + 1 /\ (t[i].kind = "multi" => t[i].idx = 0)
    BY DEF Numbered
  <2>1. t[i] = s[i + 1] /\ t[j] = s[j + 1] /\ j + 1 = (i + 1) + 1 BY <1>1
  <2> QED BY <1>2, <2>1 DEF Numbered
<1>4. SentBy(t, n) BY <1>1, <1>2 DEF SentBy
<1> QED BY <1>3, <1>4 DEF t

\* What a reader leaves of the first line keeps its place.
LEMMA RestNumbered ==
    ASSUME NEW s \in Seq(Line), Numbered(s), NEW reader, NEW b, NEW n, SentBy(s, n)
    PROVE  Numbered(Rest(reader, s, b)) /\ SentBy(Rest(reader, s, b), n)
<1>1. Numbered(<<>>) /\ SentBy(<<>>, n)
  <2>1. 1..Len(<<>>) = {} OBVIOUS
  <2> QED BY <2>1 DEF Numbered, SentBy
<1>2. CASE Jams(reader, s, b) BY <1>1, <1>2 DEF Rest
<1>3. CASE ~Jams(reader, s, b)
  <2>1. s # <<>> BY <1>3 DEF Jams, Exhausted
  <2>2. Numbered(Tail(s)) /\ SentBy(Tail(s), n) BY <2>1, TailNumbered
  <2> DEFINE l == [Head(s) EXCEPT !.kind = "text"]
             r == <<l>> \o Tail(s)
  <2>3. /\ Head(s) = s[1] /\ s[1] \in Line /\ Len(s) \in Nat /\ Len(s) > 0
        /\ Tail(s) \in Seq(Line) /\ Len(Tail(s)) = Len(s) - 1
        /\ \A i \in 1..Len(Tail(s)) : Tail(s)[i] = s[i + 1]
    BY <2>1, HeadIsFirst, HeadTailProperties
  <2>4. l \in Line /\ l.of = s[1].of /\ l.idx = s[1].idx /\ l.kind = "text"
    BY <2>3 DEF Line, LineKind
  <2> HIDE DEF l
  <2>5. <<l>> \in Seq(Line) /\ Len(<<l>>) = 1 /\ <<l>>[1] = l BY <2>4
  <2>6. /\ Len(r) = Len(s)
        /\ \A i \in 1..Len(s) : r[i] = IF i = 1 THEN l ELSE s[i]
    <3>1. Len(r) = Len(<<l>>) + Len(Tail(s)) BY <2>3, <2>5, ConcatProperties
    <3>2. ASSUME NEW i \in 1..Len(s) PROVE r[i] = IF i = 1 THEN l ELSE s[i]
      <4>1. r[i] = IF i <= Len(<<l>>) THEN <<l>>[i] ELSE Tail(s)[i - Len(<<l>>)]
        BY <2>3, <2>5, <3>1, ConcatProperties
      <4>2. CASE i = 1 BY <2>5, <4>1, <4>2
      <4>3. CASE i # 1
        <5>1. i - 1 \in 1..Len(Tail(s)) /\ (i - 1) + 1 = i BY <2>3, <4>3
        <5> QED BY <2>3, <2>5, <4>1, <4>3, <5>1
      <4> QED BY <4>2, <4>3
    <3> QED BY <2>3, <2>5, <3>1, <3>2
  <2> HIDE DEF r
  <2>7. \A i \in 1..Len(s) : /\ r[i].of = s[i].of /\ r[i].idx = s[i].idx
                             /\ r[i].kind = "text" \/ r[i].kind = s[i].kind
    BY <2>4, <2>6
  <2>8. Numbered(r)
    <3> SUFFICES ASSUME NEW i \in 1..Len(s), NEW j \in 1..Len(s), j = i + 1,
                        r[j].of = r[i].of, r[j].kind = "bulk"
                 PROVE  r[j].idx = r[i].idx + 1 /\ (r[i].kind = "multi" => r[i].idx = 0)
      BY <2>6 DEF Numbered
    <3>1. s[j].of = s[i].of /\ s[j].kind = "bulk" BY <2>7
    <3>2. s[j].idx = s[i].idx + 1 /\ (s[i].kind = "multi" => s[i].idx = 0)
      BY <3>1 DEF Numbered
    <3> QED BY <2>7, <3>2
  <2>9. SentBy(r, n) BY <2>6, <2>7 DEF SentBy
  <2> QED BY <1>3, <2>2, <2>8, <2>9 DEF Rest, r, l
<1> QED BY <1>2, <1>3

\* A sequence may be put behind another unless it goes on with its last answer.
LEMMA JoinNumbered ==
    ASSUME NEW s \in Seq(Line), NEW t \in Seq(Line), Numbered(s), Numbered(t),
           \A i \in 1..Len(s) : Len(t) > 0 => s[i].of # t[1].of \/ t[1].kind # "bulk"
    PROVE  Numbered(s \o t)
<1> DEFINE u == s \o t
<1>1. /\ Len(s) \in Nat /\ Len(t) \in Nat /\ Len(u) = Len(s) + Len(t)
      /\ \A i \in 1..(Len(s) + Len(t)) : u[i] = IF i <= Len(s) THEN s[i] ELSE t[i - Len(s)]
  BY ConcatProperties
<1> HIDE DEF u
<1> SUFFICES ASSUME NEW i \in 1..Len(u), NEW j \in 1..Len(u), j = i + 1,
                    u[j].of = u[i].of, u[j].kind = "bulk"
             PROVE  u[j].idx = u[i].idx + 1 /\ (u[i].kind = "multi" => u[i].idx = 0)
  BY DEF Numbered, u
<1>2. CASE j <= Len(s)
  <2>1. i \in 1..Len(s) /\ j \in 1..Len(s) /\ u[i] = s[i] /\ u[j] = s[j] BY <1>1, <1>2
  <2> QED BY <2>1 DEF Numbered
<1>3. CASE i = Len(s)
  <2>1. i \in 1..Len(s) /\ u[i] = s[i] /\ j - Len(s) = 1 /\ Len(t) > 0 BY <1>1, <1>3
  <2>2. u[j] = t[1] BY <1>1, <1>3, <2>1
  <2> QED BY <2>1, <2>2
<1>4. CASE i > Len(s)
  <2> DEFINE k == i - Len(s)
             m == j - Len(s)
  <2>1. k \in 1..Len(t) /\ m \in 1..Len(t) /\ m = k + 1 BY <1>1, <1>4
  <2>2. u[i] = t[k] /\ u[j] = t[m] BY <1>1, <1>4
  <2> HIDE DEF k, m
  <2> QED BY <2>1, <2>2 DEF Numbered
<1> QED BY <1>1, <1>2, <1>3, <1>4

LEMMA JoinSent ==
    ASSUME NEW s \in Seq(Line), NEW t \in Seq(Line), NEW n, SentBy(s, n), SentBy(t, n)
    PROVE  SentBy(s \o t, n)
<1> DEFINE u == s \o t
<1>1. /\ Len(s) \in Nat /\ Len(t) \in Nat /\ Len(u) = Len(s) + Len(t)
      /\ \A i \in 1..(Len(s) + Len(t)) : u[i] = IF i <= Len(s) THEN s[i] ELSE t[i - Len(s)]
  BY ConcatProperties
<1> HIDE DEF u
<1> SUFFICES ASSUME NEW i \in 1..Len(u) PROVE u[i].of <= n BY DEF SentBy, u
<1>2. CASE i <= Len(s) BY <1>1, <1>2 DEF SentBy
<1>3. CASE i > Len(s)
  <2>1. i - Len(s) \in 1..Len(t) BY <1>1, <1>3
  <2> QED BY <1>1, <1>3, <2>1 DEF SentBy
<1> QED BY <1>1, <1>2, <1>3

LEMMA SingleNumbered ==
    ASSUME NEW l \in Line
    PROVE  <<l>> \in Seq(Line) /\ Numbered(<<l>>) /\ \A i \in 1..Len(<<l>>) : <<l>>[i] = l
<1>1. <<l>> \in Seq(Line) /\ Len(<<l>>) = 1 /\ <<l>>[1] = l OBVIOUS
<1>2. \A i, j \in 1..1 : j # i + 1 OBVIOUS
<1> QED BY <1>1, <1>2 DEF Numbered

\* The server numbers the elements of an answer from 1.
LEMMA AnswersNumbered ==
    ASSUME RedisppAssumption, NEW kind \in ReplyKind, NEW c \in Nat,
           NEW a \in Answers(kind, c)
    PROVE  a \in Seq(Line) /\ Numbered(a) /\ \A i \in 1..Len(a) : a[i].of = c
<1>1. a \in Seq(Line) BY AnswersAreLines
<1>2. \A i \in 1..Len(a) : a[i].of = c
  <2> DEFINE o == [Free EXCEPT !.kind = kind, !.cmd = c]
  <2>1. o.kind = kind /\ o.cmd = c /\ ~o.headerDone BY DEF Free
  <2> HIDE DEF o
  <2> QED BY <2>1, NewAnswered
<1>3. \/ \E k \in LineKind, n \in Int : a = <<LineOf(k, n, c, 0)>>
      \/ \E n \in Nat : a = MultiAnswer(c, n)
  <2>1. CASE a = <<LineOf("error", 0, c, 0)>>
    <3>1. "error" \in LineKind /\ 0 \in Int BY DEF LineKind
    <3> QED BY <2>1, <3>1
  <2>2. CASE a \in Replies(kind, c)
    <3>1. {"status", "int", "nil", "bulk"} \subseteq LineKind /\ -1 \in Int /\ 0..1 \subseteq Int
      BY DEF LineKind
    <3>2. CASE kind = "Void"
      <4>1. a = <<LineOf("status", 0, c, 0)>> BY <2>2, <3>2, RepliesOfKind
      <4> QED BY <3>1, <4>1
    <3>3. CASE kind \in {"Bool", "Int"}
      <4>1. \E n \in 0..1 : a = <<LineOf("int", n, c, 0)>> BY <2>2, <3>3, RepliesOfKind
      <4> QED BY <3>1, <4>1
    <3>4. CASE kind = "String"
      <4>1. a = <<LineOf("nil", -1, c, 0)>> \/ a = <<LineOf("bulk", 1, c, 0)>>
        BY <2>2, <3>4, RepliesOfKind
      <4>2. "nil" \in LineKind /\ "bulk" \in LineKind /\ 1 \in Int BY <3>1
      <4> QED BY <3>1, <4>1, <4>2
    <3>5. CASE kind = "Multi"
      <4>1. PICK n \in Lengths : a = MultiAnswer(c, n) BY <2>2, <3>5, RepliesOfKind
      <4> QED BY <4>1 DEF RedisppAssumption
    <3> QED BY <3>2, <3>3, <3>4, <3>5 DEF ReplyKind, SimpleKind
  <2> QED BY <2>1, <2>2 DEF Answers
<1>4. ASSUME NEW k \in LineKind, NEW n \in Int, a = <<LineOf(k, n, c, 0)>>
      PROVE  Numbered(a)
  <2>1. LineOf(k, n, c, 0) \in Line BY DEF LineOf, Line
  <2> QED BY <1>4, <2>1, SingleNumbered
<1>5. ASSUME NEW n \in Nat, a = MultiAnswer(c, n)
      PROVE  Numbered(a)
  <2>1. Len(a) = n + 1 BY <1>5 DEF MultiAnswer
  <2>2. \A i \in 1..(n + 1) : a[i] = IF i = 1 THEN LineOf("multi", n, c, 0)
                                             ELSE LineOf("bulk", 1, c, i - 1)
    BY <1>5 DEF MultiAnswer
  <2>3. \A i \in 1..(n + 1) : /\ a[i].idx = i - 1
                              /\ a[i].kind = "multi" => i = 1
    <3> SUFFICES ASSUME NEW i \in 1..(n + 1)
                 PROVE a[i].idx = i - 1 /\ (a[i].kind = "multi" => i = 1)
      OBVIOUS
    <3>1. CASE i = 1
      <4>1. a[i] = LineOf("multi", n, c, 0) BY <2>2, <3>1
      <4> QED BY <3>1, <4>1 DEF LineOf
    <3>2. CASE i # 1
      <4>1. a[i] = LineOf("bulk", 1, c, i - 1) BY <2>2, <3>2
      <4> QED BY <3>2, <4>1 DEF LineOf
    <3> QED BY <3>1, <3>2
  <2> QED BY <2>1, <2>3 DEF Numbered
<1> QED BY <1>1, <1>2, <1>3, <1>4, <1>5

\* The lines that the server sends for a command of its own number c, and
\* those that it queues for later.
LEMMA OutcomesNumbered ==
    ASSUME RedisppTypeOK, Shapes, ~bad, LinesNumbered, NEW c \in Nat, c = sent + 1, NEW A,
           \A a \in A : /\ a \in Seq(Line) /\ Numbered(a)
                        /\ \A i \in 1..Len(a) : a[i].of = c,
           NEW o \in Outcomes(A)
    PROVE  /\ o.lines \in Seq(Line)
           /\ Numbered(stream \o o.lines) /\ SentBy(stream \o o.lines, c)
           /\ Numbered(o.state.queue) /\ SentBy(o.state.queue, c)
           /\ o.state.multi => server.multi
<1> DEFINE k == object[Queued].cmd
           q == server.queue
           line(kind) == LineOf(kind, 0, k, server.size + 1)
<1>1. /\ stream \in Seq(Line) /\ q \in Seq(Line) /\ server \in ServerState
      /\ sent \in Nat /\ k \in Nat /\ k <= sent /\ server.size + 1 \in Nat
  BY Fields, Kinds DEF RedisppTypeOK, ServerState
<1>2. Numbered(stream) /\ SentBy(stream, sent) BY DEF LinesNumbered
<1>3. Numbered(q) /\ SentBy(q, sent) BY DEF LinesNumbered
<1>4. ASSUME NEW s \in Seq(Line), SentBy(s, sent)
      PROVE  SentBy(s, c) /\ \A i \in 1..Len(s) : s[i].of < c
  <2>1. \A i \in 1..Len(s) : s[i].of \in Nat BY LineFields
  <2> QED BY <1>1, <1>4, <2>1 DEF SentBy
<1>5. SentBy(stream, c) /\ \A i \in 1..Len(stream) : stream[i].of < c BY <1>1, <1>2, <1>4
<1>6. ASSUME NEW a \in A, NEW s \in Seq(Line), Numbered(s), SentBy(s, sent)
      PROVE  /\ a \in Seq(Line) /\ Numbered(s \o a) /\ SentBy(s \o a, c)
  <2>1. /\ a \in Seq(Line) /\ Numbered(a) /\ Len(a) \in Nat
        /\ \A i \in 1..Len(a) : a[i].of = c
    BY LenProperties
  <2>2. SentBy(a, c) BY <2>1 DEF SentBy
  <2>3. SentBy(s, c) /\ \A i \in 1..Len(s) : s[i].of < c BY <1>4, <1>6
  <2>4. \A i \in 1..Len(s) : Len(a) > 0 => s[i].of # a[1].of
    <3>1. \A i \in 1..Len(s) : s[i].of # c
      <4>1. \A i \in 1..Len(s) : s[i].of \in Nat BY LineFields
      <4> QED BY <2>3, <4>1
    <3>2. Len(a) > 0 => a[1].of = c BY <2>1
    <3> QED BY <3>1, <3>2
  <2> QED BY <1>6, <2>1, <2>2, <2>3, <2>4, JoinNumbered, JoinSent
<1>7. ASSUME NEW kind \in {"status", "error"}
      PROVE  /\ <<line(kind)>> \in Seq(Line)
             /\ Numbered(stream \o <<line(kind)>>) /\ SentBy(stream \o <<line(kind)>>, c)
  <2> DEFINE l == line(kind)
             w == <<l>>
  <2>1. l \in Line /\ l.of = k /\ l.kind # "bulk" BY <1>1, <1>7 DEF LineOf, Line, LineKind
  <2> HIDE DEF l
  <2>2. w \in Seq(Line) /\ Numbered(w) /\ \A i \in 1..Len(w) : w[i] = l
    BY <2>1, SingleNumbered
  <2>3. w[1] = l OBVIOUS
  <2> HIDE DEF w
  <2>4. SentBy(w, c) BY <1>1, <2>1, <2>2 DEF SentBy
  <2>5. Numbered(stream \o w) BY <1>1, <1>2, <2>1, <2>2, <2>3, JoinNumbered
  <2>6. SentBy(stream \o w, c) BY <1>1, <1>5, <2>2, <2>4, JoinSent
  <2> QED BY <2>2, <2>5, <2>6 DEF w, l
<1>8. CASE ~server.multi
  <2>1. PICK a \in A : o = [lines |-> a, state |-> server] BY <1>8 DEF Outcomes
  <2>2. o.lines = a /\ o.state = server BY <2>1
  <2>3. /\ a \in Seq(Line) /\ Numbered(stream \o a) /\ SentBy(stream \o a, c)
    BY <1>1, <1>2, <1>6
  <2>4. SentBy(q, c) BY <1>1, <1>3, <1>4
  <2> QED BY <1>3, <2>2, <2>3, <2>4
<1>9. CASE server.multi
  <2>1. CASE /\ o.lines = <<line("error")>>
             /\ o.state = [server EXCEPT !.failed = TRUE]
    <3>1. o.state.queue = q BY <1>1, <2>1 DEF ServerState
    <3>2. SentBy(q, c) BY <1>1, <1>3, <1>4, <1>9
    <3> QED BY <1>3, <1>7, <1>9, <2>1, <3>1, <3>2
  <2>2. ASSUME NEW a \in A, o.lines = <<line("status")>>,
               o.state = [server EXCEPT !.size = server.size + 1, !.queue = q \o a]
        PROVE  /\ o.state.queue = q \o a
               /\ Numbered(q \o a) /\ SentBy(q \o a, c)
    <3>1. o.state.queue = q \o a
      <4> DEFINE r == q \o a
                 m == server.size + 1
      <4>1. o.state = [server EXCEPT !.size = m, !.queue = r] BY <2>2
      <4> HIDE DEF r, m
      <4>2. o.state.queue = r BY <1>1, <4>1 DEF ServerState
      <4> QED BY <4>2 DEF r
    <3>2. a \in Seq(Line) /\ Numbered(q \o a) /\ SentBy(q \o a, c)
      BY <1>1, <1>3, <1>6, <1>9
    <3> QED BY <3>1, <3>2
  <2>3. \/ /\ o.lines = <<line("error")>>
           /\ o.state = [server EXCEPT !.failed = TRUE]
        \/ \E a \in A : /\ o.lines = <<line("status")>>
                        /\ o.state = [server EXCEPT !.size = server.size + 1, !.queue = q \o a]
    <3>1. \/ o = [lines |-> <<line("error")>>, state |-> [server EXCEPT !.failed = TRUE]]
          \/ \E a \in A : o = [lines |-> <<line("status")>>,
                              state |-> [server EXCEPT !.size = server.size + 1,
                                                       !.queue = q \o a]]
      BY <1>9 DEF Outcomes
    <3>2. CASE o = [lines |-> <<line("error")>>, state |-> [server EXCEPT !.failed = TRUE]]
      BY <3>2
    <3>3. ASSUME NEW a \in A, o = [lines |-> <<line("status")>>,
                                  state |-> [server EXCEPT !.size = server.size + 1,
                                                           !.queue = q \o a]]
          PROVE  /\ o.lines = <<line("status")>>
                 /\ o.state = [server EXCEPT !.size = server.size + 1, !.queue = q \o a]
      BY <3>3
    <3> QED BY <3>1, <3>2, <3>3
  <2>4. CASE \E a \in A : /\ o.lines = <<line("status")>>
                          /\ o.state = [server EXCEPT !.size = server.size + 1, !.queue = q \o a]
    <3>1. PICK a \in A : /\ o.lines = <<line("status")>>
                         /\ o.state = [server EXCEPT !.size = server.size + 1, !.queue = q \o a]
      BY <2>4
    <3>2. /\ o.state.queue = q \o a
          /\ Numbered(q \o a) /\ SentBy(q \o a, c)
      BY <2>2, <3>1
    <3>3. Numbered(o.state.queue) /\ SentBy(o.state.queue, c) BY <3>2
    <3> QED BY <1>7, <1>9, <3>1, <3>3
  <2> QED BY <2>1, <2>3, <2>4
<1> QED BY <1>8, <1>9

LEMMA LinesStay ==
    ASSUME LinesNumbered, UNCHANGED <<server, sent>>,
           Numbered(stream') /\ SentBy(stream', sent)
    PROVE  LinesNumbered'
BY DEF LinesNumbered

\* Every step keeps the lines numbered, but a command whose answer nobody reads.
LEMMA LinesAreKept ==
    ASSUME RedisppAssumption, RedisppTypeOK, Shapes, InOrder, ~bad, ~bad', LinesNumbered,
           InStep', ClientStep
    PROVE  LinesNumbered'
<1>1. /\ Queued \in Objects /\ Queued \notin Handles /\ Handles \subseteq Objects
      /\ object \in [Objects -> Object] /\ stream \in Seq(Line) /\ sent \in Nat
      /\ server \in ServerState /\ object[Queued] \in Object /\ sent + 1 \in Nat
      /\ object[Queued].cmd \in Nat /\ object[Queued].cmd <= sent
      /\ \A x \in Objects : x = Queued \/ x \in Handles
  BY Kinds, Fields DEF RedisppTypeOK, RedisppAssumption
<1>2. Numbered(stream) /\ SentBy(stream, sent) BY DEF LinesNumbered
<1>3. Numbered(<<>>) /\ \A n : SentBy(<<>>, n)
  <2>1. 1..Len(<<>>) = {} OBVIOUS
  <2> QED BY <2>1 DEF Numbered, SentBy
<1>4. ASSUME NEW reader, ReadLine(reader)
      PROVE  Numbered(stream') /\ SentBy(stream', sent)
  <2>1. stream' = Rest(reader, stream, bad) BY <1>4 DEF ReadLine
  <2> QED BY <1>1, <1>2, <2>1, RestNumbered
<1>5. ASSUME NEW h \in Handles, NEW k \in ReplyKind, NEW command, Send(h, command, k)
      PROVE  LinesNumbered'
  <2>1. /\ transaction' = transaction /\ sent' = sent + 1
        /\ object' = [object EXCEPT ![h] = NewReply(k), ![Queued] = Counted]
        /\ Write(Answers(k, sent + 1))
    BY <1>5 DEF Send
  <2>2. PICK o \in Outcomes(Answers(k, sent + 1)) :
           stream' = stream \o o.lines /\ server' = o.state
    BY <2>1 DEF Write
  <2>3. \A a \in Answers(k, sent + 1) :
           a \in Seq(Line) /\ Numbered(a) /\ \A i \in 1..Len(a) : a[i].of = sent + 1
    BY <1>1, AnswersNumbered
  <2>4. /\ Numbered(stream') /\ SentBy(stream', sent + 1)
        /\ Numbered(server'.queue) /\ SentBy(server'.queue, sent + 1)
    <3> DEFINE A == Answers(k, sent + 1)
               c == sent + 1
    <3>1. c \in Nat /\ c = sent + 1 /\ o \in Outcomes(A)
          /\ \A a \in A : a \in Seq(Line) /\ Numbered(a) /\ \A i \in 1..Len(a) : a[i].of = c
      BY <1>1, <2>3
    <3> HIDE DEF A, c
    <3>2. /\ Numbered(stream \o o.lines) /\ SentBy(stream \o o.lines, c)
          /\ Numbered(o.state.queue) /\ SentBy(o.state.queue, c)
      BY <3>1, OutcomesNumbered
    <3> QED BY <2>2, <3>2 DEF c
  <2> QED BY <2>1, <2>4 DEF LinesNumbered
<1>6. CASE Type
  <2>1. /\ sent' = sent + 1 BY <1>6 DEF Type
  <2>2. PICK o \in Outcomes(Answers("Void", sent + 1)) :
           stream' = Rest("status", stream \o o.lines, bad) /\ server' = o.state
    BY <1>6 DEF Type
  <2>3. "Void" \in ReplyKind BY DEF ReplyKind, SimpleKind
  <2>4. \A a \in Answers("Void", sent + 1) :
           a \in Seq(Line) /\ Numbered(a) /\ \A i \in 1..Len(a) : a[i].of = sent + 1
    BY <1>1, <2>3, AnswersNumbered
  <2>5. /\ stream \o o.lines \in Seq(Line)
        /\ Numbered(stream \o o.lines) /\ SentBy(stream \o o.lines, sent + 1)
        /\ Numbered(server'.queue) /\ SentBy(server'.queue, sent + 1)
    <3> DEFINE A == Answers("Void", sent + 1)
               c == sent + 1
    <3>1. c \in Nat /\ c = sent + 1 /\ o \in Outcomes(A)
          /\ \A a \in A : a \in Seq(Line) /\ Numbered(a) /\ \A i \in 1..Len(a) : a[i].of = c
      BY <1>1, <2>4
    <3> HIDE DEF A, c
    <3>2. /\ o.lines \in Seq(Line)
          /\ Numbered(stream \o o.lines) /\ SentBy(stream \o o.lines, c)
          /\ Numbered(o.state.queue) /\ SentBy(o.state.queue, c)
      BY <3>1, OutcomesNumbered
    <3> QED BY <1>1, <2>2, <3>2, ConcatProperties DEF c
  <2>6. Numbered(stream') /\ SentBy(stream', sent') BY <2>1, <2>2, <2>5, RestNumbered
  <2> QED BY <2>1, <2>5, <2>6 DEF LinesNumbered
<1>7. ASSUME NEW command, Bare(command) \/ BeginNested PROVE FALSE
  BY <1>7, Blameless DEF Bare, BeginNested
<1>8. CASE Begin
  <2> DEFINE l == LineOf("status", 0, sent + 1, 0)
  <2>1. /\ stream' = Append(stream, l) /\ server' = [NotInMulti EXCEPT !.multi = TRUE]
        /\ sent' = sent + 1
    BY <1>8 DEF Begin
  <2>2. server'.queue = <<>> BY <2>1 DEF NotInMulti
  <2>3. l \in Line /\ l.of = sent + 1 /\ l.kind # "bulk" BY <1>1 DEF LineOf, Line, LineKind
  <2> HIDE DEF l
  <2>4. Numbered(stream') /\ SentBy(stream', sent + 1)
    <3>1. /\ <<l>> \in Seq(Line) /\ Numbered(<<l>>) /\ \A i \in 1..Len(<<l>>) : <<l>>[i] = l
          /\ <<l>>[1] = l
      BY <2>3, SingleNumbered
    <3>2. stream' = stream \o <<l>> BY <1>1, <2>1, <2>3, AppendIsConcat
    <3>3. SentBy(<<l>>, sent + 1) BY <1>1, <2>3, <3>1 DEF SentBy
    <3>4. SentBy(stream, sent + 1)
      <4>1. \A i \in 1..Len(stream) : stream[i].of \in Nat BY <1>1, LineFields
      <4> QED BY <1>1, <1>2, <4>1 DEF SentBy
    <3> DEFINE w == <<l>>
    <3>5. w \in Seq(Line) /\ Numbered(w) /\ w[1].kind # "bulk" BY <2>3, <3>1
    <3> HIDE DEF w
    <3>6. Numbered(stream \o w) BY <1>1, <1>2, <3>5, JoinNumbered
    <3>7. SentBy(stream \o w, sent + 1) BY <1>1, <3>3, <3>4, <3>5, JoinSent DEF w
    <3> QED BY <3>2, <3>6, <3>7 DEF w
  <2> QED BY <1>3, <2>1, <2>2, <2>4 DEF LinesNumbered
<1>9. ASSUME NEW op, Commit \/ Abort(op) PROVE LinesNumbered'
  <2>1. /\ transaction = "Dirty" /\ UNCHANGED sent /\ (SendExec \/ SendDiscard)
    BY <1>9 DEF Commit, Abort
  <2> DEFINE k == object[Queued].cmd
             e(kind, n) == LineOf(kind, n, k, server.size + 1)
  <2>2. server'.queue = <<>> BY <2>1 DEF SendExec, SendDiscard, NotInMulti
  <2>3. ASSUME NEW kind \in {"status", "error", "multi"}, NEW n \in Nat
        PROVE  /\ e(kind, n) \in Line
               /\ stream \o <<e(kind, n)>> \in Seq(Line)
               /\ Numbered(stream \o <<e(kind, n)>>)
               /\ SentBy(stream \o <<e(kind, n)>>, sent)
               /\ SentBy(<<e(kind, n)>>, sent)
    <3> DEFINE l == e(kind, n)
               w == <<l>>
    <3>1. l \in Line /\ l.of = k /\ l.kind # "bulk"
      BY <1>1, <2>3 DEF LineOf, Line, LineKind, ServerState
    <3> HIDE DEF l
    <3>2. /\ w \in Seq(Line) /\ Numbered(w) /\ \A i \in 1..Len(w) : w[i] = l
          /\ w[1] = l
      BY <3>1, SingleNumbered
    <3> HIDE DEF w
    <3>3. SentBy(w, sent) BY <1>1, <3>1, <3>2 DEF SentBy
    <3>4. Numbered(stream \o w) BY <1>1, <1>2, <3>1, <3>2, JoinNumbered
    <3>5. SentBy(stream \o w, sent) BY <1>1, <1>2, <3>2, <3>3, JoinSent
    <3>6. stream \o w \in Seq(Line) BY <1>1, <3>2, ConcatProperties
    <3> QED BY <3>1, <3>3, <3>4, <3>5, <3>6 DEF w, l
  <2>4. Numbered(stream') /\ SentBy(stream', sent)
    <3>1. server.size \in Nat /\ 0 \in Nat BY <1>1 DEF ServerState
    <3>2. CASE SendDiscard
      <4>1. stream' = Append(stream, e("status", 0)) BY <3>2 DEF SendDiscard
      <4>2. e("status", 0) \in Line /\ "status" \in {"status", "error", "multi"}
        BY <2>3, <3>1
      <4>3. stream' = stream \o <<e("status", 0)>> BY <1>1, <4>1, <4>2, AppendIsConcat
      <4> QED BY <2>3, <3>1, <4>3
    <3>3. CASE SendExec /\ server.failed
      <4>1. stream' = stream \o <<e("error", 0)>> BY <3>3 DEF SendExec, ExecAnswer
      <4> QED BY <2>3, <3>1, <4>1
    <3>4. CASE SendExec /\ ~server.failed
      <4> DEFINE l == e("multi", server.size)
                 s == stream \o <<l>>
                 t == server.queue
      <4>1. stream' = stream \o (<<l>> \o t) BY <3>4 DEF SendExec, ExecAnswer
      <4>2. /\ l \in Line /\ s \in Seq(Line) /\ Numbered(s) /\ SentBy(s, sent)
        BY <2>3, <3>1
      <4> HIDE DEF l
      <4>3. /\ t \in Seq(Line) /\ Numbered(t) /\ SentBy(t, sent) /\ Len(t) \in Nat
            /\ \A i \in 1..Len(t) : t[i].of > k
        <5>1. t \in Seq(Line) /\ Numbered(t) /\ SentBy(t, sent) /\ Len(t) \in Nat
          BY <1>1, LenProperties DEF LinesNumbered, ServerState
        <5>2. /\ Aligned(t, Insiders, object)
              /\ \A x \in Insiders : object[x].cmd > k
          BY <2>1, <3>4 DEF InOrder, OpenTransaction, QueuedAnswers
        <5> QED BY <5>1, <5>2 DEF Aligned, Owned
      <4>4. \A i \in 1..Len(stream) : stream[i].of <= k
        BY <2>1, OutsidersBefore DEF InOrder
      <4>5. \A i \in 1..Len(s) : s[i].of <= k
        <5>1. SentBy(stream, k) BY <4>4 DEF SentBy
        <5>2. SentBy(<<l>>, k)
          <6>1. /\ <<l>> \in Seq(Line) /\ \A i \in 1..Len(<<l>>) : <<l>>[i] = l
            BY <4>2, SingleNumbered
          <6>2. l.of <= k BY <1>1 DEF l, LineOf
          <6> QED BY <6>1, <6>2 DEF SentBy
        <5>3. <<l>> \in Seq(Line) BY <4>2
        <5>4. SentBy(s, k) BY <1>1, <5>1, <5>2, <5>3, JoinSent
        <5> QED BY <5>4 DEF SentBy
      <4>6. stream' = s \o t
        <5> DEFINE w == <<l>>
        <5>1. w \in Seq(Line) BY <4>2
        <5> HIDE DEF w
        <5>2. (stream \o w) \o t = stream \o (w \o t)
          <6> SUFFICES ASSUME NEW u1 \in Seq(Line), NEW u2 \in Seq(Line), NEW u3 \in Seq(Line)
                       PROVE  (u1 \o u2) \o u3 = u1 \o (u2 \o u3)
            BY <1>1, <4>3, <5>1
          <6> QED BY ConcatAssociative
        <5> QED BY <4>1, <5>2 DEF w
      <4>7. \A i \in 1..Len(s) : Len(t) > 0 => s[i].of # t[1].of
        <5>1. \A i \in 1..Len(s) : s[i].of \in Nat BY <4>2, LineFields
        <5>2. \A i \in 1..Len(t) : t[i].of \in Nat BY <4>3, LineFields
        <5>3. Len(t) > 0 => 1 \in 1..Len(t) BY <4>3
        <5> QED BY <1>1, <4>3, <4>5, <5>1, <5>2, <5>3
      <4> HIDE DEF s, t
      <4>8. Numbered(s \o t) /\ SentBy(s \o t, sent) BY <4>2, <4>3, <4>7, JoinNumbered, JoinSent
      <4> QED BY <4>6, <4>8
    <3> QED BY <2>1, <3>2, <3>3, <3>4
  <2> QED BY <1>3, <2>1, <2>2, <2>4 DEF LinesNumbered
<1>10. CASE EndTransaction \/ TransactionEnded
  <2>1. UNCHANGED <<stream, server, sent>> BY <1>10 DEF EndTransaction, TransactionEnded
  <2> QED BY <1>2, <2>1, LinesStay
<1>11. ASSUME NEW h \in Handles, NEW g \in Handles,
              Result(h) \/ NextElement(h) \/ Destroy(h) \/ Assign(h, g) \/ Copy(h, g)
       PROVE  LinesNumbered'
  <2>1. UNCHANGED <<stream, server, sent>>
    BY <1>11 DEF Result, NextElement, Destroy, Assign, Copy
  <2> QED BY <1>2, <2>1, LinesStay
<1>12. ASSUME NEW x \in Objects,
              \/ ReadSimple(x) \/ ReadHeader(x) \/ ReadElement(x) \/ DrainElement(x)
              \/ ReadAhead(x)
       PROVE  LinesNumbered'
  <2>1. (\E reader : ReadLine(reader)) /\ UNCHANGED <<server, sent>>
    BY <1>12 DEF ReadSimple, ReadHeader, ReadElement, DrainElement, ReadAhead
  <2> QED BY <1>4, <2>1, LinesStay
<1>13. CASE ReadStatuses \/ ReadVerdict
  <2>1. (\E reader : ReadLine(reader)) /\ UNCHANGED <<server, sent>>
    BY <1>13 DEF ReadStatuses, ReadVerdict
  <2> QED BY <1>4, <2>1, LinesStay
<1>14. CASE NextPending \/ Return \/ Destroyed \/ Assigned
  <2>1. UNCHANGED <<stream, server, sent>>
    BY <1>14 DEF NextPending, Return, Destroyed, Assigned
  <2> QED BY <1>2, <2>1, LinesStay
<1>15. CASE Close BY <1>15 DEF Close
<1> QED
  BY <1>5, <1>6, <1>7, <1>8, <1>9, <1>10, <1>11, <1>12, <1>13, <1>14, <1>15
     DEF ClientStep, RedisppNext, Reading

\* An enumerator whose header was read finds its elements at the front of the
\* stream, unless a transaction ends.
LEMMA GoesOnInFront ==
    ASSUME RedisppAssumption, RedisppTypeOK, Shapes, InOrder,
           NEW y \in Handles, Work(y), object[y].headerDone
    PROVE  /\ stream # <<>>
           /\ transaction = "Dirty" \/ ~Work(Queued) => stream[1].of = object[y].cmd
<1>1. /\ y \in Objects /\ y \in Waiting /\ object[y].kind = "Multi"
      /\ object[y].cmd \in Int /\ stream \in Seq(Line)
  <2>1. y \in Objects BY DEF Objects
  <2> QED BY <2>1, Fields DEF Waiting, RedisppTypeOK
<1>2. CASE transaction = "Dirty"
  <2>1. OpenTransaction BY <1>2 DEF InOrder
  <2>2. y \in Outsiders \cap Handles BY <1>1, <2>1 DEF OpenTransaction, Outsiders
  <2>3. Aligned(stream, Outsiders, object) BY <2>1 DEF OpenTransaction
  <2> HIDE DEF Outsiders
  <2> QED BY <1>1, <2>2, <2>3, HeadOwner
<1>3. CASE transaction # "Dirty" /\ ~Work(Queued)
  <2>1. Aligned(stream, Waiting, object) BY <1>3 DEF InOrder, NoTransaction
  <2>2. y \in Waiting \cap Handles BY <1>1
  <2> HIDE DEF Waiting
  <2> QED BY <1>1, <2>1, <2>2, HeadOwner
<1>4. CASE transaction # "Dirty" /\ Work(Queued)
  <2> DEFINE n == object[Queued].count - object[Queued].taken
  <2>1. n \in Int /\ n >= -1 /\ Block(stream, object[Queued].cmd, 1, n + 1)
    <3>1. object[Queued].count \in Int /\ object[Queued].taken \in Nat
      BY Fields, Kinds
    <3> QED BY <1>4, <3>1 DEF InOrder, EndingTransaction
  <2> HIDE DEF n
  <2>2. 1 <= Len(stream) BY <1>1, <2>1, LenProperties DEF Block
  <2> QED BY <1>1, <1>4, <2>2, EmptySeq
<1> QED BY <1>2, <1>3, <1>4

\* Nobody but the reader is in the middle of its elements.
LEMMA ReaderInFront ==
    ASSUME RedisppAssumption, RedisppTypeOK, Shapes, InOrder, NEW x \in Handles, Now(x),
           NEW y \in Handles, Work(y), object[y].headerDone
    PROVE  x = y
<1>1. /\ x \in Owners /\ stream[1].of = object[x].cmd
      /\ transaction = "Dirty" \/ ~Work(Queued)
  BY ReaderOwnsHead
<1>2. stream[1].of = object[y].cmd BY <1>1, GoesOnInFront
<1>3. x \in Objects /\ y \in Objects BY DEF Objects
<1>4. object[x].conn /\ object[y].conn
  BY <1>1 DEF Owners, Outsiders, Waiting, Work
<1> QED BY <1>1, <1>2, <1>3, <1>4 DEF Shapes, Distinct

\* An enumerator that the step leaves alone.
LEMMA LeftAlone ==
    ASSUME RedisppTypeOK, NEW y \in Handles, Enumerated(y), object'[y] = object[y],
           object[y].kind = "Multi" /\ Given(y) => Given(y)',
           ~PartlyRead(y),
           Work(y) /\ object[y].headerDone /\ stream' # <<>> =>
              \/ stream # <<>> /\ stream'[1] = stream[1]
              \/ stream'[1].of # object[y].cmd
    PROVE  Enumerated(y)'
<1>1. ~PartlyRead(y)' BY DEF PartlyRead, Work
<1>2. ASSUME object[y].kind = "Multi", ~Given(y)'
      PROVE  Whole(object[y]) /\ Continues(object[y], stream')
  <2>1. Whole(object[y]) /\ Continues(object[y], stream) BY <1>2 DEF Enumerated
  <2> QED BY <1>2, <2>1 DEF Continues, Work
<1>3. object[y].pending # <<>> => object[y].headerDone BY DEF Enumerated
<1> QED BY <1>1, <1>2, <1>3 DEF Enumerated

\* An object that waits for the header of its answer, or for nothing.
LEMMA NothingHandedOut ==
    ASSUME NEW y \in Handles, object'[y].pending = <<>>, ~object'[y].headerDone,
           object'[y].taken = 0, object'[y].count = 0, object'[y].total = 0,
           object'[y].value = NoLine
    PROVE  Enumerated(y)'
<1>1. Len(<<>>) = 0 /\ 1..0 = {} OBVIOUS
<1>2. Whole(object'[y]) /\ Continues(object'[y], stream') BY <1>1 DEF Whole, Continues
<1> QED BY <1>2 DEF Enumerated, PartlyRead

\* Nobody reads ahead while the program is not in a call that does.
LEMMA NobodyReadsAhead ==
    ASSUME Enumerations, call.status # "reading" \/ ~Clears, NEW y \in Handles
    PROVE  ~PartlyRead(y)
BY DEF Enumerations, Enumerated

LEMMA NewLinesBehind ==
    ASSUME NEW s \in Seq(Line), NEW t \in Seq(Line), s # <<>>
    PROVE  (s \o t)[1] = s[1]
<1>1. Len(s) \in Nat /\ Len(t) \in Nat /\ Len(s) > 0 BY HeadIsFirst, LenProperties
<1> QED BY <1>1, ConcatProperties

\* Commands, and the end of a transaction: lines come behind those there are.
LEMMA SendEnumerated ==
    ASSUME RedisppAssumption, RedisppTypeOK, Shapes, InOrder, ~bad, LinesNumbered, Enumerations,
           NEW h \in Handles, NEW k \in ReplyKind, NEW command, Send(h, command, k)
    PROVE  Enumerations'
<1>1. /\ call = Idle /\ call' = call
      /\ object' = [object EXCEPT ![h] = NewReply(k), ![Queued] = Counted]
      /\ Write(Answers(k, sent + 1))
  BY DEF Send, MaySend, Active
<1>2. /\ h \in Objects /\ h # Queued /\ stream \in Seq(Line) /\ sent \in Nat
      /\ object \in [Objects -> Object]
      /\ \A y \in Handles : y \in Objects /\ y # Queued
  BY Kinds DEF RedisppTypeOK, RedisppAssumption, Objects
<1>3. PICK o \in Outcomes(Answers(k, sent + 1)) : stream' = stream \o o.lines
  BY <1>1 DEF Write
<1>4. o.lines \in Seq(Line)
  <2>1. \A a \in Answers(k, sent + 1) : a \in Seq(Line) BY <1>2, AnswersAreLines
  <2> QED BY <2>1, OutcomeTypes
<1>5. ASSUME NEW y \in Handles, y # h PROVE Enumerated(y)'
  <2>1. object'[y] = object[y] BY <1>1, <1>2, <1>5
  <2>2. ~PartlyRead(y) /\ ~Given(y) BY <1>1, NobodyReadsAhead DEF Idle, Given
  <2>3. Work(y) /\ object[y].headerDone => stream # <<>> /\ stream'[1] = stream[1]
    BY <1>2, <1>3, <1>4, GoesOnInFront, NewLinesBehind
  <2> QED BY <2>1, <2>2, <2>3, LeftAlone DEF Enumerations
<1>6. Enumerated(h)'
  <2>1. object'[h] = NewReply(k) BY <1>1, <1>2
  <2> QED BY <2>1, NothingHandedOut DEF NewReply, Free
<1> QED BY <1>1, <1>5, <1>6 DEF Enumerations, Idle

LEMMA TransactionEnumerated ==
    ASSUME RedisppAssumption, RedisppTypeOK, Shapes, InOrder, ~bad, LinesNumbered, Enumerations,
           Begin \/ Commit \/ Abort("abort") \/ Abort("end")
    PROVE  Enumerations'
<1>1. /\ call = Idle /\ (call' = Idle \/ call'.op \in {"commit", "abort", "end"})
      /\ object' = object \/ \E q : object' = [object EXCEPT ![Queued] = q]
  <2>1. CASE Begin BY <2>1 DEF Begin, MaySend, Active
  <2>2. CASE Commit BY <2>2 DEF Commit, Active, Using
  <2>3. CASE Abort("abort") BY <2>3 DEF Abort, Active, Using
  <2>4. CASE Abort("end") BY <2>4 DEF Abort, Active, Using
  <2> QED BY <2>1, <2>2, <2>3, <2>4
<1>2. /\ stream \in Seq(Line) /\ sent \in Nat /\ object[Queued].cmd \in Nat
      /\ server \in ServerState
      /\ object \in [Objects -> Object]
      /\ \A y \in Handles : y \in Objects /\ y # Queued
  BY Kinds, Fields DEF RedisppTypeOK, RedisppAssumption, Objects
<1>3. PICK t \in Seq(Line) : stream' = stream \o t
  <2>1. ASSUME NEW l \in Line, stream' = Append(stream, l)
        PROVE  \E t \in Seq(Line) : stream' = stream \o t
    <3>1. stream' = stream \o <<l>> /\ <<l>> \in Seq(Line) BY <1>2, <2>1, AppendIsConcat
    <3> QED BY <3>1
  <2>2. CASE Begin
    <3>1. LineOf("status", 0, sent + 1, 0) \in Line BY <1>2 DEF LineOf, Line, LineKind
    <3> QED BY <2>1, <2>2, <3>1 DEF Begin
  <2>3. CASE Abort("abort") \/ Abort("end")
    <3>1. LineOf("status", 0, object[Queued].cmd, server.size + 1) \in Line
      BY <1>2 DEF LineOf, Line, LineKind, ServerState
    <3> QED BY <2>1, <2>3, <3>1 DEF Abort, SendDiscard
  <2>4. CASE Commit
    <3>1. ExecAnswer \in Seq(Line)
      <4> DEFINE l(kind, n) == LineOf(kind, n, object[Queued].cmd, server.size + 1)
      <4>1. l("error", 0) \in Line /\ l("multi", server.size) \in Line
        BY <1>2 DEF LineOf, Line, LineKind, ServerState
      <4> HIDE DEF l
      <4>2. /\ <<l("error", 0)>> \in Seq(Line) /\ <<l("multi", server.size)>> \in Seq(Line)
            /\ server.queue \in Seq(Line)
        BY <1>2, <4>1 DEF ServerState
      <4>3. <<l("multi", server.size)>> \o server.queue \in Seq(Line)
        BY <4>2, ConcatProperties
      <4> QED BY <4>2, <4>3 DEF ExecAnswer, l
    <3> QED BY <2>4, <3>1 DEF Commit, SendExec
  <2> QED BY <2>2, <2>3, <2>4
<1>4. ASSUME NEW y \in Handles PROVE Enumerated(y)'
  <2>1. object'[y] = object[y] BY <1>1, <1>2
  <2>2. ~PartlyRead(y) /\ ~Given(y) BY <1>1, NobodyReadsAhead DEF Idle, Given
  <2>3. Work(y) /\ object[y].headerDone => stream # <<>> /\ stream'[1] = stream[1]
    BY <1>2, <1>3, GoesOnInFront, NewLinesBehind
  <2> QED BY <2>1, <2>2, <2>3, LeftAlone DEF Enumerations
<1> QED BY <1>1, <1>4 DEF Enumerations, Idle

LEMMA TransactionEndEnumerated ==
    ASSUME RedisppAssumption, RedisppTypeOK, Shapes, Enumerations,
           EndTransaction \/ TransactionEnded
    PROVE  Enumerations'
<1>1. /\ call' = Idle /\ call.op \in {"none", "end"} /\ stream' = stream
      /\ object' = [object EXCEPT ![Queued] = Free]
  BY DEF EndTransaction, TransactionEnded, Active, Idle
<1>2. \A y \in Handles : y \in Objects /\ y # Queued /\ object'[y] = object[y]
  BY <1>1, Kinds DEF RedisppTypeOK, RedisppAssumption
<1>3. ASSUME NEW y \in Handles PROVE Enumerated(y)'
  <2>1. ~PartlyRead(y) /\ ~Given(y) BY <1>1, NobodyReadsAhead DEF Clears, Given
  <2> QED BY <1>1, <1>2, <2>1, LeftAlone DEF Enumerations
<1> QED BY <1>1, <1>3 DEF Enumerations, Idle

\* type() is used while nobody waits.
LEMMA TypeEnumerated ==
    ASSUME RedisppAssumption, RedisppTypeOK, Shapes, Enumerations, InStep', Type
    PROVE  Enumerations'
<1>1. /\ call = Idle /\ call' = Idle /\ object' = object
      /\ \A y \in Objects : ~Work(y)
  BY Blameless DEF Type, MaySend, Active
<1>2. ASSUME NEW y \in Handles PROVE Enumerated(y)'
  <2>1. ~PartlyRead(y) /\ ~Given(y) /\ ~Work(y)
    BY <1>1, NobodyReadsAhead, Kinds DEF Idle, Given
  <2> QED BY <1>1, <2>1, LeftAlone DEF Enumerations
<1> QED BY <1>1, <1>2 DEF Enumerations, Idle

\* The program asks for something: nothing has been read yet.
LEMMA AskEnumerated ==
    ASSUME RedisppAssumption, RedisppTypeOK, Enumerations, NEW h \in Handles, NEW g \in Handles,
           Result(h) \/ NextElement(h) \/ Destroy(h) \/ Assign(h, g)
    PROVE  Enumerations'
<1>1. call = Idle /\ object' = object /\ stream' = stream
  BY DEF Result, NextElement, Destroy, Assign, Active
<1>2. call'.op = "result" => object'[call'.on].kind # "Multi"
  BY DEF Result, NextElement, Destroy, Assign, Using, SimpleKind
<1>3. ASSUME NEW y \in Handles PROVE Enumerated(y)'
  <2>1. ~PartlyRead(y) /\ ~Given(y) BY <1>1, NobodyReadsAhead DEF Idle, Given
  <2> QED BY <1>1, <2>1, LeftAlone DEF Enumerations
<1> QED BY <1>2, <1>3 DEF Enumerations

LEMMA CopyEnumerated ==
    ASSUME RedisppAssumption, RedisppTypeOK, Shapes, Enumerations,
           NEW h \in Handles, NEW g \in Handles, Copy(h, g)
    PROVE  Enumerations'
<1> DEFINE o == InPlaceOf(object[g])
           p == LeftBehind(object[g])
<1>1. /\ call = Idle /\ call' = Idle /\ stream' = stream /\ h # g
      /\ object' = [object EXCEPT ![h] = o, ![g] = p]
  BY DEF Copy, Active
<1>2. /\ h \in Objects /\ g \in Objects /\ object \in [Objects -> Object]
      /\ object[g] \in Object /\ object[g].pending \in Seq(Line)
  BY Kinds, Fields DEF RedisppTypeOK
<1>3. /\ ~PartlyRead(g) /\ ~Given(g) /\ Enumerated(g)
      /\ \A y \in Handles : ~PartlyRead(y) /\ ~Given(y)
  BY <1>1, NobodyReadsAhead DEF Idle, Given, Enumerations
<1>4. LET q == object[g] IN
      /\ o.kind = q.kind /\ o.cmd = q.cmd /\ (o.conn = q.conn) /\ (o.headerDone = q.headerDone)
      /\ o.count = q.count /\ o.pending = q.pending /\ o.value = q.value
      /\ o.taken = q.taken /\ o.total = q.total
  BY <1>2 DEF InPlaceOf, Object
<1>5. LET q == object[g] IN
      /\ p.kind = q.kind /\ ~p.conn /\ (p.headerDone = q.headerDone)
      /\ p.count = q.count /\ p.pending = <<>> /\ p.value = q.value
      /\ p.taken = q.taken /\ p.total = q.total - Len(q.pending)
  BY <1>2 DEF LeftBehind, Unlinked, Object
<1>6. object'[h] = o /\ object'[g] = p BY <1>1, <1>2
<1> HIDE DEF o, p
<1>7. ASSUME NEW y \in Handles, y # h, y # g PROVE Enumerated(y)'
  <2>1. y \in Objects BY Kinds
  <2>2. object'[y] = object[y] BY <1>1, <1>2, <1>7, <2>1
  <2> QED BY <1>1, <1>3, <2>2, LeftAlone DEF Enumerations
<1>8. Enumerated(h)'
  <2>1. ~PartlyRead(h)' BY <1>3, <1>4, <1>6 DEF PartlyRead, Work
  <2>2. o.pending # <<>> => o.headerDone BY <1>3, <1>4 DEF Enumerated
  <2>3. o.kind = "Multi" => Whole(o) /\ Continues(o, stream)
    BY <1>3, <1>4 DEF Enumerated, Whole, Continues
  <2> QED BY <1>1, <1>6, <2>1, <2>2, <2>3 DEF Enumerated
<1>9. Enumerated(g)'
  <2>1. ~PartlyRead(g)' BY <1>5, <1>6 DEF PartlyRead, Work
  <2>2. p.kind = "Multi" => Whole(p)
    <3> SUFFICES ASSUME p.kind = "Multi" PROVE Whole(p) OBVIOUS
    <3>1. Whole(object[g]) BY <1>3, <1>5 DEF Enumerated
    <3>2. Len(<<>>) = 0 /\ 1..0 = {} OBVIOUS
    <3>3. /\ object[g].taken \in Nat /\ object[g].count \in Int
          /\ object[g].total \in Int /\ Len(object[g].pending) \in Nat
      BY <1>2, LenProperties DEF Object
    <3>4. p.taken + Len(p.pending) + p.count = p.total
      BY <1>5, <3>1, <3>2, <3>3 DEF Whole
    <3> QED BY <1>5, <3>1, <3>2, <3>4 DEF Whole
  <2>3. Continues(p, stream') BY <1>5 DEF Continues
  <2> QED BY <1>5, <1>6, <2>1, <2>2, <2>3 DEF Enumerated
<1>10. \A y \in Handles : Enumerated(y)' BY <1>7, <1>8, <1>9
<1> QED BY <1>1, <1>10 DEF Enumerations, Idle

-----------------------------------------------------------------------------
(* Reading                                                                 *)

\* What the reading of x leaves alone, when the call goes on or was for one
\* answer only.
LEMMA OthersEnumerated ==
    ASSUME RedisppAssumption, RedisppTypeOK, Shapes, InOrder, Enumerations,
           NEW x \in Handles, Now(x), NEW o, object' = [object EXCEPT ![x] = o],
           call' = call \/ Over(x) \/ (Throw /\ (object[x].kind # "Multi" \/ Plain)),
           NEW y \in Handles, y # x
    PROVE  Enumerated(y)'
<1>1. object'[y] = object[y]
  <2>1. x \in Objects /\ y \in Objects BY DEF Objects
  <2> QED BY <2>1 DEF RedisppTypeOK
<1>2. ~(Work(y) /\ object[y].headerDone) BY ReaderInFront
<1>3. Enumerated(y) BY DEF Enumerations
<1>4. ~PartlyRead(y) BY <1>2, <1>3 DEF PartlyRead, Enumerated
<1>5. ASSUME object[y].kind = "Multi", Given(y) PROVE Given(y)'
  <2>1. call.on = y /\ call.op \in {"destroy", "assign"} BY <1>5 DEF Given
  <2>2. ~Clears BY <1>5, <2>1 DEF Clears
  <2>3. x = y BY <2>1, <2>2 DEF Now, Readers
  <2> QED BY <2>3
<1> QED BY <1>1, <1>2, <1>3, <1>4, <1>5, LeftAlone

\* result() is asked of the same object, or of none.
LEMMA StillSimple ==
    ASSUME RedisppTypeOK, Shapes, Enumerations,
           \A y \in Objects : object'[y].kind = object[y].kind,
           \/ call' = call \/ call' = Idle
           \/ call' = [call EXCEPT !.status = "threw"]
    PROVE  call'.op = "result" => object'[call'.on].kind # "Multi"
<1>1. ASSUME call'.op = "result" PROVE call.op = "result" /\ call'.on = call.on
  BY <1>1 DEF Idle, RedisppTypeOK
<1>2. call.op = "result" => call.on \in Objects
  BY Kinds DEF Shapes, CallShape, Ending, Idle
<1> QED BY <1>1, <1>2 DEF Enumerations

LEMMA SimpleEnumerated ==
    ASSUME RedisppAssumption, RedisppTypeOK, Shapes, InOrder, Enumerations,
           NEW x \in Objects, ReadSimple(x)
    PROVE  Enumerations'
<1>1. /\ x \in Handles /\ object[x].kind \in SimpleKind /\ Now(x) /\ object[x] \in Object
      /\ object \in [Objects -> Object]
  <2>1. object[Queued].kind \notin SimpleKind BY Kinds DEF Shapes, ObjectShape, SimpleKind
  <2> QED BY <2>1, Kinds DEF ReadSimple, RedisppTypeOK
<1>2. PICK o : /\ object' = [object EXCEPT ![x] = o]
               /\ o.kind = object[x].kind /\ o.pending = object[x].pending
               /\ (o.headerDone = object[x].headerDone) /\ ~o.conn
  <2> DEFINE u == Unlinked(object[x])
  <2>1. CASE object' = [object EXCEPT ![x] = [u EXCEPT !.value = Received]]
    <3> DEFINE o == [u EXCEPT !.value = Received]
    <3>1. /\ u \in Object /\ u.kind = object[x].kind /\ u.pending = object[x].pending
          /\ (u.headerDone = object[x].headerDone) /\ ~u.conn
      BY <1>1, UnlinkedIsObject DEF Unlinked, Object
    <3> HIDE DEF u
    <3>2. /\ o.kind = u.kind /\ o.pending = u.pending
          /\ (o.headerDone = u.headerDone) /\ ~o.conn
      BY <3>1 DEF Object
    <3> HIDE DEF o
    <3>3. object' = [object EXCEPT ![x] = o] BY <2>1 DEF o
    <3> QED BY <3>1, <3>2, <3>3
  <2>2. CASE object' = [object EXCEPT ![x] = [object[x] EXCEPT !.conn = FALSE]]
    <3> DEFINE o == [object[x] EXCEPT !.conn = FALSE]
    <3>1. /\ o.kind = object[x].kind /\ o.pending = object[x].pending
          /\ (o.headerDone = object[x].headerDone) /\ ~o.conn
      BY <1>1 DEF Object
    <3> HIDE DEF o
    <3>2. object' = [object EXCEPT ![x] = o] BY <2>2 DEF o
    <3> QED BY <3>1, <3>2
  <2> QED BY <1>1, <2>1, <2>2 DEF ReadSimple
<1>3. call' = call \/ Over(x) \/ (Throw /\ object[x].kind # "Multi")
  BY <1>1 DEF ReadSimple, SimpleKind
<1>4. ASSUME NEW y \in Handles, y # x PROVE Enumerated(y)'
  BY <1>1, <1>2, <1>3, <1>4, OthersEnumerated
<1>5. object'[x] = o BY <1>1, <1>2
<1>6. Enumerated(x)'
  <2>1. o.pending # <<>> => o.headerDone BY <1>1, <1>2 DEF Enumerations, Enumerated
  <2>2. o.kind # "Multi" BY <1>1, <1>2 DEF SimpleKind
  <2>3. ~PartlyRead(x)' BY <1>2, <1>5 DEF PartlyRead, Work
  <2> QED BY <1>5, <2>1, <2>2, <2>3 DEF Enumerated
<1>7. \A y \in Objects : object'[y].kind = object[y].kind BY <1>1, <1>2, <1>5
<1>8. call'.op = "result" => object'[call'.on].kind # "Multi"
  BY <1>3, <1>7, StillSimple DEF Over, Throw
<1> QED BY <1>4, <1>6, <1>8 DEF Enumerations

\* The line behind the first one is the next of the same answer.
LEMMA NextIndex ==
    ASSUME NEW s \in Seq(Line), Numbered(s), NEW c, NEW n \in Nat, n > 0, Block(s, c, 1, n),
           \A i \in 2..(n + 1) : s[i].kind = "bulk"
    PROVE  Tail(s)[1].idx = s[1].idx + 1 /\ (s[1].kind = "multi" => s[1].idx = 0)
<1>1. Len(s) \in Nat /\ 1 + n <= Len(s) /\ Tail(s)[1] = s[1 + 1]
  <2>1. 1 \in 1..n OBVIOUS
  <2> QED BY <2>1, TailBlock, LenProperties DEF Block
<1>2. 1 \in 1..Len(s) /\ 2 \in 1..Len(s) /\ 2 \in 2..(n + 1) BY <1>1
<1>3. s[1].of = c /\ s[2].of = c BY <1>2 DEF Block
<1>4. s[2].kind = "bulk" BY <1>2
<1>5. s[2].idx = s[1].idx + 1 /\ (s[1].kind = "multi" => s[1].idx = 0)
  <2>1. \A i, j \in 1..Len(s) :
           j = i + 1 /\ s[j].of = s[i].of /\ s[j].kind = "bulk" =>
              s[j].idx = s[i].idx + 1 /\ (s[i].kind = "multi" => s[i].idx = 0)
    BY DEF Numbered
  <2>2. 2 = 1 + 1 OBVIOUS
  <2> QED BY <1>2, <1>3, <1>4, <2>1, <2>2
<1> QED BY <1>1, <1>5

LEMMA HeaderEnumerated ==
    ASSUME RedisppAssumption, RedisppTypeOK, Shapes, InOrder, ~bad, ~bad', LinesNumbered,
           Enumerations, NEW x \in Objects, ReadHeader(x)
    PROVE  Enumerations'
<1>1. /\ x \in Handles /\ object[x].kind = "Multi" /\ Now(x) /\ ~object[x].headerDone
      /\ ReadLine("multi")
  <2>1. object[Queued].kind # "Multi" BY Kinds DEF Shapes, ObjectShape
  <2> QED BY <2>1 DEF ReadHeader, Objects
<1>2. PICK n \in 0..Len(stream) : /\ Block(stream, object[x].cmd, 1, n)
                                  /\ Shape(stream, object[x], 1, n)
  BY <1>1, ReaderOwnsHead
<1>3. stream # <<>> /\ stream \in Seq(Line) BY <1>1, ReaderOwnsHead DEF RedisppTypeOK
<1>4. Head(stream) = stream[1] /\ n \in Nat BY <1>2, <1>3, HeadIsFirst
<1>5. ~Jams("multi", stream, bad) BY <1>1 DEF ReadLine
<1>6. stream[1].kind # "error" BY <1>4, <1>5 DEF Jams
<1>7. /\ stream[1].kind = "multi" /\ stream[1].n = n
      /\ \A i \in 2..(n + 1) : stream[i].kind = "bulk"
  BY <1>1, <1>2, <1>4, <1>6 DEF Shape, SimpleKind
<1>8. stream' = Tail(stream) BY <1>1, <1>3, <1>4, <1>7, LineGone
<1>9. Announced = n /\ Accepted("multi")
  BY <1>3, <1>4, <1>5, <1>7 DEF Announced, Accepted, Accepts, Exhausted, Wanted
<1>10. object[x] \in Object /\ object \in [Objects -> Object] BY DEF RedisppTypeOK
<1> DEFINE p == [object[x] EXCEPT !.headerDone = TRUE, !.count = n, !.total = n]
           o == IF n = 0 THEN Unlinked(p) ELSE p
<1>11. /\ object' = [object EXCEPT ![x] = o]
       /\ call' = call \/ Over(x)
  BY <1>9, <1>10 DEF ReadHeader
<1>12. ~Given(x)
  <2> SUFFICES ASSUME Given(x) PROVE FALSE OBVIOUS
  <2>1. call.on = x /\ call.op \in {"destroy", "assign"} BY DEF Given
  <2>2. ~Clears BY <1>1, <2>1 DEF Clears
  <2>3. object[x].count > 0 BY <1>1, <2>1, <2>2 DEF Now, Readers, Drains
  <2>4. object[x].count = 0 \/ x = Queued BY <1>1, Fields
  <2> QED BY <1>1, <2>3, <2>4 DEF RedisppAssumption
<1>13. /\ object[x].taken = 0 /\ object[x].pending = <<>> /\ object[x].value = NoLine
  BY <1>1, <1>12 DEF Enumerations, Enumerated, Whole
<1>14. /\ o.kind = "Multi" /\ o.cmd = object[x].cmd /\ o.headerDone /\ o.count = n
       /\ o.total = n /\ o.taken = 0 /\ o.pending = <<>> /\ o.value = NoLine
  <2>1. /\ p.kind = "Multi" /\ p.cmd = object[x].cmd /\ p.headerDone /\ p.count = n
        /\ p.total = n /\ p.taken = 0 /\ p.pending = <<>> /\ p.value = NoLine
    BY <1>1, <1>10, <1>13 DEF Object
  <2> DEFINE u == Unlinked(p)
  <2>2. /\ u.kind = "Multi" /\ u.cmd = object[x].cmd /\ u.headerDone /\ u.count = n
        /\ u.total = n /\ u.taken = 0 /\ u.pending = <<>> /\ u.value = NoLine
    BY <1>1, <1>10, <1>13 DEF Unlinked, Object
  <2> HIDE DEF p, u
  <2>3. o = u \/ o = p BY DEF u
  <2> HIDE DEF o
  <2> QED BY <2>1, <2>2, <2>3
<1> HIDE DEF o, p
<1>15. object'[x] = o BY <1>10, <1>11
<1>16. Whole(o)
  <2>1. Len(<<>>) = 0 /\ 1..0 = {} /\ 0 + 0 + n = n BY <1>4
  <2> QED BY <1>14, <2>1 DEF Whole
<1>17. Continues(o, stream')
  <2> SUFFICES ASSUME n > 0 PROVE stream'[1].idx = 0 + 0 + 1
    <3>1. Len(<<>>) = 0 OBVIOUS
    <3> QED BY <1>14, <3>1 DEF Continues
  <2>1. Numbered(stream) BY DEF LinesNumbered
  <2>2. Tail(stream)[1].idx = stream[1].idx + 1 /\ stream[1].idx = 0
    BY <1>2, <1>3, <1>4, <1>7, <2>1, NextIndex
  <2>3. stream'[1].idx = 0 + 1 BY <1>8, <2>2
  <2> QED BY <2>3
<1>18. Enumerated(x)' BY <1>14, <1>15, <1>16, <1>17 DEF Enumerated, PartlyRead
<1>19. ASSUME NEW y \in Handles, y # x PROVE Enumerated(y)'
  BY <1>1, <1>11, <1>19, OthersEnumerated
<1>20. \A y \in Objects : object'[y].kind = object[y].kind BY <1>1, <1>10, <1>11, <1>14
<1>21. call'.op = "result" => object'[call'.on].kind # "Multi"
  BY <1>11, <1>20, StillSimple DEF Over
<1> QED BY <1>18, <1>19, <1>21 DEF Enumerations

\* What a reader of elements finds, and what it leaves for the next one.
LEMMA ElementComes ==
    ASSUME RedisppAssumption, RedisppTypeOK, Shapes, InOrder, ~bad, ~bad', LinesNumbered,
           NEW x \in Handles, Now(x), object[x].kind = "Multi", object[x].headerDone,
           ReadLine("bulk")
    PROVE  /\ Accepted("bulk") /\ Head(stream).kind # "nil"
           /\ Received = stream[1] /\ stream[1] \in Line /\ stream[1].of = object[x].cmd
           /\ stream # <<>> /\ Work(x)
           /\ object[x].count - 1 > 0 => stream'[1].idx = stream[1].idx + 1
<1>1. PICK n \in 0..Len(stream) : /\ Block(stream, object[x].cmd, 1, n)
                                  /\ Shape(stream, object[x], 1, n)
  BY ReaderOwnsHead
<1>2. /\ stream # <<>> /\ stream \in Seq(Line) /\ stream[1].of = object[x].cmd
      /\ Work(x)
  BY ReaderOwnsHead DEF RedisppTypeOK, Owners, Outsiders, Waiting
<1>3. Head(stream) = stream[1] /\ stream[1] \in Line /\ n \in Nat BY <1>1, <1>2, HeadIsFirst
<1>4. /\ object[x].count = n + 1
      /\ \A i \in 1..(n + 1) : stream[i].kind = "bulk"
  BY <1>1, <1>3 DEF Shape, SimpleKind
<1>5. stream[1].kind = "bulk" BY <1>3, <1>4
<1>6. stream' = Tail(stream) BY <1>2, LineGone
<1>7. Accepted("bulk") /\ Head(stream).kind # "nil"
  BY <1>2, <1>3, <1>5 DEF Accepted, Accepts, Exhausted, Wanted
<1>8. Received = stream[1] BY <1>3 DEF Received
<1>9. ASSUME object[x].count - 1 > 0 PROVE stream'[1].idx = stream[1].idx + 1
  <2>1. n > 0 BY <1>3, <1>4, <1>9
  <2>2. \A i \in 2..(n + 1) : stream[i].kind = "bulk" BY <1>3, <1>4
  <2>3. Numbered(stream) BY DEF LinesNumbered
  <2> QED BY <1>1, <1>2, <1>3, <1>6, <2>1, <2>2, <2>3, NextIndex
<1> QED BY <1>2, <1>3, <1>7, <1>8, <1>9

LEMMA OneLessFields ==
    ASSUME NEW q \in Object
    PROVE  LET o == OneLess(q) IN
           /\ o \in Object /\ o.kind = q.kind /\ o.cmd = q.cmd /\ (o.conn = q.conn)
           /\ o.place = q.place /\ (o.headerDone = q.headerDone) /\ o.count = q.count - 1
           /\ o.pending = q.pending /\ o.value = q.value /\ o.taken = q.taken
           /\ o.total = q.total
<1>1. OneLess(q) \in Object BY UnlinkedIsObject
<1>2. q.count \in Int BY DEF Object
<1> DEFINE d == q.count - 1
<1>3. d \in Int BY <1>2
<1> HIDE DEF d
<1>4. OneLess(q) = [q EXCEPT !.count = d] BY DEF OneLess, d
<1> QED BY <1>1, <1>3, <1>4 DEF Object, d

\* next() hands out the next element of the answer.
LEMMA ElementEnumerated ==
    ASSUME RedisppAssumption, RedisppTypeOK, Shapes, InOrder, ~bad, ~bad', LinesNumbered,
           Enumerations, NEW x \in Objects, ReadElement(x)
    PROVE  Enumerations'
<1>1. /\ x \in Handles /\ object[x].kind = "Multi" /\ Now(x) /\ object[x].headerDone
      /\ ReadLine("bulk") /\ x = call.on /\ call.op = "next"
  <2>1. object[Queued].kind # "Multi" BY Kinds DEF Shapes, ObjectShape
  <2> QED BY <2>1 DEF ReadElement, Objects
<1>2. object[x] \in Object /\ object \in [Objects -> Object] BY DEF RedisppTypeOK
<1> DEFINE q == object[x]
           l == OneLess(q)
           o == HandOut(l, stream[1])
<1>3. /\ Accepted("bulk") /\ Received = stream[1] /\ stream[1] \in Line
      /\ stream[1].of = q.cmd /\ stream # <<>> /\ Work(x)
      /\ q.count - 1 > 0 => stream'[1].idx = stream[1].idx + 1
  BY <1>1, ElementComes
<1>4. object' = [object EXCEPT ![x] = o] /\ Over(x)
  BY <1>2, <1>3 DEF ReadElement
<1>5. /\ l \in Object /\ l.kind = q.kind /\ l.cmd = q.cmd /\ (l.conn = q.conn)
      /\ (l.headerDone = q.headerDone) /\ l.count = q.count - 1
      /\ l.pending = q.pending /\ l.taken = q.taken /\ l.total = q.total
  BY <1>2, OneLessFields
<1>6. /\ q.count \in Int /\ q.taken \in Nat /\ q.total \in Int /\ q.conn /\ q.count > 0
      /\ stream[1].idx \in Nat
  BY <1>1, <1>2, <1>3 DEF Object, Work, Line
<1>7. ~Given(x) /\ ~Clears BY <1>1 DEF Given, Clears
<1>8. q.pending = <<>>
  BY <1>3, <1>7, <1>1, NobodyReadsAhead DEF PartlyRead
<1>9. Whole(q) /\ Continues(q, stream) BY <1>1, <1>7 DEF Enumerations, Enumerated
<1>10. Len(<<>>) = 0 /\ 1..0 = {} OBVIOUS
<1>11. stream[1].idx = q.taken + 1
  BY <1>1, <1>3, <1>6, <1>8, <1>9, <1>10 DEF Continues
<1> HIDE DEF l
<1>12. /\ o.kind = "Multi" /\ o.cmd = q.cmd /\ o.headerDone /\ o.count = q.count - 1
       /\ o.pending = <<>> /\ o.taken = q.taken + 1 /\ o.total = q.total
       /\ o.value = stream[1]
  <2> DEFINE line == stream[1]
             t == l.taken + 1
  <2>1. o = [l EXCEPT !.value = line, !.taken = t] BY DEF HandOut
  <2> HIDE DEF line, t, o
  <2>2. /\ o.kind = l.kind /\ o.cmd = l.cmd /\ (o.headerDone = l.headerDone)
        /\ o.count = l.count /\ o.pending = l.pending /\ o.taken = t
        /\ o.total = l.total /\ o.value = line
    BY <1>5, <2>1 DEF Object
  <2> QED BY <1>1, <1>5, <1>8, <2>2 DEF line, t
<1>13. object'[x] = o BY <1>2, <1>4
<1> HIDE DEF o
<1>14. Whole(o)
  <2>1. q.taken + 0 + q.count = q.total BY <1>8, <1>9, <1>10 DEF Whole
  <2>2. o.taken + 0 + o.count = o.total BY <1>6, <1>12, <2>1
  <2> QED BY <1>10, <1>11, <1>12, <2>2 DEF Whole
<1>15. Continues(o, stream')
  <2> SUFFICES ASSUME o.count > 0 PROVE stream'[1].idx = o.taken + 0 + 1
    BY <1>10, <1>12 DEF Continues
  <2>1. stream'[1].idx = stream[1].idx + 1 BY <1>3, <1>12
  <2> QED BY <1>6, <1>11, <1>12, <2>1
<1>16. Enumerated(x)' BY <1>12, <1>13, <1>14, <1>15 DEF Enumerated, PartlyRead
<1>17. ASSUME NEW y \in Handles, y # x PROVE Enumerated(y)'
  BY <1>1, <1>4, <1>17, OthersEnumerated
<1>18. \A y \in Objects : object'[y].kind = object[y].kind BY <1>1, <1>2, <1>4, <1>12, <1>13
<1>19. call'.op = "result" => object'[call'.on].kind # "Multi"
  BY <1>4, <1>18, StillSimple DEF Over
<1> QED BY <1>16, <1>17, <1>19 DEF Enumerations

\* A destructor or operator= reads the rest, which nobody gets.
LEMMA DrainEnumerated ==
    ASSUME RedisppAssumption, RedisppTypeOK, Shapes, InOrder, ~bad, ~bad', LinesNumbered,
           Enumerations, NEW x \in Objects, DrainElement(x)
    PROVE  Enumerations'
<1>1. /\ x \in Handles /\ object[x].kind = "Multi" /\ Now(x) /\ object[x].headerDone
      /\ ReadLine("bulk") /\ x = call.on /\ call.op # "next" /\ call.status = "reading"
  <2>1. object[Queued].kind # "Multi" BY Kinds DEF Shapes, ObjectShape
  <2> QED BY <2>1 DEF DrainElement, Objects, Now
<1>2. object[x] \in Object /\ object \in [Objects -> Object] BY DEF RedisppTypeOK
<1> DEFINE q == object[x]
           l == OneLess(q)
           o == LeaveAtEnd(l)
<1>3. /\ Accepted("bulk") /\ Head(stream).kind # "nil" /\ Work(x)
  BY <1>1, ElementComes
<1>4. object' = [object EXCEPT ![x] = o] /\ call' = call
  BY <1>2, <1>3 DEF DrainElement
<1>5. call.op \in {"destroy", "assign"}
  <2>1. Asking BY <1>1, ReaderOwnsHead
  <2> QED BY <1>1, <2>1 DEF Enumerations, Asking
<1>6. Given(x)' BY <1>1, <1>4, <1>5 DEF Given
<1>7. q.pending = <<>>
  <2>1. ~Clears BY <1>1 DEF Clears
  <2> QED BY <1>1, <1>3, <2>1, NobodyReadsAhead DEF PartlyRead
<1>8. l \in Object /\ l.kind = q.kind /\ l.pending = q.pending
  BY <1>2, OneLessFields
<1> HIDE DEF l
<1>9. o.kind = "Multi" /\ o.pending = <<>>
  BY <1>1, <1>7, <1>8 DEF LeaveAtEnd, Unlinked, Object
<1>10. object'[x] = o BY <1>2, <1>4
<1> HIDE DEF o
<1>11. Enumerated(x)' BY <1>6, <1>9, <1>10 DEF Enumerated, PartlyRead
<1>12. ASSUME NEW y \in Handles, y # x PROVE Enumerated(y)'
  BY <1>1, <1>4, <1>12, OthersEnumerated
<1>13. \A y \in Objects : object'[y].kind = object[y].kind BY <1>1, <1>2, <1>4, <1>9, <1>10
<1>14. call'.op = "result" => object'[call'.on].kind # "Multi"
  BY <1>4, <1>13, StillSimple
<1> QED BY <1>11, <1>12, <1>14 DEF Enumerations

\* Elements are put aside in the order in which they come.
LEMMA AheadEnumerated ==
    ASSUME RedisppAssumption, RedisppTypeOK, Shapes, InOrder, ~bad, ~bad', LinesNumbered,
           Enumerations, NEW x \in Objects, ReadAhead(x)
    PROVE  Enumerations'
<1>1. /\ x \in Handles /\ object[x].kind = "Multi" /\ Now(x) /\ object[x].headerDone
      /\ ReadLine("bulk") /\ x # call.on /\ call.status = "reading"
  <2>1. object[Queued].kind # "Multi" BY Kinds DEF Shapes, ObjectShape
  <2> QED BY <2>1 DEF ReadAhead, Objects, Now
<1>2. /\ object[x] \in Object /\ object \in [Objects -> Object]
      /\ object[x].pending \in Seq(Line)
  BY Fields DEF RedisppTypeOK
<1> DEFINE q == object[x]
           l == OneLess(q)
           m == PutAside(l, stream[1])
           o == LeaveAtEnd(m)
<1>3. /\ Accepted("bulk") /\ Received = stream[1] /\ stream[1] \in Line
      /\ stream[1].of = q.cmd /\ stream # <<>> /\ Work(x)
      /\ q.count - 1 > 0 => stream'[1].idx = stream[1].idx + 1
  BY <1>1, ElementComes
<1>4. object' = [object EXCEPT ![x] = o] /\ call' = call
  BY <1>2, <1>3 DEF ReadAhead
<1>5. /\ l \in Object /\ l.kind = q.kind /\ l.cmd = q.cmd /\ (l.conn = q.conn)
      /\ (l.headerDone = q.headerDone) /\ l.count = q.count - 1 /\ l.place = q.place
      /\ l.pending = q.pending /\ l.taken = q.taken /\ l.total = q.total /\ l.value = q.value
  BY <1>2, OneLessFields
<1>6. /\ q.count \in Int /\ q.taken \in Nat /\ q.total \in Int /\ q.conn /\ q.count > 0
      /\ stream[1].idx \in Nat /\ Len(q.pending) \in Nat
  BY <1>1, <1>2, <1>3, LenProperties DEF Object, Work, Line
<1>7. Clears /\ Earlier(call.on) # {} /\ x \in First(Earlier(call.on))
  BY <1>1 DEF Now, Readers
<1>8. ~Given(x) BY <1>1 DEF Given
<1>9. Whole(q) /\ Continues(q, stream) BY <1>1, <1>8 DEF Enumerations, Enumerated
<1>10. stream[1].idx = q.taken + Len(q.pending) + 1
  BY <1>1, <1>3, <1>6, <1>9 DEF Continues
<1> DEFINE a == Append(q.pending, stream[1])
<1>11. /\ Len(a) = Len(q.pending) + 1 /\ a # <<>>
       /\ \A i \in 1..Len(a) : a[i].idx = q.taken + i
  <2>1. /\ Len(a) = Len(q.pending) + 1 /\ a[Len(q.pending) + 1] = stream[1]
        /\ \A i \in 1..Len(q.pending) : a[i] = q.pending[i]
    BY <1>2, <1>3, AppendProperties
  <2> HIDE DEF a
  <2>2. \A i \in 1..Len(a) : i \in 1..Len(q.pending) \/ i = Len(q.pending) + 1
    BY <1>6, <2>1
  <2>3. stream[1].idx = q.taken + (Len(q.pending) + 1) BY <1>6, <1>10
  <2>4. \A i \in 1..Len(q.pending) : a[i].idx = q.taken + i BY <1>9, <2>1 DEF Whole
  <2>5. a # <<>>
    <3>1. Len(<<>>) = 0 OBVIOUS
    <3> QED BY <1>6, <2>1, <3>1
  <2> QED BY <2>1, <2>2, <2>3, <2>4, <2>5
<1> HIDE DEF l
<1>12. /\ o.kind = "Multi" /\ o.cmd = q.cmd /\ o.headerDone /\ o.count = q.count - 1
       /\ o.pending = a /\ o.taken = q.taken /\ o.total = q.total /\ o.value = q.value
       /\ o.conn => o.place = q.place
  <2>1. m = [l EXCEPT !.pending = a] BY <1>5 DEF PutAside
  <2> HIDE DEF a, m
  <2>2. /\ m.kind = l.kind /\ m.cmd = l.cmd /\ (m.headerDone = l.headerDone)
        /\ m.count = l.count /\ m.pending = a /\ m.taken = l.taken
        /\ m.total = l.total /\ m.value = l.value /\ m.place = l.place
    BY <1>5, <2>1 DEF Object
  <2> DEFINE u == Unlinked(m)
  <2>3. /\ u.kind = l.kind /\ u.cmd = l.cmd /\ (u.headerDone = l.headerDone)
        /\ u.count = l.count /\ u.pending = a /\ u.taken = l.taken
        /\ u.total = l.total /\ u.value = l.value /\ ~u.conn
    BY <1>5, <2>1 DEF Unlinked, Object
  <2>4. o = m \/ o = u BY DEF LeaveAtEnd
  <2> HIDE DEF u, o
  <2> QED BY <1>1, <1>5, <2>2, <2>3, <2>4
<1>13. object'[x] = o BY <1>2, <1>4
<1> HIDE DEF o, m
<1>14. Whole(o)
  <2>1. q.taken + Len(q.pending) + q.count = q.total BY <1>9 DEF Whole
  <2>2. o.taken + (Len(q.pending) + 1) + o.count = o.total
    <3>1. o.taken = q.taken /\ o.count = q.count - 1 /\ o.total = q.total BY <1>12
    <3>2. q.taken \in Nat /\ q.count \in Int /\ q.total \in Int /\ Len(q.pending) \in Nat
      BY <1>5, <1>6 DEF Object
    <3>3. \A i, j, k, n \in Int : i + j + k = n => i + (j + 1) + (k - 1) = n OBVIOUS
    <3> HIDE DEF q
    <3>4. q.taken + (Len(q.pending) + 1) + (q.count - 1) = q.total
      BY ONLY <2>1, <3>2, <3>3
    <3> QED BY ONLY <3>1, <3>4
  <2>3. o.value # NoLine => o.value.idx = o.taken BY <1>9, <1>12 DEF Whole
  <2> HIDE DEF a
  <2> QED BY <1>11, <1>12, <2>2, <2>3 DEF Whole
<1>15. Continues(o, stream')
  <2> SUFFICES ASSUME o.count > 0 PROVE stream'[1].idx = o.taken + Len(o.pending) + 1
    BY DEF Continues
  <2>1. stream'[1].idx = stream[1].idx + 1 BY <1>3, <1>12
  <2> HIDE DEF a
  <2>2. o.taken = q.taken /\ Len(o.pending) = Len(q.pending) + 1 BY <1>11, <1>12
  <2>3. q.taken \in Nat /\ Len(q.pending) \in Nat BY <1>6
  <2> QED BY ONLY <1>10, <2>1, <2>2, <2>3
<1> HIDE DEF a
<1>16. Enumerated(x)'
  <2>1. ASSUME PartlyRead(x)'
        PROVE  call'.status = "reading" /\ Clears' /\ (x \in First(Earlier(call.on)))'
    <3>1. /\ call.on \in Objects /\ x \in Objects
      BY <1>1, Kinds DEF Shapes, CallShape, Ending, Idle
    <3>2. \A y \in Objects : y # x => object'[y] = object[y] BY <1>4, <1>2
    <3>3. Clears' BY <1>1, <1>4, <1>7, <3>1, <3>2 DEF Clears
    <3>4. Work(x)' BY <2>1 DEF PartlyRead
    <3>5. object'[x].place = object[x].place BY <1>12, <1>13, <3>4 DEF Work
    <3>6. \A y \in Objects : /\ object'[y].place = object[y].place
                             /\ Work(y)' => Work(y)
      BY <1>3, <3>2, <3>5 DEF Work
    <3>7. Earlier(call.on)' \subseteq Earlier(call.on)
      BY <1>4, <3>1, <3>6 DEF Earlier
    <3>8. x \in Earlier(call.on)'
      <4>1. x \in Earlier(call.on) BY <1>7 DEF First
      <4> QED BY <1>4, <3>1, <3>4, <3>6, <4>1 DEF Earlier
    <3>9. \A y \in Earlier(call.on) : y \in Objects BY DEF Earlier
    <3>10. \A y \in Earlier(call.on)' : object'[x].place <= object'[y].place
      BY <1>7, <3>1, <3>6, <3>7, <3>9 DEF First
    <3> QED BY <1>1, <1>4, <3>3, <3>8, <3>10 DEF First
  <2> QED BY <1>11, <1>12, <1>13, <1>14, <1>15, <2>1 DEF Enumerated
<1>17. ASSUME NEW y \in Handles, y # x PROVE Enumerated(y)'
  BY <1>1, <1>4, <1>17, OthersEnumerated
<1>18. \A y \in Objects : object'[y].kind = object[y].kind BY <1>1, <1>2, <1>4, <1>12, <1>13
<1>19. call'.op = "result" => object'[call'.on].kind # "Multi"
  BY <1>4, <1>18, StillSimple
<1> QED BY <1>16, <1>17, <1>19 DEF Enumerations

\* next() hands out what was put aside first.
LEMMA PendingEnumerated ==
    ASSUME RedisppAssumption, RedisppTypeOK, Shapes, Enumerations, NextPending
    PROVE  Enumerations'
<1> SUFFICES ASSUME NEW x \in Objects, x = call.on PROVE Enumerations'
  BY Kinds DEF NextPending, Shapes, CallShape, Ending, Idle
<1> DEFINE q == object[x]
           f == OneFewer(q)
           line == Head(q.pending)
           o == HandOut(f, line)
<1>1. /\ call.op = "next" /\ q.pending # <<>> /\ call' = Idle /\ stream' = stream
      /\ object' = [object EXCEPT ![x] = o]
  BY DEF NextPending
<1>2. x \in Handles /\ x \in Objects
  BY <1>1, Kinds DEF Shapes, CallShape, Ending, Idle
<1>3. /\ q \in Object /\ object \in [Objects -> Object] /\ q.pending \in Seq(Line)
      /\ q.taken \in Nat /\ q.count \in Int /\ q.total \in Int
  BY <1>2, Fields DEF RedisppTypeOK, Object
<1>4. Enumerated(x) BY <1>2 DEF Enumerations
<1>5. q.headerDone /\ q.kind = "Multi" BY <1>1, <1>2, <1>4, Fields DEF Enumerated
<1>6. ~Clears BY <1>5 DEF Clears
<1>7. \A y \in Handles : ~PartlyRead(y) /\ ~Given(y)
  BY <1>1, <1>6, NobodyReadsAhead DEF Given
<1>8. Whole(q) /\ Continues(q, stream) BY <1>2, <1>4, <1>5, <1>7 DEF Enumerated
<1> DEFINE t == Tail(q.pending)
           k == q.taken + 1
<1>9. /\ line = q.pending[1] /\ Len(q.pending) = Len(t) + 1 /\ Len(t) \in Nat
      /\ \A i \in 1..Len(t) : t[i] = q.pending[i + 1]
  BY <1>1, <1>3, HeadTailProperties, EmptySeq, HeadIsFirst
<1>10. f \in Object /\ line \in Line BY <1>1, <1>3, PendingIsObject
<1>11. /\ f.kind = q.kind /\ f.cmd = q.cmd /\ (f.conn = q.conn)
       /\ (f.headerDone = q.headerDone) /\ f.count = q.count /\ f.pending = t
       /\ f.taken = q.taken /\ f.total = q.total
  <2>1. f = [q EXCEPT !.pending = t] BY DEF OneFewer
  <2> HIDE DEF t, f
  <2> QED BY <1>3, <2>1 DEF Object
<1> HIDE DEF f, line
<1>12. /\ o.kind = q.kind /\ o.cmd = q.cmd /\ (o.conn = q.conn)
       /\ (o.headerDone = q.headerDone) /\ o.count = q.count /\ o.pending = t
       /\ o.taken = k /\ o.total = q.total /\ o.value = line
  <2>1. o = [f EXCEPT !.value = line, !.taken = k] BY <1>11 DEF HandOut
  <2> HIDE DEF t, k, o
  <2> QED BY <1>10, <1>11, <2>1 DEF Object
<1>13. object'[x] = o BY <1>1, <1>2, <1>3
<1> HIDE DEF o, t
<1>14. /\ \A i \in 1..Len(q.pending) : q.pending[i].idx = q.taken + i
       /\ q.taken + Len(q.pending) + q.count = q.total
  BY <1>8 DEF Whole
<1>24. k \in Int /\ k = q.taken + 1 BY <1>3
<1> HIDE DEF q, k
<1>15. line.idx = q.taken + 1
  <2>1. 1 \in 1..Len(q.pending) BY <1>9
  <2> QED BY ONLY <1>9, <1>14, <2>1
<1>16. \A i \in 1..Len(t) : t[i].idx = k + i
  <2> SUFFICES ASSUME NEW i \in 1..Len(t) PROVE t[i].idx = k + i OBVIOUS
  <2>1. i + 1 \in 1..Len(q.pending) BY <1>9
  <2>2. t[i].idx = q.taken + (i + 1) BY <1>9, <1>14, <2>1
  <2>3. \A b \in Nat : b + 1 + i = b + (i + 1) OBVIOUS
  <2>4. q.taken \in Nat /\ k = q.taken + 1 BY <1>3, <1>24
  <2>5. k + i = q.taken + (i + 1) BY ONLY <2>3, <2>4
  <2> QED BY ONLY <2>2, <2>5
<1>17. k + Len(t) + q.count = q.total /\ k + Len(t) = q.taken + Len(q.pending)
  <2>1. \A b, i, j, n \in Int : b + (i + 1) + j = n => (b + 1) + i + j = n OBVIOUS
  <2>2. \A b, i \in Int : (b + 1) + i = b + (i + 1) OBVIOUS
  <2>3. q.taken \in Int /\ q.count \in Int /\ q.total \in Int /\ Len(t) \in Int
    BY <1>3, <1>9
  <2>4. q.taken + (Len(t) + 1) + q.count = q.total BY <1>9, <1>14
  <2>5. q.taken + 1 + Len(t) + q.count = q.total BY ONLY <2>1, <2>3, <2>4
  <2>6. q.taken + 1 + Len(t) = q.taken + (Len(t) + 1) BY ONLY <2>2, <2>3
  <2> QED BY ONLY <1>24, <1>9, <2>5, <2>6
<1>18. Whole(o)
  <2>1. o.headerDone /\ o.value.idx = o.taken BY <1>5, <1>12, <1>15, <1>24
  <2> QED BY <1>12, <1>16, <1>17, <2>1 DEF Whole
<1>19. Continues(o, stream')
  <2>1. Continues(q, stream) BY <1>8
  <2> QED BY <1>1, <1>12, <1>17, <2>1 DEF Continues
<1>20. ~PartlyRead(x)'
  <2>1. ~Work(x) BY <1>1, <1>2, <1>7 DEF PartlyRead, q
  <2>2. ~Work(x)' BY <1>12, <1>13, <2>1 DEF Work, q
  <2> QED BY <2>2 DEF PartlyRead
<1>21. Enumerated(x)' BY <1>5, <1>12, <1>13, <1>18, <1>19, <1>20 DEF Enumerated
<1>22. ASSUME NEW y \in Handles, y # x PROVE Enumerated(y)'
  <2>1. y \in Objects BY Kinds
  <2>2. object'[y] = object[y] BY <1>1, <1>2, <1>3, <1>22, <2>1
  <2> QED BY <1>1, <1>7, <2>2, LeftAlone DEF Enumerations
<1>23. \A y \in Handles : Enumerated(y)' BY <1>21, <1>22
<1> QED BY <1>1, <1>23 DEF Enumerations, Idle

\* The answers to the commands of a transaction are not read before its
\* statuses and its verdict.
LEMMA QueuedEnumerated ==
    ASSUME RedisppAssumption, RedisppTypeOK, Shapes, InOrder, ~bad, ~bad', Enumerations,
           InStep', ReadStatuses \/ ReadVerdict
    PROVE  Enumerations'
<1> DEFINE q == object[Queued]
           n == q.count - q.taken
<1>1. /\ EndingTransaction /\ Work(Queued) /\ transaction # "Dirty" /\ Ending
      /\ \E o : object' = [object EXCEPT ![Queued] = o]
  <2>1. Now(Queued) BY DEF ReadStatuses, ReadVerdict
  <2>2. CASE ReadStatuses
    <3>1. \/ object' = [object EXCEPT ![Queued].taken = @ + 1,
                           ![Queued].conn = transaction # "Dirty" \/ q.taken < q.count]
          \/ object' = [object EXCEPT ![Queued].conn = FALSE]
      BY <2>2 DEF ReadStatuses
    <3>2. Queued \in Objects BY Kinds
    <3> QED BY <2>1, <3>1, <3>2, QueuedReads DEF RedisppTypeOK
  <2>3. CASE ReadVerdict
    <3>1. object' = [object EXCEPT ![Queued].conn = FALSE, ![Queued].taken = @ + 1]
      BY <2>3 DEF ReadVerdict
    <3>2. Queued \in Objects BY Kinds
    <3> QED BY <2>1, <3>1, <3>2, QueuedReads DEF RedisppTypeOK
  <2> QED BY <2>2, <2>3
<1>2. /\ Queued \in Objects /\ Queued \notin Handles /\ stream \in Seq(Line)
      /\ Len(stream) \in Nat /\ q.count \in Int /\ q.taken \in Nat
      /\ object \in [Objects -> Object] /\ q.conn
      /\ \A y \in Handles : y \in Objects /\ y # Queued
  BY <1>1, Fields, Kinds, LenProperties DEF Work, RedisppAssumption, RedisppTypeOK
<1>3. call.op \in {"commit", "abort", "end"} /\ ~Clears BY <1>1 DEF Ending, Clears
<1>4. \A y \in Handles : object'[y] = object[y] /\ ~PartlyRead(y) /\ ~Given(y)
  BY <1>1, <1>2, <1>3, NobodyReadsAhead DEF Given
<1>5. call'.op # "result"
  <2>1. call' = call \/ call' = Idle \/ (\E s : call' = [call EXCEPT !.status = s])
    <3>1. CASE ReadStatuses BY <3>1 DEF ReadStatuses, Throw
    <3>2. CASE ReadVerdict BY <3>2 DEF ReadVerdict, Throw, Over
    <3> QED BY <3>1, <3>2
  <2> QED BY <1>3, <2>1 DEF Idle, RedisppTypeOK
<1>6. n \in Int /\ n >= -1 /\ Block(stream, q.cmd, 1, n + 1)
  BY <1>1, <1>2 DEF EndingTransaction
<1> HIDE DEF n
<1>7. stream # <<>> /\ 1 \in 1..Len(stream) /\ stream[1].of = q.cmd
  <2>1. 1 <= Len(stream) BY <1>2, <1>6 DEF Block
  <2>2. stream # <<>> BY <1>2, <2>1, EmptySeq
  <2>3. stream[1].of = q.cmd BY <1>2, <1>6, <2>1 DEF Block
  <2> QED BY <1>2, <2>1, <2>2, <2>3
<1>8. ASSUME NEW y \in Handles, Work(y), object[y].headerDone, stream' # <<>>
      PROVE  stream'[1].of # object[y].cmd
  <2>1. object[y].conn /\ object[y].cmd # q.cmd
    BY <1>2, <1>8 DEF Work, Shapes, Distinct
  <2>2. CASE n = -1
    <3>1. ~Refused(stream, 1, -1) BY DEF Refused
    <3>2. Aligned(stream, Waiting, object)
      BY <1>1, <2>2, <3>1 DEF EndingTransaction, n
    <3>3. /\ y \in Waiting \cap Handles /\ object[y].cmd \in Int
          /\ object[y].kind = "Multi"
      BY <1>2, <1>8, Fields DEF Waiting
    <3> HIDE DEF Waiting
    <3>4. stream[1].of = object[y].cmd BY <1>2, <1>8, <3>2, <3>3, HeadOwner
    <3> QED BY <1>7, <2>1, <3>4
  <2>3. CASE n # -1
    <3>1. n \in Nat BY <1>6, <2>3
    <3>2. ReadStatuses
      <4>1. ~(q.taken > q.count) BY <1>2, <3>1 DEF n
      <4> QED BY <4>1 DEF ReadVerdict
    <3>3. stream' = Tail(stream)
      <4>1. ReadLine("status") BY <3>2 DEF ReadStatuses
      <4>2. Statuses(stream, 1, n) BY <1>1 DEF EndingTransaction, n
      <4>3. stream[1].kind \in {"status", "error"}
        <5>1. 1 \in 1..(1 + n) BY <3>1
        <5> QED BY <4>2, <5>1 DEF Statuses
      <4>4. Head(stream) = stream[1] BY <1>2, <1>7, HeadIsFirst
      <4> QED BY <1>7, <4>1, <4>3, <4>4, LineGone
    <3>4. Block(Tail(stream), q.cmd, 1, n)
      <4>1. n + 1 \in Nat /\ n + 1 > 0 /\ (n + 1) - 1 = n BY <3>1
      <4> QED BY ONLY <1>2, <1>6, <4>1, TailBlock
    <3>5. stream'[1].of = q.cmd
      <4> HIDE DEF q
      <4>1. stream' \in Seq(Line) BY <1>2, <1>7, <3>3, HeadTailProperties
      <4>2. Len(stream') \in Nat /\ 1 + n <= Len(stream')
        BY <3>3, <3>4, <4>1, LenProperties DEF Block
      <4>3. 1 \in 1..Len(stream') /\ 1 <= 1 + n BY <3>1, <4>2
      <4> QED BY <3>3, <3>4, <4>3 DEF Block
    <3> QED BY <2>1, <3>5
  <2> QED BY <2>2, <2>3
<1>9. ASSUME NEW y \in Handles PROVE Enumerated(y)'
  BY <1>4, <1>8, LeftAlone DEF Enumerations
<1> QED BY <1>5, <1>9 DEF Enumerations

-----------------------------------------------------------------------------
(* The end of a call                                                       *)

\* Nobody is left in the middle of its elements.
LEMMA NobodyLeft ==
    ASSUME Enumerations, Ended \/ call.status = "mismatch", NEW y \in Handles
    PROVE  ~PartlyRead(y)
<1> SUFFICES ASSUME PartlyRead(y) PROVE FALSE OBVIOUS
<1>1. call.status = "reading" /\ Clears /\ y \in First(Earlier(call.on))
  BY DEF Enumerations, Enumerated
<1>2. y \in Readers BY <1>1 DEF Readers, First
<1> QED BY <1>1, <1>2 DEF Ended

LEMMA ReturnEnumerated ==
    ASSUME RedisppAssumption, RedisppTypeOK, Shapes, Enumerations, Return
    PROVE  Enumerations'
<1> DEFINE x == call.on
           u == Unlinked(object[x])
<1>1. /\ call' = Idle /\ stream' = stream /\ Plain
      /\ \/ object' = object
         \/ call.op = "next" /\ object' = [object EXCEPT ![x] = u]
  BY DEF Return
<1>2. \A y \in Handles : /\ ~PartlyRead(y) /\ ~Given(y) /\ Enumerated(y)
                         /\ y \in Objects /\ object[y] \in Object
  BY <1>1, NobodyLeft, Kinds DEF Return, Plain, Given, Enumerations
<1>3. ASSUME NEW y \in Handles, object'[y] = object[y] PROVE Enumerated(y)'
  BY <1>1, <1>2, <1>3, LeftAlone
<1>4. ASSUME NEW y \in Handles, object'[y] = Unlinked(object[y]) PROVE Enumerated(y)'
  <2> DEFINE o == Unlinked(object[y])
             q == object[y]
  <2>1. /\ o.kind = q.kind /\ ~o.conn /\ (o.headerDone = q.headerDone)
        /\ o.count = q.count /\ o.pending = q.pending /\ o.value = q.value
        /\ o.taken = q.taken /\ o.total = q.total
    BY <1>2 DEF Unlinked, Object
  <2> HIDE DEF o
  <2>2. object'[y] = o BY <1>4 DEF o
  <2>3. ~PartlyRead(y)' BY <2>1, <2>2 DEF PartlyRead, Work
  <2>4. o.kind = "Multi" => Whole(o) /\ Continues(o, stream')
    <3>1. q.kind = "Multi" => Whole(q) BY <1>2 DEF Enumerated
    <3> HIDE DEF q
    <3>2. Continues(o, stream') BY <2>1 DEF Continues
    <3> QED BY <2>1, <3>1, <3>2 DEF Whole
  <2> QED BY <1>2, <2>1, <2>2, <2>3, <2>4 DEF Enumerated
<1>5. \A y \in Handles : object'[y] = object[y] \/ object'[y] = Unlinked(object[y])
  <2>1. object \in [Objects -> Object] BY DEF RedisppTypeOK
  <2>2. \A y \in Handles : y \in Objects BY <1>2
  <2> HIDE DEF u
  <2>3. \A y \in Handles : object'[y] = object[y] \/ (y = x /\ object'[y] = u)
    BY <1>1, <2>1, <2>2
  <2> QED BY <2>3 DEF u
<1>6. \A y \in Handles : Enumerated(y)' BY <1>3, <1>4, <1>5
<1> QED BY <1>1, <1>6 DEF Enumerations, Idle

LEMMA DestroyedEnumerated ==
    ASSUME RedisppAssumption, RedisppTypeOK, Shapes, Enumerations, Destroyed
    PROVE  Enumerations'
<1> SUFFICES ASSUME NEW x \in Objects, x = call.on PROVE Enumerations'
  BY Kinds DEF Destroyed, Shapes, CallShape, Ending, Idle
<1>1. /\ call' = Idle /\ stream' = stream /\ call.op = "destroy" /\ Ended
      /\ object' = [object EXCEPT ![x] = Free]
  BY DEF Destroyed
<1>2. x \in Handles /\ x \in Objects
  BY <1>1, Kinds DEF Shapes, CallShape, Ending, Idle
<1>3. ASSUME NEW y \in Handles, y # x PROVE Enumerated(y)'
  <2>1. y \in Objects /\ ~PartlyRead(y) /\ ~Given(y)
    BY <1>1, <1>3, Kinds, NobodyLeft DEF Given
  <2>2. object'[y] = object[y] BY <1>1, <1>3, <2>1 DEF RedisppTypeOK
  <2> QED BY <1>1, <2>1, <2>2, LeftAlone DEF Enumerations
<1>4. Enumerated(x)'
  <2>1. object'[x] = Free BY <1>1, <1>2 DEF RedisppTypeOK
  <2> QED BY <1>2, <2>1, NothingHandedOut DEF Free
<1>5. \A y \in Handles : Enumerated(y)' BY <1>3, <1>4
<1> QED BY <1>1, <1>5 DEF Enumerations, Idle

\* Nothing had been read ahead for the object that is assigned.
LEMMA AssignedEnumerated ==
    ASSUME RedisppAssumption, RedisppTypeOK, Shapes, Enumerations, ~bad, InStep', Assigned
    PROVE  Enumerations'
<1> SUFFICES ASSUME NEW h \in Handles, h = call.on, NEW g \in Handles, g = call.from
             PROVE  Enumerations'
  BY DEF Assigned, Shapes, CallShape, Ending, Idle
<1> DEFINE q == object[g]
           o == Emptied(InPlaceOf(q))
           p == Unlinked(q)
<1>1. /\ call' = Idle /\ stream' = stream /\ call.op = "assign" /\ Ended
  BY DEF Assigned
<1>2. /\ h \in Handles /\ g \in Handles /\ h # g
      /\ object \in [Objects -> Object]
      /\ \A y \in Handles : y \in Objects /\ object[y] \in Object
  BY <1>1, Kinds DEF Shapes, CallShape, Ending, Idle, RedisppTypeOK
<1>3. \A y \in Handles : Enumerated(y) /\ ~PartlyRead(y)
  BY <1>1, NobodyLeft DEF Enumerations
<1>4. CASE call.status = "threw"
  <2>1. object' = object BY <1>4 DEF Assigned
  <2>2. \A y \in Handles : ~Given(y) BY <1>4 DEF Given
  <2>3. \A y \in Handles : Enumerated(y)' BY <1>1, <1>3, <2>1, <2>2, LeftAlone
  <2> QED BY <1>1, <2>3 DEF Enumerations, Idle
<1>5. CASE call.status # "threw"
  <2>1. /\ object' = [object EXCEPT ![h] = o, ![g] = p]
        /\ BlameIf(~bad /\ (Work(h) \/ q.pending # <<>>),
                   IF Work(h) THEN "dropped" ELSE "overwritten")
    BY <1>5 DEF Assigned
  <2>2. q.pending = <<>>
    <3> DEFINE c == ~bad /\ (Work(h) \/ q.pending # <<>>)
               r == IF Work(h) THEN "dropped" ELSE "overwritten"
    <3>1. r # "none" /\ c \in BOOLEAN /\ BlameIf(c, r) BY <2>1
    <3> HIDE DEF c, r
    <3>2. ~c BY <3>1, Blameless
    <3> QED BY <3>2 DEF c
  <2>3. ~Given(g) /\ q \in Object /\ Enumerated(g) BY <1>2, <1>3 DEF Given
  <2>4. /\ o.kind = q.kind /\ o.cmd = q.cmd /\ (o.conn = q.conn) /\ (o.headerDone = q.headerDone)
        /\ o.count = q.count /\ o.pending = <<>> /\ o.value = q.value
        /\ o.taken = q.taken /\ o.total = q.total
    BY <2>3 DEF Emptied, InPlaceOf, Object
  <2>5. /\ p.kind = q.kind /\ ~p.conn /\ (p.headerDone = q.headerDone)
        /\ p.count = q.count /\ p.pending = <<>> /\ p.value = q.value
        /\ p.taken = q.taken /\ p.total = q.total
    BY <2>2, <2>3 DEF Unlinked, Object
  <2> HIDE DEF o, p
  <2>6. object'[h] = o /\ object'[g] = p BY <1>2, <2>1
  <2>7. Enumerated(h)'
    <3>1. o.kind = "Multi" => Whole(o) /\ Continues(o, stream)
      BY <2>2, <2>3, <2>4 DEF Enumerated, Whole, Continues
    <3> QED BY <1>1, <2>4, <2>6, <3>1 DEF Enumerated, PartlyRead
  <2>8. Enumerated(g)'
    <3>1. p.kind = "Multi" => Whole(p) /\ Continues(p, stream)
      BY <2>2, <2>3, <2>5 DEF Enumerated, Whole, Continues
    <3> QED BY <1>1, <2>5, <2>6, <3>1 DEF Enumerated, PartlyRead
  <2>9. ASSUME NEW y \in Handles, y # h, y # g PROVE Enumerated(y)'
    <3>1. object'[y] = object[y] /\ ~Given(y) BY <1>2, <2>1, <2>9 DEF Given
    <3> QED BY <1>1, <1>3, <3>1, LeftAlone
  <2>10. \A y \in Handles : Enumerated(y)' BY <2>7, <2>8, <2>9
  <2> QED BY <1>1, <2>10 DEF Enumerations, Idle
<1> QED BY <1>4, <1>5

-----------------------------------------------------------------------------
(* The steps together                                                      *)

LEMMA EnumerationsAreKept ==
    ASSUME RedisppAssumption, RedisppInv, ClientStep, ~bad, ~bad', InStep, InStep',
           LinesNumbered, Enumerations
    PROVE  Enumerations'
<1>1. RedisppTypeOK /\ Shapes /\ InOrder BY DEF RedisppInv
<1>2. ASSUME NEW h \in Handles, NEW k \in ReplyKind, NEW command, Send(h, command, k)
      PROVE  Enumerations'
  BY <1>1, <1>2, SendEnumerated
<1>3. CASE Type BY <1>1, <1>3, TypeEnumerated
<1>4. ASSUME NEW command, Bare(command) \/ BeginNested PROVE FALSE
  BY <1>4, Blameless DEF Bare, BeginNested
<1>5. ASSUME NEW h \in Handles, NEW g \in Handles,
             Result(h) \/ NextElement(h) \/ Destroy(h) \/ Assign(h, g)
      PROVE  Enumerations'
  BY <1>1, <1>5, AskEnumerated
<1>6. ASSUME NEW h \in Handles, NEW g \in Handles, Copy(h, g) PROVE Enumerations'
  BY <1>1, <1>6, CopyEnumerated
<1>7. CASE Begin \/ Commit \/ Abort("abort") \/ Abort("end")
  BY <1>1, <1>7, TransactionEnumerated
<1>8. CASE EndTransaction \/ TransactionEnded BY <1>1, <1>8, TransactionEndEnumerated
<1>9. ASSUME NEW x \in Objects, ReadSimple(x) PROVE Enumerations'
  BY <1>1, <1>9, SimpleEnumerated
<1>10. ASSUME NEW x \in Objects, ReadHeader(x) PROVE Enumerations'
  BY <1>1, <1>10, HeaderEnumerated
<1>11. ASSUME NEW x \in Objects, ReadElement(x) PROVE Enumerations'
  BY <1>1, <1>11, ElementEnumerated
<1>12. ASSUME NEW x \in Objects, DrainElement(x) PROVE Enumerations'
  BY <1>1, <1>12, DrainEnumerated
<1>13. ASSUME NEW x \in Objects, ReadAhead(x) PROVE Enumerations'
  BY <1>1, <1>13, AheadEnumerated
<1>14. CASE ReadStatuses \/ ReadVerdict BY <1>1, <1>14, QueuedEnumerated
<1>15. CASE NextPending BY <1>1, <1>15, PendingEnumerated
<1>16. CASE Return BY <1>1, <1>16, ReturnEnumerated
<1>17. CASE Destroyed BY <1>1, <1>17, DestroyedEnumerated
<1>18. CASE Assigned BY <1>1, <1>18, AssignedEnumerated
<1>19. CASE Close BY <1>19 DEF Close
<1> QED
  BY <1>2, <1>3, <1>4, <1>5, <1>6, <1>7, <1>8, <1>9, <1>10, <1>11, <1>12, <1>13,
     <1>14, <1>15, <1>16, <1>17, <1>18, <1>19 DEF ClientStep, RedisppNext, Reading

LEMMA EnumInit ==
    ASSUME RedisppAssumption, RedisppInit PROVE EnumInv
<1>1. /\ stream = <<>> /\ server.queue = <<>> /\ call = Idle
      /\ \A h \in Handles : object[h] = Free
  BY DEF RedisppInit, NotInMulti, Objects
<1>2. Len(<<>>) = 0 /\ 1..0 = {} OBVIOUS
<1>3. LinesNumbered BY <1>1, <1>2 DEF LinesNumbered, Numbered, SentBy
<1>4. ASSUME NEW h \in Handles PROVE Enumerated(h)
  <2>1. object[h] = Free BY <1>1
  <2> QED BY <2>1 DEF Enumerated, PartlyRead, Work, Free
<1> QED BY <1>1, <1>3, <1>4 DEF EnumInv, Enumerations, Idle

LEMMA EnumUnchanged ==
    ASSUME EnumInv, UNCHANGED vars PROVE EnumInv'
BY DEF vars, EnumInv, InStep, LinesNumbered, Enumerations, Enumerated, PartlyRead, Given, Work,
       Clears, First, Earlier

LEMMA EnumStep ==
    ASSUME RedisppAssumption, RedisppInv, EnumInv, [ClientStep]_vars PROVE EnumInv'
<1>1. CASE UNCHANGED vars BY <1>1, EnumUnchanged
<1>2. CASE ClientStep
  <2> SUFFICES ASSUME InStep', ~bad' PROVE LinesNumbered' /\ Enumerations'
    BY DEF EnumInv
  <2>1. InStep /\ ~bad BY <1>2, OnlyInStep, FailedStays
  <2>2. LinesNumbered /\ Enumerations /\ RedisppTypeOK /\ Shapes /\ InOrder
    BY <2>1 DEF EnumInv, RedisppInv
  <2> QED BY <1>2, <2>1, <2>2, LinesAreKept, EnumerationsAreKept
<1> QED BY <1>1, <1>2

\* As long as nothing has put the replies out of step and the connection holds,
\* no element of an enumeration is lost between the program, what was read
\* ahead for it and the stream, and the program gets them in the order in which
\* the server sent them, for enumerations of any length and any number of reply
\* variables (MultiBulkEnumerator in redispp.h, and its copies; assigning one
\* that was read ahead loses these elements and puts the replies out of step).
THEOREM EnumerationsAreWhole ==
    ASSUME RedisppAssumption PROVE RedisppSpec => []WholeEnumeration
<1>1. RedisppInit => EnumInv BY EnumInit
<1>2. RedisppInv /\ EnumInv /\ [RedisppNext]_vars => EnumInv' BY EnumStep DEF ClientStep
<1>3. EnumInv => WholeEnumeration
  <2> SUFFICES ASSUME EnumInv, InStep, ~bad, NEW h \in Handles, object[h].kind = "Multi",
                      ~(call.on = h /\ call.op \in {"destroy", "assign"})
               PROVE  Whole(object[h])
    BY DEF WholeEnumeration, Whole
  <2> QED BY DEF EnumInv, Enumerations, Enumerated, Given
<1> QED BY <1>1, <1>2, <1>3, ReplyOrder, PTL DEF RedisppSpec

-----------------------------------------------------------------------------
(* The test resources.  A request has one reply object at a time, that of  *)
(* its last command, and starts no transaction: nobody reads but this one. *)

Live == {h \in Handles : object[h].kind # "Free"}

OwnReply(h) ==
    LET o == object[h] IN
    /\ o.cmd = sent
    /\ o.kind = IF step = "authenticate" \/ resource \in Setting THEN "Void" ELSE "String"
    /\ o.value.kind \in IF o.kind = "Void" THEN {"nil", "status"} ELSE {"nil", "bulk", "cut"}
    /\ step = "test" /\ call = Idle => ~o.conn
    /\ step = "leave" => ~o.conn /\ (answer = "200" => o.value.kind # "nil")

Request ==
    /\ transaction = "none" /\ InStep
    /\ call # Idle => call.op \in {"result", "destroy"} /\ call.on \in Live
    /\ call.status = "threw" => ~object[call.on].conn
    /\ \A g, h \in Live : g = h
    /\ \A h \in Live : OwnReply(h)
    /\ step \in {"parse", "command", "answered"} => Live = {}
    /\ step \in {"parse", "command", "result", "answered"} => call = Idle
    /\ call.op = "result" => step = "test"

ResourceInv == /\ RedisppInv /\ ResourceTypeOK
               /\ IF resource = "program" THEN step = "parse" ELSE Request

\* The request makes steps of the connection only.
LEMMA HandlerSteps ==
    ASSUME Handler PROVE [ClientStep]_vars
<1>1. Reading \/ Close => ClientStep BY DEF ClientStep, RedisppNext
<1>2. \A h \in Handles : Result(h) \/ Destroy(h) => ClientStep
  BY DEF ClientStep, RedisppNext
<1>3. \A h \in Handles : \A command :
        Send(h, command, "Void") \/ Send(h, command, "String") => ClientStep
  BY DEF ClientStep, ReplyKind, SimpleKind
<1>4. Unreachable \/ TooLong \/ TestResult => UNCHANGED vars
  BY DEF Unreachable, TooLong, TestResult
<1>5. LeaveScope \/ ReadResult \/ ConnectionEnds => ClientStep
  BY <1>1, <1>2 DEF LeaveScope, ReadResult, ConnectionEnds
<1>6. Authenticate \/ Leave => ClientStep \/ UNCHANGED vars
  BY <1>5 DEF Authenticate, Leave
<1>7. Connect \/ SendCommand \/ AskResult => ClientStep \/ UNCHANGED vars
  BY <1>2, <1>3 DEF Connect, SendCommand, AskResult
<1> QED BY <1>4, <1>5, <1>6, <1>7 DEF Handler

\* What the request still reads is the answer of its only reply object.
LEMMA RequestReads ==
    ASSUME RedisppAssumption, RedisppTypeOK, Shapes, Request, Reading
    PROVE  /\ call # Idle /\ call.op \in {"result", "destroy"} /\ call.on \in Live
           /\ \/ ReadSimple(call.on)
              \/ Return /\ call.op = "result" /\ ~object[call.on].conn
              \/ Destroyed /\ call.op = "destroy" /\ ~object[call.on].conn
<1>1. call # Idle
  <2>1. call.status # "idle"
    <3>1. \A y : Now(y) => call.status # "idle" BY DEF Now
    <3>2. Ended => call.status # "idle" BY DEF Ended
    <3>3. ASSUME NEW y \in Objects, \/ ReadSimple(y) \/ ReadHeader(y) \/ ReadElement(y)
                                    \/ DrainElement(y) \/ ReadAhead(y)
          PROVE  Now(y)
      BY <3>3 DEF ReadSimple, ReadHeader, ReadElement, DrainElement, ReadAhead
    <3>4. CASE ReadStatuses \/ ReadVerdict BY <3>1, <3>4 DEF ReadStatuses, ReadVerdict
    <3>5. CASE NextPending \/ Return \/ Destroyed \/ Assigned \/ TransactionEnded
      BY <3>2, <3>5 DEF NextPending, Return, Destroyed, Assigned, TransactionEnded
    <3> QED BY <3>1, <3>3, <3>4, <3>5 DEF Reading
  <2> QED BY <2>1 DEF Idle
<1>2. call.op \in {"result", "destroy"} /\ call.on \in Live BY <1>1 DEF Request
<1> SUFFICES ASSUME NEW x \in Live, x = call.on
             PROVE  \/ ReadSimple(x)
                    \/ Return /\ call.op = "result" /\ ~object[x].conn
                    \/ Destroyed /\ call.op = "destroy" /\ ~object[x].conn
  BY <1>1, <1>2
<1>3. x \in Handles /\ x \in Objects /\ x # Queued /\ object[x].kind \in {"Void", "String"}
  BY Kinds DEF Live, Request, OwnReply, RedisppAssumption
<1>4. Earlier(x) = {}
  <2> SUFFICES ASSUME NEW y \in Objects, object[y].place < object[x].place, Work(y)
               PROVE  FALSE
    BY DEF Earlier
  <2>1. object[y].conn /\ object[y].kind # "Free" BY DEF Work, Shapes, ObjectShape
  <2>2. y # Queued BY <2>1 DEF Shapes, Request
  <2>3. y = x BY <2>1, <2>2 DEF Objects, Live, Request
  <2>4. object[x].place \in Nat BY <1>3, Fields
  <2> QED BY <2>3, <2>4
<1>5. Readers = {y \in {x} : Work(y) /\ Drains} BY <1>4 DEF Readers
<1>6. Work(x) <=> object[x].conn BY <1>3 DEF Work
<1>7. Drains BY <1>3 DEF Drains
<1>8. Ended => ~object[x].conn
  <2>1. call.status = "threw" => ~object[x].conn BY DEF Request
  <2>2. Readers = {} => ~object[x].conn BY <1>5, <1>6, <1>7
  <2> QED BY <2>1, <2>2 DEF Ended
<1>9. \A y : Now(y) => y = x BY <1>5 DEF Now
<1>10. ASSUME NEW y \in Objects,
              ReadHeader(y) \/ ReadElement(y) \/ DrainElement(y) \/ ReadAhead(y)
       PROVE  FALSE
  <2>1. Now(y) /\ object[y].kind = "Multi"
    BY <1>10 DEF ReadHeader, ReadElement, DrainElement, ReadAhead
  <2> QED BY <1>3, <1>9, <2>1
<1>11. ASSUME NEW y \in Objects, ReadSimple(y) PROVE ReadSimple(x)
  <2>1. Now(y) BY <1>11 DEF ReadSimple
  <2> QED BY <1>9, <1>11, <2>1
<1>12. ~ReadStatuses /\ ~ReadVerdict BY <1>3, <1>9 DEF ReadStatuses, ReadVerdict
<1>13. ~NextPending /\ ~Assigned /\ ~TransactionEnded
  BY <1>2 DEF NextPending, Assigned, TransactionEnded
<1>14. CASE Return
  <2>1. call.op = "result" BY <1>2, <1>14 DEF Return, Plain
  <2>2. call.status # "mismatch" BY <1>1, <1>2 DEF Shapes, CallShape, Ending
  <2> QED BY <1>8, <1>14, <2>1, <2>2 DEF Return
<1>15. CASE Destroyed BY <1>8, <1>15 DEF Destroyed
<1> QED BY <1>10, <1>11, <1>12, <1>13, <1>14, <1>15 DEF Reading

\* It gets a status, or a string or nil, and is connected no more.
LEMMA RequestReceives ==
    ASSUME RedisppAssumption, RedisppTypeOK, NEW x \in Objects, ReadSimple(x),
           object[x].kind \in {"Void", "String"}
    PROVE  \E o \in Object :
             /\ object' = [object EXCEPT ![x] = o]
             /\ o.kind = object[x].kind /\ o.cmd = object[x].cmd /\ ~o.conn
             /\ \/ o.value = object[x].value
                \/ o.value.kind \in IF o.kind = "Void" THEN {"status"}
                                                       ELSE {"nil", "bulk", "cut"}
<1> DEFINE q == object[x]
           reader == LineReader(q.kind)
           m == [Unlinked(q) EXCEPT !.value = Received]
           n == [q EXCEPT !.conn = FALSE]
<1>1. q \in Object /\ object \in [Objects -> Object] BY DEF RedisppTypeOK
<1>2. reader = IF q.kind = "Void" THEN "status" ELSE "bulk" BY DEF LineReader
<1>3. \/ Accepted(reader) /\ object' = [object EXCEPT ![x] = m]
      \/ object' = [object EXCEPT ![x] = n]
  BY <1>1 DEF ReadSimple
<1>4. CASE Accepted(reader) /\ object' = [object EXCEPT ![x] = m]
  <2>1. /\ Head(stream).kind \in Wanted(reader) /\ ~Exhausted(stream, bad)
        /\ Received \in Line /\ Received.kind \in {Head(stream).kind, "cut"}
    BY <1>4, AcceptedIsLine, ReceivedIsLine
       DEF RedisppTypeOK, Accepted, Accepts, Received, Line, LineKind
  <2>2. reader = "status" => Received.kind = "status"
    <3> SUFFICES ASSUME reader = "status" PROVE Received.kind = "status" OBVIOUS
    <3>1. Head(stream).kind = "status" BY <2>1 DEF Wanted
    <3>2. ReadLine("status") BY DEF ReadSimple
    <3>3. ~bad'
      <4>1. ~Jams("status", stream, bad) BY <2>1 DEF Jams
      <4> QED BY <3>2, <4>1 DEF ReadLine
    <3> QED BY <3>1, <3>3 DEF Received
  <2>3. reader = "bulk" => Received.kind \in {"nil", "bulk", "cut"}
    BY <2>1 DEF Wanted
  <2>4. /\ m \in Object /\ m.kind = q.kind /\ m.cmd = q.cmd /\ ~m.conn /\ m.value = Received
    <3>1. Unlinked(q) \in Object BY <1>1, UnlinkedIsObject
    <3>2. Unlinked(q).kind = q.kind /\ Unlinked(q).cmd = q.cmd /\ ~Unlinked(q).conn
      BY <1>1 DEF Unlinked, Object
    <3> QED BY <2>1, <3>1, <3>2 DEF Object
  <2> HIDE DEF m, reader
  <2>5. m.value.kind \in IF m.kind = "Void" THEN {"status"} ELSE {"nil", "bulk", "cut"}
    BY <1>2, <2>2, <2>3, <2>4
  <2> QED BY <1>4, <2>4, <2>5
<1>5. CASE object' = [object EXCEPT ![x] = n]
  <2>1. n \in Object /\ n.kind = q.kind /\ n.cmd = q.cmd /\ ~n.conn /\ n.value = q.value
    BY <1>1 DEF Object
  <2> HIDE DEF n
  <2> QED BY <1>5, <2>1
<1> QED BY <1>3, <1>4, <1>5

\* The request stays what it is while its answer is read, ...
LEMMA RequestReadKept ==
    ASSUME RedisppAssumption, RedisppTypeOK, Shapes, Request, Reading, UNCHANGED resourceVars
    PROVE  Request'
<1>1. /\ call # Idle /\ call.op \in {"result", "destroy"} /\ call.on \in Live
      /\ \/ ReadSimple(call.on)
         \/ Return /\ call.op = "result" /\ ~object[call.on].conn
         \/ Destroyed /\ call.op = "destroy" /\ ~object[call.on].conn
  BY RequestReads
<1> SUFFICES ASSUME NEW x \in Live, x = call.on PROVE Request' BY <1>1
<1>2. /\ x \in Objects /\ x \in Handles /\ object[x].kind \in {"Void", "String"}
      /\ OwnReply(x) /\ \A y \in Live : y = x
  BY Kinds DEF Live, Request, OwnReply
<1>3. /\ step' = step /\ resource' = resource /\ answer' = answer
      /\ step \notin {"parse", "command", "result", "answered"}
      /\ call.op = "result" => step = "test"
  BY <1>1 DEF resourceVars, Request
<1>4. /\ transaction = "none" /\ InStep /\ object \in [Objects -> Object]
      /\ call \in [op : Operation, on : Objects \cup {NoObject},
                   from : Objects \cup {NoObject}, status : Status]
      /\ \A y \in Handles : y \in Objects
  BY Kinds DEF Request, RedisppTypeOK
<1>5. ASSUME sent' = sent, transaction' = transaction, culprit' = culprit,
             NEW o, object' = [object EXCEPT ![x] = o],
             o.kind = object[x].kind, o.cmd = object[x].cmd, ~o.conn,
             \/ o.value = object[x].value
             \/ o.value.kind \in IF o.kind = "Void" THEN {"status"} ELSE {"nil", "bulk", "cut"},
             step # "leave" \/ o.value = object[x].value,
             \/ call' = Idle
             \/ call' = call
             \/ call' = [call EXCEPT !.status = "threw"]
      PROVE  Request'
  <2>1. object'[x] = o /\ \A y \in Handles : y # x => object'[y] = object[y]
    BY <1>2, <1>4, <1>5
  <2>2. Live' = Live
    <3>1. \A y \in Handles : object'[y].kind = object[y].kind BY <1>5, <2>1
    <3> QED BY <3>1 DEF Live
  <2>3. o.value.kind \in IF o.kind = "Void" THEN {"nil", "status"} ELSE {"nil", "bulk", "cut"}
    BY <1>2, <1>5 DEF OwnReply
  <2>4. OwnReply(x)' BY <1>2, <1>3, <1>5, <2>1, <2>3 DEF OwnReply
  <2>5. \A y \in Live' : OwnReply(y)'
    <3> SUFFICES ASSUME NEW y \in Live PROVE OwnReply(y)' BY <2>2
    <3>1. y = x BY <1>2
    <3> QED BY <2>4, <3>1
  <2>6. \A g, h \in Live' : g = h BY <2>2 DEF Request
  <2>7. /\ call' # Idle => call'.op = call.op /\ call'.on = x
        /\ call'.op = "result" => call.op = "result"
        /\ call'.status = "threw" => call'.on = x
    BY <1>1, <1>4, <1>5 DEF Idle
  <2>8. InStep' /\ transaction' = "none" BY <1>4, <1>5 DEF InStep
  <2> QED BY <1>1, <1>3, <1>5, <2>1, <2>2, <2>5, <2>6, <2>7, <2>8 DEF Request
<1>6. CASE ReadSimple(x)
  <2>1. PICK o \in Object :
             /\ object' = [object EXCEPT ![x] = o]
             /\ o.kind = object[x].kind /\ o.cmd = object[x].cmd /\ ~o.conn
             /\ \/ o.value = object[x].value
                \/ o.value.kind \in IF o.kind = "Void" THEN {"status"}
                                                       ELSE {"nil", "bulk", "cut"}
    BY <1>2, <1>6, RequestReceives
  <2>2. sent' = sent /\ transaction' = transaction /\ culprit' = culprit
    BY <1>6 DEF ReadSimple
  <2>3. call' = Idle \/ call' = call \/ call' = [call EXCEPT !.status = "threw"]
    BY <1>6 DEF ReadSimple, Over, Throw
  <2>4. step # "leave"
    <3>1. Work(x) BY <1>6, <1>2 DEF ReadSimple, Now, Readers, First, Earlier
    <3> QED BY <1>2, <3>1 DEF Work, OwnReply
  <2> QED BY <1>5, <2>1, <2>2, <2>3, <2>4
<1>7. CASE Return /\ call.op = "result" /\ ~object[x].conn
  <2>1. object' = object BY <1>7 DEF Return
  <2>2. object' = [object EXCEPT ![x] = object[x]] BY <1>2, <1>4, <2>1
  <2>3. sent' = sent /\ transaction' = transaction /\ culprit' = culprit /\ call' = Idle
    BY <1>7 DEF Return
  <2> QED BY <1>5, <1>7, <2>2, <2>3
<1>8. CASE Destroyed /\ call.op = "destroy" /\ ~object[x].conn
  <2>1. object'[x] = Free /\ \A y \in Handles : y # x => object'[y] = object[y]
    BY <1>2, <1>4, <1>8 DEF Destroyed
  <2>2. Live' = {} BY <1>2, <2>1 DEF Live, Free
  <2>3. ~Work(x) BY <1>8 DEF Work
  <2>4. culprit' = culprit /\ transaction' = transaction /\ call' = Idle
    BY <1>8, <2>3 DEF Destroyed, BlameIf
  <2>5. InStep' /\ transaction' = "none" BY <1>4, <2>4 DEF InStep
  <2> QED BY <2>2, <2>4, <2>5 DEF Request, Idle
<1> QED BY <1>1, <1>6, <1>7, <1>8

\* A reply that is asked, or goes out of scope, is never too early.
LEMMA RequestAsksKept ==
    ASSUME RedisppAssumption, RedisppTypeOK, Shapes, Request, NEW h \in Handles,
           \/ Result(h) /\ step = "result" /\ step' = "test"
           \/ Destroy(h) /\ step \in {"authenticate", "leave"} /\ step' = step,
           resource' = resource, answer' = answer
    PROVE  Request'
<1>1. ~TooEarly(h) BY DEF TooEarly, Request
<1>2. /\ culprit' = culprit /\ sent' = sent /\ object' = object
      /\ transaction' = transaction /\ h \in Live /\ step \in {"result", "authenticate", "leave"}
      /\ step' = "authenticate" <=> step = "authenticate"
      /\ step' = "leave" <=> step = "leave"
      /\ step' \notin {"parse", "command", "result", "answered"}
  BY <1>1 DEF Result, Destroy, BlameIf, Live, SimpleKind
<1>3. /\ call' # Idle /\ call'.on = h /\ call'.op \in {"result", "destroy"}
      /\ call'.status = "reading" /\ (call'.op = "result" => step' = "test")
  BY DEF Result, Destroy, Using, Idle
<1>4. Live' = Live BY <1>2 DEF Live
<1>5. \A y \in Live : OwnReply(y)'
  <2> SUFFICES ASSUME NEW y \in Live PROVE OwnReply(y)' OBVIOUS
  <2>1. OwnReply(y) BY DEF Request
  <2> QED BY <1>2, <1>3, <2>1 DEF OwnReply
<1>6. InStep' /\ transaction' = "none" BY <1>2 DEF InStep, Request
<1>7. \A g, y \in Live : g = y BY DEF Request
<1> QED BY <1>2, <1>3, <1>4, <1>5, <1>6, <1>7 DEF Request

\* The reply of the next command is the only one.
LEMMA RequestSendsKept ==
    ASSUME RedisppAssumption, RedisppTypeOK, Shapes, Request, Live = {},
           NEW h \in Handles, NEW k \in {"Void", "String"}, NEW command,
           Send(h, command, k), resource' = resource, answer' = answer,
           k = IF step' = "authenticate" \/ resource \in Setting THEN "Void" ELSE "String",
           step' \in {"authenticate", "result"}
    PROVE  Request'
<1> DEFINE o == NewReply(k)
<1>1. /\ call = Idle /\ call' = call /\ culprit' = culprit /\ transaction' = transaction
      /\ sent' = sent + 1 /\ sent \in 0..MaxCommands
      /\ object' = [object EXCEPT ![h] = o, ![Queued] = Counted]
      /\ object \in [Objects -> Object] /\ h \in Objects /\ Queued \in Objects /\ h # Queued
      /\ \A y \in Handles : y \in Objects /\ y # Queued
  BY Kinds DEF Send, MaySend, Active, RedisppTypeOK, RedisppAssumption
<1>2. o.kind = k /\ o.cmd = sent + 1 /\ o.value.kind = "nil"
  BY DEF NewReply, Free, NoLine, LineOf
<1> HIDE DEF o
<1>3. object'[h] = o /\ \A y \in Handles : y # h => object'[y] = object[y] BY <1>1
<1>4. Live' = {h}
  <2>1. \A y \in Handles : object[y].kind = "Free" BY DEF Live
  <2>2. k # "Free" OBVIOUS
  <2> QED BY <1>2, <1>3, <2>1, <2>2 DEF Live
<1>5. OwnReply(h)' BY <1>1, <1>2, <1>3 DEF OwnReply
<1>6. InStep' /\ transaction' = "none" BY <1>1 DEF InStep, Request
<1> QED BY <1>1, <1>4, <1>5, <1>6 DEF Request, Idle

\* Every step of the handler.
LEMMA HandlerKept ==
    ASSUME RedisppAssumption, RedisppTypeOK, Shapes, ResourceTypeOK, Request, Handler,
           resource # "program"
    PROVE  Request'
<1>1. resource \in Setting <=> ~(resource \in Getting)
  BY DEF ResourceTypeOK, Setting, Getting
<1>2. ASSUME UNCHANGED vars, call = Idle, resource' = resource, Live = {},
             step' \in {"command", "leave", "answered"}
      PROVE  Request'
  <2>1. /\ call' = Idle /\ transaction' = transaction /\ culprit' = culprit /\ Live' = {}
    BY <1>2 DEF vars, Live
  <2>2. transaction = "none" /\ InStep BY DEF Request
  <2>3. InStep' BY <2>1, <2>2 DEF InStep
  <2> QED BY <2>1, <2>2, <2>3 DEF Request, Idle
<1>3. ASSUME LeaveScope, step \in {"authenticate", "leave"} PROVE Request'
  <2>1. resource' = resource /\ answer' = answer /\ step' = step
    BY <1>3 DEF LeaveScope, resourceVars
  <2>2. CASE Reading BY <2>1, <2>2, RequestReadKept DEF resourceVars
  <2>3. ASSUME NEW h \in Handles, Destroy(h) PROVE Request'
    BY <1>3, <2>1, <2>3, RequestAsksKept
  <2> QED BY <1>3, <2>2, <2>3 DEF LeaveScope
<1>4. OutOfScope => call = Idle /\ Live = {} BY DEF OutOfScope, Live
<1>5. CASE Unreachable
  <2>1. call = Idle /\ Live = {} BY <1>5 DEF Unreachable, Request
  <2> QED BY <1>2, <1>5, <2>1 DEF Unreachable
<1>6. CASE Connect
  <2>1. call = Idle /\ Live = {} BY <1>6 DEF Connect, Request
  <2>2. CASE Goto("command") /\ UNCHANGED vars BY <1>2, <2>1, <2>2 DEF Goto
  <2>3. ASSUME NEW h \in Handles, Send(h, "authenticate", "Void"), Goto("authenticate")
        PROVE  Request'
    BY <2>1, <2>3, RequestSendsKept DEF Goto
  <2> QED BY <1>6, <2>2, <2>3 DEF Connect
<1>7. CASE Authenticate
  <2>1. CASE LeaveScope BY <1>3, <1>7, <2>1 DEF Authenticate
  <2>2. CASE OutOfScope /\ Goto("command") /\ UNCHANGED vars
    BY <1>2, <1>4, <2>2 DEF Goto
  <2> QED BY <1>7, <2>1, <2>2 DEF Authenticate
<1>8. CASE SendCommand
  <2>1. Live = {} /\ step' = "result" /\ resource' = resource /\ answer' = answer
    BY <1>8 DEF SendCommand, Goto, Request
  <2>2. ASSUME NEW h \in Handles, resource \in Setting, Send(h, "set", "Void") PROVE Request'
    BY <2>1, <2>2, RequestSendsKept
  <2>3. ASSUME NEW h \in Handles, resource \in Getting, Send(h, "get", "String") PROVE Request'
    BY <1>1, <2>1, <2>3, RequestSendsKept
  <2> QED BY <1>8, <2>2, <2>3 DEF SendCommand
<1>9. CASE TooLong
  <2>1. call = Idle /\ Live = {} BY <1>9 DEF TooLong, Request
  <2> QED BY <1>2, <1>9, <2>1 DEF TooLong, Answer
<1>10. CASE AskResult
  <2> SUFFICES ASSUME NEW h \in Handles, Result(h) PROVE Request' BY <1>10 DEF AskResult
  <2> QED BY <1>10, RequestAsksKept DEF AskResult, Goto
<1>11. CASE ReadResult BY <1>11, RequestReadKept DEF ReadResult
<1>12. CASE TestResult
  <2> SUFFICES ASSUME NEW r \in Live,
                      Answer(IF object[r].value.kind # "nil" THEN "200" ELSE "400")
               PROVE  Request'
    BY <1>12 DEF TestResult, Live
  <2>1. /\ call = Idle /\ call' = Idle /\ transaction' = transaction /\ culprit' = culprit
        /\ object' = object /\ sent' = sent /\ Live' = Live /\ step = "test"
    BY <1>12 DEF TestResult, vars, Live
  <2>2. /\ step' = "leave" /\ resource' = resource
        /\ answer' = "200" => object[r].value.kind # "nil"
    BY DEF Answer
  <2>3. ASSUME NEW y \in Live PROVE OwnReply(y)'
    <3>1. y = r /\ OwnReply(y) BY DEF Request
    <3>2. ~object[y].conn BY <2>1, <3>1 DEF OwnReply
    <3> QED BY <2>1, <2>2, <3>1, <3>2 DEF OwnReply
  <2>4. InStep' /\ transaction' = "none" BY <2>1 DEF InStep, Request
  <2>5. \A g, y \in Live : g = y BY DEF Request
  <2> QED BY <2>1, <2>2, <2>3, <2>4, <2>5 DEF Request, Idle
<1>13. CASE Leave
  <2>1. CASE LeaveScope BY <1>3, <1>13, <2>1 DEF Leave
  <2>2. CASE OutOfScope /\ Goto("answered") /\ UNCHANGED vars
    BY <1>2, <1>4, <2>2 DEF Goto
  <2> QED BY <1>13, <2>1, <2>2 DEF Leave
<1>14. CASE ConnectionEnds
  <2>1. /\ call' = call /\ transaction' = transaction /\ culprit' = culprit
        /\ object' = object /\ sent' = sent /\ Live' = Live
        /\ step' = step /\ resource' = resource /\ answer' = answer
    BY <1>14 DEF ConnectionEnds, Close, resourceVars, Live
  <2>2. ASSUME NEW y \in Live PROVE OwnReply(y)'
    <3>1. OwnReply(y) BY DEF Request
    <3> QED BY <2>1, <3>1 DEF OwnReply
  <2>3. InStep' BY <2>1 DEF InStep, Request
  <2> QED BY <2>1, <2>2, <2>3 DEF Request
<1> QED
  BY <1>5, <1>6, <1>7, <1>8, <1>9, <1>10, <1>11, <1>12, <1>13, <1>14 DEF Handler

LEMMA HandlerTypes ==
    ASSUME ResourceTypeOK, RedisppTypeOK', Handler \/ UNCHANGED resourceVars
    PROVE  ResourceTypeOK' /\ resource' = resource
<1>1. CASE UNCHANGED resourceVars BY <1>1 DEF resourceVars, ResourceTypeOK
<1>2. \A s \in Step : Goto(s) => ResourceTypeOK' /\ resource' = resource
  BY DEF Goto, ResourceTypeOK
<1>3. \A a \in {"200", "400"} : Answer(a) => ResourceTypeOK' /\ resource' = resource
  BY DEF Answer, ResourceTypeOK, Step
<1>4. CASE Unreachable BY <1>4 DEF Unreachable, ResourceTypeOK, Step
<1>5. CASE Connect \/ SendCommand \/ AskResult
  BY <1>2, <1>5 DEF Connect, SendCommand, AskResult, Step
<1>6. CASE Authenticate \/ Leave
  BY <1>1, <1>2, <1>6 DEF Authenticate, Leave, LeaveScope, Step
<1>7. CASE TooLong \/ TestResult BY <1>3, <1>7 DEF TooLong, TestResult
<1>8. CASE ReadResult \/ ConnectionEnds BY <1>1, <1>8 DEF ReadResult, ConnectionEnds
<1> QED BY <1>1, <1>4, <1>5, <1>6, <1>7, <1>8 DEF Handler

LEMMA ResourceStep ==
    ASSUME RedisppAssumption, ResourceInv, [ResourceNext]_allVars
    PROVE  ResourceInv'
<1>1. /\ RedisppInv /\ ResourceTypeOK /\ RedisppTypeOK /\ Shapes
      /\ IF resource = "program" THEN step = "parse" ELSE Request
  BY DEF ResourceInv, RedisppInv
<1>2. CASE UNCHANGED allVars
  <2>1. UNCHANGED vars /\ UNCHANGED resourceVars BY <1>2 DEF allVars
  <2>2. RedisppInv' BY <1>1, <2>1, InvStep
  <2>3. ResourceTypeOK' /\ resource' = resource
    BY <1>1, <2>1, <2>2, HandlerTypes DEF RedisppInv
  <2>4. Request => Request'
    <3>1. /\ call' = call /\ transaction' = transaction /\ culprit' = culprit
          /\ object' = object /\ sent' = sent /\ Live' = Live
          /\ step' = step /\ resource' = resource /\ answer' = answer
      BY <2>1 DEF vars, resourceVars, Live
    <3>2. \A y \in Live : OwnReply(y) => OwnReply(y)' BY <3>1 DEF OwnReply
    <3> QED BY <3>1, <3>2 DEF Request, InStep
  <2> QED BY <1>1, <2>1, <2>2, <2>3, <2>4 DEF ResourceInv, resourceVars
<1>3. CASE resource = "program" /\ RedisppNext /\ UNCHANGED resourceVars
  <2>1. RedisppInv' BY <1>1, <1>3, InvStep DEF ClientStep
  <2>2. ResourceTypeOK' /\ resource' = resource BY <1>1, <1>3, <2>1, HandlerTypes DEF RedisppInv
  <2> QED BY <1>1, <1>3, <2>1, <2>2 DEF ResourceInv, resourceVars
<1>4. CASE resource # "program" /\ Handler
  <2>1. RedisppInv' BY <1>1, <1>4, HandlerSteps, InvStep
  <2>2. ResourceTypeOK' /\ resource' = resource BY <1>1, <1>4, <2>1, HandlerTypes DEF RedisppInv
  <2>3. Request' BY <1>1, <1>4, HandlerKept
  <2> QED BY <1>4, <2>1, <2>2, <2>3 DEF ResourceInv
<1> QED BY <1>2, <1>3, <1>4 DEF ResourceNext

LEMMA ResourceStarts ==
    ASSUME RedisppAssumption, ResourceInit PROVE ResourceInv
<1>1. RedisppInv BY InvInit DEF ResourceInit
<1>2. ResourceTypeOK BY <1>1 DEF ResourceInit, ResourceTypeOK, RedisppInv, Step
<1>3. step = "parse" /\ answer = "none" /\ call = Idle /\ transaction = "none" /\ InStep
  BY DEF ResourceInit, RedisppInit, InStep
<1>4. Live = {}
  <2>1. \A h \in Handles : h \in Objects BY DEF Objects
  <2> QED BY <2>1 DEF Live, ResourceInit, RedisppInit, Free
<1>5. Request BY <1>3, <1>4 DEF Request, Idle
<1> QED BY <1>1, <1>2, <1>3, <1>5 DEF ResourceInv

\* A test resource goes from step to step and answers 200 or 400, whatever the
\* server answers and whenever the connection ends; its connection and replies
\* keep the types of the client it uses.
THEOREM ResourceTypeCorrect ==
    ASSUME RedisppAssumption PROVE ResourceSpec => []ResourceTypeOK
<1>1. ResourceInit => ResourceInv BY ResourceStarts
<1>2. ResourceInv /\ [ResourceNext]_allVars => ResourceInv' BY ResourceStep
<1>3. ResourceInv => ResourceTypeOK BY DEF ResourceInv
<1> QED BY <1>1, <1>2, <1>3, PTL DEF ResourceSpec

\* A test resource answers 200 only for the +OK to its own set, or the string
\* that its own get returned, never for the answer to the password (t_area,
\* t_area_get, t_function and t_function_get of redis_source.hpp).
THEOREM AnswersAreOwn ==
    ASSUME RedisppAssumption PROVE ResourceSpec => []OwnAnswer
<1>1. ResourceInit => ResourceInv BY ResourceStarts
<1>2. ResourceInv /\ [ResourceNext]_allVars => ResourceInv' BY ResourceStep
<1>3. ResourceInv => OwnAnswer
  <2> SUFFICES ASSUME ResourceInv, step = "leave", answer = "200", NEW r \in Live
               PROVE  /\ object[r].value.of = sent
                      /\ object[r].value.kind \in
                            IF resource \in Setting THEN {"status"} ELSE {"bulk", "cut"}
    BY DEF OwnAnswer, Live
  <2>1. RedisppInv /\ Request /\ ResourceTypeOK BY DEF ResourceInv
  <2>2. OwnReply(r) /\ object[r].value.kind # "nil" BY <2>1 DEF Request, OwnReply
  <2>3. object[r].value # NoLine BY <2>2 DEF NoLine, LineOf
  <2>4. object[r].value.of = object[r].cmd
    BY <2>1, <2>3 DEF RedisppInv, OwnValues, Own, Request, Live
  <2> QED BY <2>2, <2>4 DEF OwnReply
<1> QED BY <1>1, <1>2, <1>3, PTL DEF ResourceSpec
=============================================================================
