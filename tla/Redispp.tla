------------------------------ MODULE Redispp ------------------------------
(***************************************************************************)
(* The redispp client (redispp.h, redispp.cpp): one Connection used by one *)
(* program.  A command is written at once and returns a reply object that  *)
(* is appended to the connection's list of outstanding replies; the answer *)
(* is read from the socket when the object is asked for its result, or is  *)
(* destroyed or overwritten, after all objects before it in the list have  *)
(* read theirs.  Nothing but this order ties an answer to its command.     *)
(*                                                                         *)
(* The stream from the server is a sequence of lines.  A line has what a   *)
(* reader looks at (its type character and the number behind it) and, for  *)
(* the properties only, the command it answers and its index in that       *)
(* answer.  A bulk string is one line together with its body; the body     *)
(* alone, when its header was read by somebody else, is a "text" line.     *)
(***************************************************************************)
EXTENDS Integers, Sequences, FiniteSets, RedisppCommands

CONSTANTS Handles,       \* the program's reply variables
          Queued,        \* the QueuedReply inside the Transaction
          NoObject,      \* no reply variable
          Calls,         \* the commands the program uses
          GoesOn,        \* does it use the connection even after the replies
                         \* are out of step?
          MaxCommands,   \* bound: commands sent
          Lengths        \* bound: numbers of elements of a multi bulk answer

SimpleKind == {"Void", "Bool", "Int", "String"}
ReplyKind == SimpleKind \cup {"Multi"}

ASSUME RedisppAssumption ==
    /\ Queued \notin Handles
    /\ NoObject \notin Handles \cup {Queued}
    /\ \A c \in Calls : \E k \in ReplyKind : c \in CommandsReturning(k)
    /\ GoesOn \in BOOLEAN
    /\ MaxCommands \in Nat
    /\ Lengths \subseteq Nat

Objects == Handles \cup {Queued}

VARIABLES
    stream,        \* the lines sent by the server that nobody has read
    bad,           \* the fail state of ioStream, which nothing clears
    sent,          \* number of commands so far; commands are 1..sent
    object,        \* the reply objects
    transaction,   \* state of the Transaction, "none" if there is none
    server,        \* what the server has queued since MULTI
    call,          \* what the program is doing
    culprit        \* history: the first thing that put the replies out of step

vars == <<stream, bad, sent, object, transaction, server, call, culprit>>

\* A bulk string whose body the end of the connection cut off is "cut".
LineKind == {"status", "error", "int", "bulk", "nil", "multi", "text", "cut"}
LineOf(kind, n, of, idx) == [kind |-> kind, n |-> n, of |-> of, idx |-> idx]
Line == [kind : LineKind, n : Int, of : Nat, idx : Nat]
NoLine == LineOf("nil", 0, 0, 0)

\* place orders the list of outstanding replies, 0 if not in the list.  value
\* is storedResult, or the element handed out last; count that of the
\* enumerator or of the QueuedReply.  History: total is the number of elements
\* announced, taken the number handed out (by a QueuedReply: lines read).
Object == [kind : ReplyKind \cup {"Queued", "Free"}, cmd : Nat, conn : BOOLEAN,
           place : Nat, headerDone : BOOLEAN, count : Int, pending : Seq(Line),
           value : Line, taken : Nat, total : Int]

Free == [kind |-> "Free", cmd |-> 0, conn |-> FALSE, place |-> 0,
         headerDone |-> FALSE, count |-> 0, pending |-> <<>>,
         value |-> NoLine, taken |-> 0, total |-> 0]

Operation == {"none", "result", "next", "destroy", "assign", "commit", "abort", "end"}
Status == {"idle", "reading", "threw", "mismatch"}
Idle == [op |-> "none", on |-> NoObject, from |-> NoObject, status |-> "idle"]

Culprit == {"none", "dropped", "swallowed", "overwritten", "type", "bare",
            "nested", "order", "early", "aborted", "refused"}

\* size counts the commands it has accepted, queue is what EXEC will answer.
ServerState == [multi : BOOLEAN, failed : BOOLEAN, size : Nat, queue : Seq(Line)]
NotInMulti == [multi |-> FALSE, failed |-> FALSE, size |-> 0, queue |-> <<>>]

RedisppTypeOK ==
    /\ stream \in Seq(Line)
    /\ bad \in BOOLEAN
    /\ sent \in 0..MaxCommands
    /\ object \in [Objects -> Object]
    /\ transaction \in {"none", "Dirty", "Committed", "Aborted"}
    /\ server \in ServerState
    /\ call \in [op : Operation, on : Objects \cup {NoObject},
                 from : Objects \cup {NoObject}, status : Status]
    /\ culprit \in Culprit

RedisppInit ==
    /\ stream = <<>>
    /\ bad = FALSE
    /\ sent = 0
    /\ object = [x \in Objects |-> Free]
    /\ transaction = "none"
    /\ server = NotInMulti
    /\ call = Idle
    /\ culprit = "none"

BlameIf(condition, reason) ==
    culprit' = IF condition /\ culprit = "none" THEN reason ELSE culprit

-----------------------------------------------------------------------------
(* Reading a line: readStatusCodeReply, readIntegerReply, readBulkReply    *)
(* and the header of an enumerator, from a stream s whose fail state is b. *)

Reader == {"status", "int", "bulk", "multi"}

\* Mutant: readStatusCodeReply does not look at the type character either.
WantedErrorToo(reader) ==
    CASE reader = "status" -> {"status", "error"}
      [] reader = "int"    -> {"int", "bulk", "nil", "multi"}
      [] reader = "bulk"   -> {"bulk", "nil"}
      [] reader = "multi"  -> {"multi"}

\* readIntegerReply does not look at the type character.
Wanted(reader) ==
    CASE reader = "status" -> {"status"}
      [] reader = "int"    -> {"int", "bulk", "nil", "multi"}
      [] reader = "bulk"   -> {"bulk", "nil"}
      [] reader = "multi"  -> {"multi"}

Exhausted(s, b) == b \/ s = <<>>
Accepts(reader, s, b) == ~Exhausted(s, b) /\ Head(s).kind \in Wanted(reader)

\* operator>> finds no number behind the type character, or nothing at all,
\* and sets the fail state.
Jams(reader, s, b) ==
    \/ Exhausted(s, b)
    \/ reader # "status" /\ Head(s).kind \in {"status", "error", "text"}

\* The body of a bulk string is only read by those who expect one.  In the
\* fail state nothing that is left can be read.
Rest(reader, s, b) ==
    IF Jams(reader, s, b) THEN <<>>
    ELSE IF Head(s).kind = "bulk" /\ reader # "bulk"
         THEN <<[Head(s) EXCEPT !.kind = "text"]>> \o Tail(s)
         ELSE Tail(s)

\* recv waits until the server answers or the connection fails.
Blocked == ~bad /\ stream = <<>>

Accepted(reader) == Accepts(reader, stream, bad)

\* readBulkReply does not look whether the body came: if the connection ends in
\* it, the result is what came, filled up with NULs (Received).
ReadLine(reader) ==
    /\ ~Blocked
    /\ \/ stream' = Rest(reader, stream, bad) /\ bad' = Jams(reader, stream, bad)
       \/ /\ reader = "bulk" /\ Accepted("bulk") /\ Head(stream).kind = "bulk"
          /\ stream' = <<>> /\ bad' = TRUE

Received == IF bad' THEN [Head(stream) EXCEPT !.kind = "cut"] ELSE Head(stream)

-----------------------------------------------------------------------------
(* The server: answers in the order of the commands.                       *)

MultiAnswer(c, n) ==
    [i \in 1..(n + 1) |-> IF i = 1 THEN LineOf("multi", n, c, 0)
                                   ELSE LineOf("bulk", 1, c, i - 1)]

Replies(kind, c) ==
    CASE kind = "Void"            -> {<<LineOf("status", 0, c, 0)>>}
      [] kind \in {"Bool", "Int"} -> {<<LineOf("int", n, c, 0)>> : n \in 0..1}
      [] kind = "String"          -> {<<LineOf("nil", -1, c, 0)>>,
                                      <<LineOf("bulk", 1, c, 0)>>}
      [] kind = "Multi"           -> {MultiAnswer(c, n) : n \in Lengths}

Answers(kind, c) == Replies(kind, c) \cup {<<LineOf("error", 0, c, 0)>>}

BareAnswers(command, c) ==
    CASE command = "quit"     -> {<<LineOf("status", 0, c, 0)>>}
      [] command = "shutdown" -> {<<>>}
      [] OTHER -> {<<LineOf("multi", 3, c, 0), LineOf("bulk", 1, c, 1),
                     LineOf("bulk", 1, c, 2), LineOf("int", 1, c, 3)>>}

\* What the server does with a command: the lines it sends and its new state.
\* After MULTI it queues the command, or refuses it, and EXEC fails.
Outcomes(answers) ==
    LET line(kind) == <<LineOf(kind, 0, object[Queued].cmd, server.size + 1)>> IN
    IF bad THEN {[lines |-> <<>>, state |-> server]}
    ELSE IF ~server.multi THEN {[lines |-> a, state |-> server] : a \in answers}
    ELSE {[lines |-> line("status"),
           state |-> [server EXCEPT !.size = @ + 1, !.queue = @ \o a]] : a \in answers}
         \cup {[lines |-> line("error"), state |-> [server EXCEPT !.failed = TRUE]]}

\* A stream in the fail state writes nothing, and says nothing.
Write(answers) ==
    \E o \in Outcomes(answers) : stream' = stream \o o.lines /\ server' = o.state

\* The connection ends: what was not read is lost, and every later read and
\* write fails.  (The client may still get lines that were on the way; that is
\* the connection ending after it has read them.)
Close ==
    /\ ~bad
    /\ bad' = TRUE
    /\ stream' = <<>>
    /\ UNCHANGED <<sent, object, transaction, server, call, culprit>>

-----------------------------------------------------------------------------
(* Commands                                                                *)

\* BaseReply(conn): at the end of the list, and counted by the transaction.
NewReply(kind) == [Free EXCEPT !.kind = kind, !.cmd = sent + 1,
                               !.conn = TRUE, !.place = sent + 1]
Counted == [object[Queued] EXCEPT !.count = IF transaction = "none" THEN @ ELSE @ + 1]

\* The program is between two calls.
Active == call = Idle /\ (GoesOn \/ culprit = "none")
MaySend == Active /\ sent < MaxCommands

Send(h, command, kind) ==
    /\ MaySend
    /\ object[h].kind = "Free"
    /\ sent' = sent + 1
    /\ object' = [object EXCEPT ![h] = NewReply(kind), ![Queued] = Counted]
    /\ Write(Answers(kind, sent + 1))
    /\ UNCHANGED <<bad, transaction, call, culprit>>

\* Something waits for lines: in the list, connected, not at its end.
Work(x) ==
    /\ object[x].conn
    /\ object[x].kind = "Multi" => ~object[x].headerDone \/ object[x].count > 0

\* type() reads its answer at once, whoever's answer comes first.
Type ==
    /\ MaySend
    /\ sent' = sent + 1
    /\ \E o \in Outcomes(Answers("Void", sent + 1)) :
         /\ stream' = Rest("status", stream \o o.lines, bad)
         /\ bad' = Jams("status", stream \o o.lines, bad)
         /\ server' = o.state
    /\ BlameIf(transaction = "Dirty" \/ \E x \in Objects : Work(x), "type")
    /\ UNCHANGED <<object, transaction, call>>

Bare(command) ==
    /\ MaySend
    /\ sent' = sent + 1
    /\ Write(BareAnswers(command, sent + 1))
    /\ BlameIf(TRUE, "bare")
    /\ UNCHANGED <<bad, object, transaction, call>>

-----------------------------------------------------------------------------
(* Reply objects: result(), next(), the destructor, operator= and copies   *)

Using(op, h, g) == [op |-> op, on |-> h, from |-> g, status |-> "reading"]

\* An answer inside a transaction comes after EXEC: whoever asks for it
\* earlier reads the lines of the transaction itself.
TooEarly(h) == /\ transaction = "Dirty" /\ object[h].conn /\ ~object[h].headerDone
               /\ object[h].place > object[Queued].place

\* Asked again, an object returns storedResult and nothing changes.
Result(h) ==
    /\ Active /\ object[h].kind \in SimpleKind /\ object[h].conn
    /\ call' = Using("result", h, NoObject)
    /\ BlameIf(TooEarly(h), "early")
    /\ UNCHANGED <<stream, bad, sent, object, transaction, server>>

NextElement(h) ==
    /\ Active /\ object[h].kind = "Multi"
    /\ call' = Using("next", h, NoObject)
    /\ BlameIf(TooEarly(h), "early")
    /\ UNCHANGED <<stream, bad, sent, object, transaction, server>>

Destroy(h) ==
    /\ Active /\ object[h].kind # "Free"
    /\ call' = Using("destroy", h, NoObject)
    /\ BlameIf(TooEarly(h), "early")
    /\ UNCHANGED <<stream, bad, sent, object, transaction, server>>

\* The object that is overwritten may be one without a command ("Free").
Assign(h, g) ==
    /\ Active /\ h # g
    /\ object[g].kind # "Free" /\ object[h].kind \in {"Free", object[g].kind}
    /\ call' = Using("assign", h, g)
    /\ BlameIf(TooEarly(h), "early")
    /\ UNCHANGED <<stream, bad, sent, object, transaction, server>>

Unlinked(o) == [o EXCEPT !.conn = FALSE, !.place = 0]

\* The place before the other object, if that one still waits.
InPlaceOf(o) == [o EXCEPT !.place = IF o.conn THEN @ ELSE 0]

\* Mutant: what was read ahead stays with the object that was copied.
CopyWithoutPending(h, g) ==
    /\ Active
    /\ object[h].kind = "Free" /\ object[g].kind # "Free"
    /\ object' = [object EXCEPT ![h] = [InPlaceOf(object[g]) EXCEPT !.pending = <<>>],
                                ![g] = Unlinked(@)]
    /\ UNCHANGED <<stream, bad, sent, transaction, server, call, culprit>>

\* What is left in the object that was copied.
LeftBehind(o) == [Unlinked(o) EXCEPT !.pending = <<>>, !.total = @ - Len(o.pending)]

\* BaseReply(other): the copy takes over the place in the list, and what an
\* enumerator has read ahead (total: which is then no longer the other's).
Copy(h, g) ==
    /\ Active
    /\ object[h].kind = "Free" /\ object[g].kind # "Free"
    /\ object' = [object EXCEPT ![h] = InPlaceOf(object[g]),
                                ![g] = LeftBehind(object[g])]
    /\ UNCHANGED <<stream, bad, sent, transaction, server, call, culprit>>

-----------------------------------------------------------------------------
(* Who reads next: clearPendingResults lets every object of the list that  *)
(* comes before the one in use read its answer to the end.                 *)

\* Mutant: no clearPendingResults.
EarlierNobody(h) == {}

Earlier(h) == {y \in Objects : /\ 0 < object[y].place
                               /\ object[y].place < object[h].place
                               /\ Work(y)}

First(S) == {x \in S : \A y \in S : object[x].place <= object[y].place}

\* The object in use waits for the first line of its answer.  A destroyed or
\* overwritten enumerator does not ask for it.
Clears == /\ call.op \in {"result", "next", "destroy", "assign"}
          /\ object[call.on].conn /\ ~object[call.on].headerDone
          /\ object[call.on].kind = "Multi" => call.op = "next"

\* conn && count > 0 in the destructor and operator= of an enumerator.
Drains == object[call.on].kind = "Multi" /\ call.op # "next" => object[call.on].count > 0

Readers == IF Clears /\ Earlier(call.on) # {} THEN First(Earlier(call.on))
           ELSE {x \in {call.on} : Work(x) /\ Drains}

Now(x) == call.status = "reading" /\ x \in Readers

\* Calls that do nothing more once they have read, or when an exception leaves
\* them.
Plain == call.op \in {"result", "next", "commit", "abort"}

\* The reading of x is over: the call goes on unless x is the object in use.
Over(x) == call' = IF x = call.on /\ Plain THEN Idle ELSE call
Throw == call' = IF Plain THEN Idle ELSE [call EXCEPT !.status = "threw"]

LineReader(kind) ==
    CASE kind = "Void" -> "status"
      [] kind \in {"Bool", "Int"} -> "int"
      [] kind = "String" -> "bulk"

\* Mutant: conn = NULL only after the read.
ReadSimpleStaysConnected(x) ==
    /\ Now(x) /\ object[x].kind \in SimpleKind
    /\ LET reader == LineReader(object[x].kind) IN
       /\ ReadLine(reader)
       /\ \/ /\ Accepted(reader)
             /\ object' = [object EXCEPT ![x] = [Unlinked(@) EXCEPT !.value = Received]]
             /\ Over(x)
          \/ /\ ~Accepted(reader)
             /\ UNCHANGED object
             /\ Throw
    /\ UNCHANGED <<sent, transaction, server, culprit>>

\* conn = NULL before the read, unlink() after it: after an exception the
\* object is asked no more, and stays in the list with nothing to read.
ReadSimple(x) ==
    /\ Now(x) /\ object[x].kind \in SimpleKind
    /\ LET reader == LineReader(object[x].kind) IN
       /\ ReadLine(reader)
       /\ \/ /\ Accepted(reader)
             /\ object' = [object EXCEPT ![x] = [Unlinked(@) EXCEPT !.value = Received]]
             /\ Over(x)
          \/ /\ ~Accepted(reader)
             /\ object' = [object EXCEPT ![x].conn = FALSE]
             /\ Throw
    /\ UNCHANGED <<sent, transaction, server, culprit>>

\* The number behind the type character, 0 when there is none.
Announced == IF Jams("multi", stream, bad) THEN 0 ELSE Head(stream).n

\* An enumerator without elements leaves the list at once; one whose header
\* is wrong keeps its number all the same.
ReadHeader(x) ==
    /\ Now(x) /\ object[x].kind = "Multi" /\ ~object[x].headerDone
    /\ ReadLine("multi")
    /\ LET o == [object[x] EXCEPT !.headerDone = TRUE, !.count = Announced,
                                  !.total = Announced]
           empty == Accepted("multi") /\ Announced = 0
       IN  object' = [object EXCEPT ![x] = IF empty THEN Unlinked(o) ELSE o]
    /\ IF ~Accepted("multi") THEN Throw
       ELSE IF Announced = 0 THEN Over(x) ELSE UNCHANGED call
    /\ UNCHANGED <<sent, transaction, server, culprit>>

OneLess(o) == [o EXCEPT !.count = @ - 1]
HandOut(o, line) == [o EXCEPT !.value = line, !.taken = @ + 1]

\* The list of what was read ahead: one more, one fewer, none.
PutAside(o, line) == [o EXCEPT !.pending = Append(@, line)]
OneFewer(o) == [o EXCEPT !.pending = Tail(@)]
Emptied(o) == [o EXCEPT !.pending = <<>>]
LeaveAtEnd(o) == IF o.count <= 0 THEN Unlinked(o) ELSE o

\* next() of the program: one element.  At a nil it throws, but the nil is
\* consumed.
ReadElement(x) ==
    /\ Now(x) /\ object[x].kind = "Multi" /\ object[x].headerDone
    /\ x = call.on /\ call.op = "next"
    /\ ReadLine("bulk")
    /\ \/ /\ Accepted("bulk")
          /\ object' = [object EXCEPT ![x] = HandOut(OneLess(@), Received)]
          /\ Over(x)
       \/ /\ ~Accepted("bulk")
          /\ object' = [object EXCEPT ![x] = OneLess(@)]
          /\ Throw
    /\ UNCHANGED <<sent, transaction, server, culprit>>

\* The loop over the rest in the destructor and in operator=.
DrainElement(x) ==
    /\ Now(x) /\ object[x].kind = "Multi" /\ object[x].headerDone
    /\ x = call.on /\ call.op # "next"
    /\ ReadLine("bulk")
    /\ \/ /\ Accepted("bulk") /\ Head(stream).kind # "nil"
          /\ object' = [object EXCEPT ![x] = LeaveAtEnd(OneLess(@))]
          /\ UNCHANGED call
       \/ /\ ~(Accepted("bulk") /\ Head(stream).kind # "nil")
          /\ object' = [object EXCEPT ![x] = OneLess(@)]
          /\ Throw
    /\ UNCHANGED <<sent, transaction, server, culprit>>

\* readResult(): elements read ahead for a later next().  An exception loses
\* those that are not yet spliced into pending.
ReadAhead(x) ==
    /\ Now(x) /\ object[x].kind = "Multi" /\ object[x].headerDone
    /\ x # call.on
    /\ ReadLine("bulk")
    /\ \/ /\ Accepted("bulk")
          /\ object' = [object EXCEPT ![x] = LeaveAtEnd(PutAside(OneLess(@), Received))]
          /\ UNCHANGED call
       \/ /\ ~Accepted("bulk")
          /\ object' = [object EXCEPT ![x] = Emptied(OneLess(@))]
          /\ Throw
    /\ UNCHANGED <<sent, transaction, server, culprit>>

\* next() of an enumerator that has read ahead.
NextPending ==
    /\ call.status = "reading" /\ call.op = "next"
    /\ LET o == object[call.on] IN
       /\ o.pending # <<>>
       /\ object' = [object EXCEPT ![call.on] = HandOut(OneFewer(o), Head(o.pending))]
       /\ call' = Idle
    /\ UNCHANGED <<stream, bad, sent, transaction, server, culprit>>

-----------------------------------------------------------------------------
(* The end of a call: an exception, or nothing to read (any more).         *)

Ended == \/ call.status = "threw"
         \/ call.status = "reading" /\ Readers = {}

\* The end of the elements, or a transaction that is not connected.
Return ==
    /\ Plain
    /\ Ended \/ call.status = "mismatch"
    /\ call.op = "next" => object[call.on].pending = <<>>
    /\ object' = IF call.op = "next" THEN [object EXCEPT ![call.on] = Unlinked(@)]
                 ELSE object
    /\ call' = Idle
    /\ UNCHANGED <<stream, bad, sent, transaction, server, culprit>>

\* The destructor has caught any exception; the hook unlinks the object, even
\* one whose answer is still to come.
Destroyed ==
    /\ Ended /\ call.op = "destroy"
    /\ object' = [object EXCEPT ![call.on] = Free]
    /\ call' = Idle
    /\ BlameIf(~bad /\ Work(call.on),
               IF object[call.on].kind = "Multi" THEN "dropped" ELSE "swallowed")
    /\ UNCHANGED <<stream, bad, sent, transaction, server>>

\* operator=: the object takes over place and result of the other one, but not
\* what an enumerator has read ahead.  An exception has left both as they were.
Assigned ==
    /\ Ended /\ call.op = "assign"
    /\ call' = Idle
    /\ LET h == call.on
           g == call.from
       IN  IF call.status = "threw" THEN UNCHANGED <<object, culprit>>
           ELSE /\ object' = [object EXCEPT ![h] = Emptied(InPlaceOf(object[g])),
                                            ![g] = Unlinked(object[g])]
                /\ BlameIf(~bad /\ (Work(h) \/ object[g].pending # <<>>),
                           IF Work(h) THEN "dropped" ELSE "overwritten")
    /\ UNCHANGED <<stream, bad, sent, transaction, server>>

-----------------------------------------------------------------------------
(* Transaction                                                             *)

InTransaction == transaction # "none"

\* Mutant: the QueuedReply counts itself.
BeginCountsItself ==
    /\ MaySend /\ ~InTransaction
    /\ sent' = sent + 1
    /\ object' = [object EXCEPT ![Queued] = [NewReply("Queued") EXCEPT !.count = 1]]
    /\ transaction' = "Dirty"
    /\ IF bad THEN UNCHANGED <<stream, server>>
       ELSE /\ stream' = Append(stream, LineOf("status", 0, sent + 1, 0))
            /\ server' = [NotInMulti EXCEPT !.multi = TRUE]
    /\ UNCHANGED <<bad, call, culprit>>

\* Mutant: replies.state is not set.
BeginBlank ==
    /\ MaySend /\ ~InTransaction
    /\ sent' = sent + 1
    /\ object' = [object EXCEPT ![Queued] = NewReply("Queued")]
    /\ transaction' = "Blank"
    /\ IF bad THEN UNCHANGED <<stream, server>>
       ELSE /\ stream' = Append(stream, LineOf("status", 0, sent + 1, 0))
            /\ server' = [NotInMulti EXCEPT !.multi = TRUE]
    /\ UNCHANGED <<bad, call, culprit>>

\* Transaction(conn): the QueuedReply enters the list, then MULTI is sent.
Begin ==
    /\ MaySend /\ ~InTransaction
    /\ sent' = sent + 1
    /\ object' = [object EXCEPT ![Queued] = NewReply("Queued")]
    /\ transaction' = "Dirty"
    /\ IF bad THEN UNCHANGED <<stream, server>>
       ELSE /\ stream' = Append(stream, LineOf("status", 0, sent + 1, 0))
            /\ server' = [NotInMulti EXCEPT !.multi = TRUE]
    /\ UNCHANGED <<bad, call, culprit>>

\* A second Transaction throws, but only after its QueuedReply was counted.
BeginNested ==
    /\ Active /\ InTransaction
    /\ object' = [object EXCEPT ![Queued] = Counted]
    /\ BlameIf(TRUE, "nested")
    /\ UNCHANGED <<stream, bad, sent, transaction, server, call>>

\* Objects of commands sent inside the transaction.
Inside(x) == object[x].place > object[Queued].place

ExecAnswer ==
    LET q == object[Queued] IN
    IF server.failed THEN <<LineOf("error", 0, q.cmd, server.size + 1)>>
    ELSE <<LineOf("multi", server.size, q.cmd, server.size + 1)>> \o server.queue

SendExec ==
    /\ IF bad THEN UNCHANGED <<stream, server>>
       ELSE stream' = stream \o ExecAnswer /\ server' = NotInMulti

SendDiscard ==
    /\ IF bad THEN UNCHANGED <<stream, server>>
       ELSE /\ stream' = Append(stream, LineOf("status", 0, object[Queued].cmd, server.size + 1))
            /\ server' = NotInMulti

\* readResult of the QueuedReply clears nothing first.
OutOfOrder == \E x \in Handles : Work(x) /\ ~Inside(x)

Commit ==
    /\ Active /\ transaction = "Dirty"
    /\ transaction' = "Committed"
    /\ SendExec
    /\ call' = Using("commit", Queued, NoObject)
    /\ BlameIf(OutOfOrder, "order")
    /\ UNCHANGED <<bad, sent, object>>

\* The answers of the queued commands never come, but their objects wait.
Abort(op) ==
    /\ Active /\ transaction = "Dirty"
    /\ transaction' = "Aborted"
    /\ SendDiscard
    /\ call' = Using(op, Queued, NoObject)
    /\ BlameIf(\E x \in Handles : Work(x), "aborted")
    /\ UNCHANGED <<bad, sent, object>>

\* The destructor of a transaction that was committed or aborted.
EndTransaction ==
    /\ Active /\ transaction \in {"Committed", "Aborted"}
    /\ transaction' = "none"
    /\ object' = [object EXCEPT ![Queued] = Free]
    /\ UNCHANGED <<stream, bad, sent, server, call, culprit>>

TransactionEnded ==
    /\ Ended /\ call.op = "end"
    /\ transaction' = "none"
    /\ object' = [object EXCEPT ![Queued] = Free]
    /\ call' = Idle
    /\ UNCHANGED <<stream, bad, sent, server, culprit>>

\* QueuedReply::readResult, one line at a time: +OK for the MULTI and a status
\* per counted reply,
ReadStatuses ==
    LET q == object[Queued] IN
    /\ Now(Queued) /\ q.taken <= q.count
    /\ ReadLine("status")
    /\ \/ /\ Accepted("status")
          /\ object' = [object EXCEPT ![Queued].taken = @ + 1,
                           ![Queued].conn = transaction # "Dirty" \/ q.taken < q.count]
          /\ UNCHANGED <<call, culprit>>
       \/ /\ ~Accepted("status")
          /\ object' = [object EXCEPT ![Queued].conn = FALSE]
          /\ Throw
          /\ BlameIf(~bad', "refused")
    /\ UNCHANGED <<sent, transaction, server>>

\* then the number of results of EXEC, or the status of DISCARD.
ReadVerdict ==
    LET q == object[Queued]
        reader == IF transaction = "Committed" THEN "int" ELSE "status"
    IN
    /\ Now(Queued) /\ q.taken > q.count
    /\ ReadLine(reader)
    /\ object' = [object EXCEPT ![Queued].conn = FALSE, ![Queued].taken = @ + 1]
    /\ IF ~Accepted(reader) THEN Throw
       ELSE IF transaction = "Committed" /\ Head(stream).n # q.count
       THEN call' = [call EXCEPT !.status = "mismatch"]
       ELSE Over(Queued)
    /\ UNCHANGED <<sent, transaction, server, culprit>>

-----------------------------------------------------------------------------
Reading ==
    \/ \E x \in Objects : \/ ReadSimple(x) \/ ReadHeader(x) \/ ReadElement(x)
                          \/ DrainElement(x) \/ ReadAhead(x)
    \/ ReadStatuses \/ ReadVerdict
    \/ NextPending \/ Return \/ Destroyed \/ Assigned \/ TransactionEnded

RedisppNext ==
    \/ \E h \in Handles, k \in ReplyKind :
         \E command \in Calls \cap CommandsReturning(k) : Send(h, command, k)
    \/ Type
    \/ \E command \in BareCommands : Bare(command)
    \/ \E h \in Handles : Result(h) \/ NextElement(h) \/ Destroy(h)
    \/ \E h, g \in Handles : Assign(h, g) \/ Copy(h, g)
    \/ Begin \/ BeginNested \/ Commit \/ Abort("abort") \/ Abort("end")
    \/ EndTransaction
    \/ Reading
    \/ Close

RedisppSpec == RedisppInit /\ [][RedisppNext]_vars

-----------------------------------------------------------------------------
(* Properties                                                              *)

InStep == culprit = "none"

\* Every result and every element that the program gets is the answer to the
\* command whose object it asked, unless the replies were put out of step.
RightReply ==
    InStep => \A h \in Handles :
        /\ object[h].value # NoLine => object[h].value.of = object[h].cmd
        /\ \A i \in 1..Len(object[h].pending) : object[h].pending[i].of = object[h].cmd

\* No element of an enumeration is lost between the program, what was read
\* ahead and the stream, and they are handed out in the order they came in
\* (unless the object is just being destroyed or overwritten), as long as the
\* connection holds and nothing has put the replies out of step.
WholeEnumeration ==
    InStep /\ ~bad => \A h \in Handles :
        LET o == object[h] IN
        o.kind = "Multi" /\ ~(call.on = h /\ call.op \in {"destroy", "assign"}) =>
            /\ o.taken + Len(o.pending) + o.count = o.total
            /\ \A i \in 1..Len(o.pending) : o.pending[i].idx = o.taken + i
            /\ o.value # NoLine => o.value.idx = o.taken

\* Nobody waits for a line that no server will send, unless the replies were
\* put out of step.
NeverStuck == InStep /\ call.status = "reading" /\ Readers # {} => ~Blocked

\* What the client counted is what the server answers, whatever happened to the
\* reply objects since MULTI, unless the replies were put out of step: while commit() or abort() reads, exactly the
\* lines it has still to read begin the stream, a status for MULTI and for each
\* counted command and then the verdict; that of EXEC has the counted number of
\* results unless a command was refused; and commit() never finds a mismatch.
CommitsInStep ==
    InStep =>
        /\ call.status # "mismatch"
        /\ ~bad /\ Now(Queued) =>
             LET q == object[Queued]
                 left == q.count + 2 - q.taken
             IN  /\ left \in 1..Len(stream)
                 /\ \A i \in 1..Len(stream) : stream[i].of = q.cmd <=> i <= left
                 /\ transaction = "Committed" =>
                      \/ stream[left].kind = "multi" /\ stream[left].n = q.count
                      \/ \E i \in 1..(left - 1) : stream[i].kind = "error"
=============================================================================
