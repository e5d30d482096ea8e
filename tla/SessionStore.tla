---------------------------- MODULE SessionStore ----------------------------
(***************************************************************************)
(* The session operations of redis_source.hpp (apollo, KV_SESSION) run by  *)
(* concurrent workers.  A session is one redis key; every operation asks   *)
(* whether it exists and then writes it with set, del, or del and set.     *)
(* CREATE and ADD work through all items of the request, the other three   *)
(* answer after the first item, and do not answer at all without one.      *)
(***************************************************************************)
EXTENDS CacheOperation

CONSTANTS Empty,      \* the empty string as value of a session
          Scalar,     \* a "value" of an item that is not an object
          NoChild,    \* an item without "value"
          NoId        \* an item without "sessionId"

\* What a request may say of a session.
SessionItems == [id : Keys \cup {NoId}, value : Values \cup {Scalar, NoChild}]

ASSUME SessionAssumption == /\ Batches \subseteq Seq(SessionItems)
                            /\ Empty \in Values
                            /\ NoId \notin Keys
                            /\ NoData \notin Values

\* The value deleted by an operation that is about to set it again; it is
\* a history variable, which only the refinement mapping reads.
VARIABLE deleted

sessionVars == <<cacheVars, deleted>>

Operations == {"CREATE", "ADD", "DELETE", "QUERY", "UPDATE"}

UnknownError(o) == CASE o = "CREATE" -> -8020 [] o = "ADD"    -> -8030
                     [] o = "DELETE" -> -8040 [] o = "QUERY"  -> -8050
                     [] o = "UPDATE" -> -8060

CREATE_SESSION_KEY_EXIST == -8025
QUERY_SESSION_KEY_NOT_EXIST == -8055
KeyNotExist(o) == CASE o = "ADD" -> -8035 [] o = "DELETE" -> -8045
                    [] o \in {"QUERY", "UPDATE"} -> QUERY_SESSION_KEY_NOT_EXIST

\* The string that a function without return statement returns.
NoReturnValue == -1

\* Only the children of "value" are written out.
Stored(v) == IF v = Scalar THEN Empty ELSE v

Unknown(w) == Return(w, UnknownError(op[w]), NoData)

\* CREATE and ADD read "value" before their first command on the item.
ReadsValueFirst(w) == op[w] \in {"CREATE", "ADD"}

MissingField(w) ==
    Item(w).id = NoId \/ (ReadsValueFirst(w) /\ Item(w).value = NoChild)

SessionInit == CacheInit /\ deleted = Absent

ReceiveSession(w) ==
    /\ \E o \in Operations, b \in Batches : Receive(w, o, b)
    /\ UNCHANGED deleted

LockSession(w) == Lock(w) /\ UNCHANGED deleted

\* The loop over requestData ends.
NoMoreItems(w) ==
    /\ step[w] = "item" /\ ~More(w)
    /\ \/ ReadsValueFirst(w) /\ Return(w, 200, NoData) /\ UNCHANGED store
       \/ ~ReadsValueFirst(w) /\ Return(w, NoReturnValue, NoData)
                              /\ UNCHANGED store
       \/ ~ReadsValueFirst(w) /\ Die
    /\ UNCHANGED deleted

BadItem(w) ==
    /\ step[w] = "item" /\ More(w) /\ MissingField(w)
    /\ Unknown(w)
    /\ UNCHANGED <<store, deleted>>

\* What an operation does after "exists" has answered.
Found(w) ==
    CASE op[w] = "CREATE" -> Return(w, CREATE_SESSION_KEY_EXIST, NoData)
      [] op[w] = "QUERY"  -> Continue(w, "get", pos[w])
      [] OTHER            -> Continue(w, "del", pos[w])

\* Variant: ADD makes the session it does not find.
NotFoundAdds(w) ==
    IF op[w] \in {"CREATE", "ADD"} THEN Continue(w, "set", pos[w])
                                   ELSE Return(w, KeyNotExist(op[w]), NoData)

NotFound(w) ==
    IF op[w] = "CREATE" THEN Continue(w, "set", pos[w])
                        ELSE Return(w, KeyNotExist(op[w]), NoData)


Exists(w) ==
    /\ step[w] = "item" /\ More(w) /\ ~MissingField(w)
    /\ \/ /\ \E found \in ExistsReplies(Item(w).id) :
               IF found THEN Found(w) ELSE NotFound(w)
          /\ UNCHANGED store
       \/ ReadFails(w, UnknownError(op[w]))
    /\ UNCHANGED deleted

\* What an operation does after "del"; UPDATE reads "value" only now.
Deleted(w) ==
    CASE op[w] = "DELETE" -> Return(w, 200, NoData)
      [] op[w] = "ADD"    -> Continue(w, "set", pos[w])
      [] op[w] = "UPDATE" -> IF Item(w).value = NoChild
                             THEN Unknown(w) ELSE Continue(w, "set", pos[w])

Del(w) ==
    /\ step[w] = "del"
    /\ Write(w, Item(w).id, Absent, Deleted(w), UnknownError(op[w]))
    /\ deleted' = store[Item(w).id]

\* Variant: the iterator moves on twice.
AfterSetTwice(w) ==
    IF op[w] = "UPDATE" THEN Return(w, 200, NoData)
                        ELSE Continue(w, "item", pos[w] + 2)

AfterSet(w) ==
    IF op[w] = "UPDATE" THEN Return(w, 200, NoData)
                        ELSE Continue(w, "item", pos[w] + 1)

\* Variant: the value of the first item is written for all.
SetFirstValue(w) ==
    /\ step[w] = "set"
    /\ Write(w, Item(w).id, Stored(batch[w][1].value), AfterSet(w),
             UnknownError(op[w]))
    /\ deleted' = Absent

Set(w) ==
    /\ step[w] = "set"
    /\ Write(w, Item(w).id, Stored(Item(w).value),
             AfterSet(w), UnknownError(op[w]))
    /\ deleted' = Absent

\* The reply of "get" is used without a look at its type: the text of an
\* error is parsed as JSON, the string of a nil reply is the null pointer.
Get(w) ==
    /\ step[w] = "get"
    /\ \/ /\ store[Item(w).id] # Absent
          /\ Return(w, 200, store[Item(w).id]) /\ UNCHANGED store
       \/ store[Item(w).id] = Absent /\ Die
       \/ /\ faults \cap {"error", "stale"} # {}
          /\ Return(w, JSON_READ_OR_WRITE_ERROR, NoData) /\ UNCHANGED store
       \/ /\ "stale" \in faults
          /\ \E v \in Values : Return(w, 200, v)
          /\ UNCHANGED store
       \/ ReadFails(w, UnknownError(op[w]))
    /\ UNCHANGED deleted

SessionNext ==
    /\ ~crashed
    /\ \E w \in Workers : \/ ReceiveSession(w) \/ LockSession(w)
                          \/ NoMoreItems(w) \/ BadItem(w) \/ Exists(w)
                          \/ Del(w) \/ Set(w) \/ Get(w)

SessionSpec == SessionInit /\ [][SessionNext]_sessionVars
-----------------------------------------------------------------------------
\* Types; in particular an item is looked at only if there is one.
SessionTypeOK ==
    /\ store \in [Keys -> Values \cup {Absent}]
    /\ lockRedis \in Workers \cup {NoWorker}
    /\ step \in [Workers ->
                 {"idle", "waiting", "item", "del", "set", "get"}]
    /\ op \in [Workers -> Operations \cup {"none"}]
    /\ \A w \in Workers : batch[w] \in Batches \cup {<<>>}
    /\ \A w \in Workers : pos[w] \in 1 .. Len(batch[w]) + 1
    /\ asked \in 0 .. MaxRequests
    /\ \A w \in Workers : step[w] \in {"del", "set", "get"} => More(w)
    /\ deleted \in Values \cup {Absent}
    /\ crashed \in BOOLEAN

\* QUERY dereferences the string of the reply of "get" without a test: when
\* it sends that command the session is still there, although "exists" and
\* "get" are two commands and other workers delete and recreate sessions.
\* (An uninitialised reply to "exists" may say anything.)
QueriedSessionExists ==
    OnlyThrows =>
        \A w \in Workers : step[w] = "get" => store[Item(w).id] # Absent

\* The last item of b for session k is what a whole batch leaves there.
LastValue(b, k) ==
    LET i == CHOOSE i \in 1 .. Len(b) :
                 b[i].id = k /\ \A j \in i + 1 .. Len(b) : b[j].id # k
    IN  Stored(b[i].value)

\* The answer given in this step is true of the cache at that moment: each
\* session of a CREATE or ADD request holds the value its last item asked
\* for, the (first) session of an UPDATE its new value, a deleted session is
\* gone, and a query returns the present value.
AnswerIsTrue(w) ==
    (answer'[w].code = 200 /\ answer[w].code # 200) =>
        LET b == batch[w] IN
        CASE op[w] \in {"CREATE", "ADD"} ->
               \A i \in 1 .. Len(b) : store'[b[i].id] = LastValue(b, b[i].id)
          [] op[w] = "UPDATE" -> store'[b[1].id] = Stored(b[1].value)
          [] op[w] = "DELETE" -> store'[b[1].id] = Absent
          [] op[w] = "QUERY"  -> answer'[w].data = store'[b[1].id]

\* The answer 200 is true, whatever other workers and the commands that
\* threw did meanwhile.
SuccessAmongThrows ==
    [][OnlyThrows => \A w \in Workers : AnswerIsTrue(w)]_sessionVars

\* "session write to cache[KV_SESSION] successfully": the answer 200 is true
\* also when commands are answered with errors.
SuccessMeansStored == [][\A w \in Workers : AnswerIsTrue(w)]_sessionVars

\* Whatever fails: a session changes only in the hands of the worker that
\* owns lockRedis, and only the one its request is at; in particular a
\* request that has been answered changes nothing any more.
WritesUnderLock ==
    [][\A k \in Keys : store'[k] # store[k] =>
         \E w \in Workers : /\ lockRedis = w
                            /\ step[w] \in {"del", "set"}
                            /\ Item(w).id = k]_sessionVars

\* The operations are atomic on each session.  A session that is deleted in
\* order to be set again is still in the map until the set.
Pending == {w \in Workers : step[w] = "set" /\ op[w] # "CREATE"}
SessionsSeen == [k \in Keys |->
    IF \E w \in Pending : Item(w).id = k THEN deleted ELSE store[k]]

ToldClient(w) ==
    LET c == answer[w].code IN
    << CASE c = 0   -> "none"
         [] c = 200 -> "ok"
         [] c = CREATE_SESSION_KEY_EXIST -> "exist"
         [] c \in {-8035, -8045, -8055}  -> "missing"
         [] OTHER   -> "error",
       IF answer[w].data = NoData THEN Absent ELSE answer[w].data >>

\* Behaviours with other failures are mapped to one in which nobody asks.
Map == INSTANCE SessionMap WITH
    sessions <- IF OnlyThrows THEN SessionsSeen ELSE [k \in Keys |-> Absent],
    request <- IF OnlyThrows THEN op ELSE [w \in Workers |-> "none"],
    told <- [w \in Workers |-> IF OnlyThrows THEN ToldClient(w)
                                             ELSE <<"none", Absent>>]

\* With commands that are executed or throw, the operations implement the
\* map of SessionMap: each takes effect at one moment, and a session gets
\* lost only in an operation whose client is told of an error.
ImplementsSessionMap == Map!MapSpec
=============================================================================
