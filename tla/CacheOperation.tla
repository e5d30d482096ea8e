--------------------------- MODULE CacheOperation ---------------------------
(***************************************************************************)
(* What all operations of redis_source.hpp have in common: a worker        *)
(* receives a request with a list of items, takes lockRedis, sends its     *)
(* commands one by one, and answers with an error code; every exception is *)
(* turned into the answer "unknown error", and lockRedis is let go.        *)
(* SessionStore and MasterData say which commands each operation sends.    *)
(*                                                                         *)
(* A command is here what ClusterCommand and RedisService show it to be    *)
(* for its caller: it is executed and answered, or fails in one of the     *)
(* ways a behaviour shows:                                                 *)
(*   "error": an error reply, the command not executed (or the missing     *)
(*            reply of a redirected command, which del does not look at);  *)
(*   "throw": an exception, the command executed or not;                   *)
(*   "stale": the uninitialised reply of a lost connection, taken for a    *)
(*            reply (whatever it then holds), or deadly for the process.   *)
(***************************************************************************)
EXTENDS Integers, Sequences

CONSTANTS Workers,      \* threads of the HTTP server
          Keys,         \* keys of the cache
          Values,       \* what a key may hold
          Batches,      \* the lists of items a request may have
          FaultModes,   \* the ways commands fail: one set of them per behaviour
          MaxRequests,  \* bound: requests the server receives
          Absent, NoWorker, NoData

ASSUME CacheAssumption == /\ NoWorker \notin Workers
                          /\ Absent \notin Values
                          /\ FaultModes \subseteq SUBSET {"error", "throw", "stale"}
                          /\ MaxRequests \in Nat

VARIABLES
    store,       \* what the redis cluster holds
    lockRedis,   \* owner of the mutex lockRedis
    step,        \* what each worker does next
    op,          \* the operation of its request
    batch,       \* the items of its request
    pos,         \* the item it is at
    answer,      \* its answer: errorCode and replyData
    asked,       \* requests received so far
    crashed,     \* the process is gone
    faults       \* the ways commands fail in this behaviour

cacheVars == <<store, lockRedis, step, op, batch, pos, answer, asked, crashed,
               faults>>

\* Error codes of redis_errorcode.hpp; 0 stands for "no answer yet".
JSON_READ_OR_WRITE_ERROR == -8010
NoAnswer == [code |-> 0, data |-> NoData]

\* Commands are executed and answered, or throw.
OnlyThrows == faults \subseteq {"throw"}

CacheInit ==
    /\ store = [k \in Keys |-> Absent]
    /\ lockRedis = NoWorker
    /\ step = [w \in Workers |-> "idle"]
    /\ op = [w \in Workers |-> "none"]
    /\ batch = [w \in Workers |-> <<>>]
    /\ pos = [w \in Workers |-> 1]
    /\ answer = [w \in Workers |-> NoAnswer]
    /\ asked = 0
    /\ crashed = FALSE
    /\ faults \in FaultModes

More(w) == pos[w] <= Len(batch[w])
Item(w) == batch[w][pos[w]]
Goto(w, s) == step' = [step EXCEPT ![w] = s]

\* apollo() has read the request and calls the function of the operation.
Receive(w, o, b) ==
    /\ step[w] = "idle"
    /\ asked < MaxRequests
    /\ op' = [op EXCEPT ![w] = o]
    /\ batch' = [batch EXCEPT ![w] = b]
    /\ answer' = [answer EXCEPT ![w] = NoAnswer]
    /\ asked' = asked + 1
    /\ Goto(w, "waiting")
    /\ UNCHANGED <<store, lockRedis, pos, crashed, faults>>

\* Variant: the guard is not taken.
LockIgnored(w) ==
    /\ step[w] = "waiting"
    /\ lockRedis' = w
    /\ Goto(w, "item")
    /\ UNCHANGED <<store, op, batch, pos, answer, asked, crashed, faults>>

\* std::lock_guard<std::mutex> locker(lockRedis)
Lock(w) ==
    /\ step[w] = "waiting"
    /\ lockRedis = NoWorker
    /\ lockRedis' = w
    /\ Goto(w, "item")
    /\ UNCHANGED <<store, op, batch, pos, answer, asked, crashed, faults>>

\* The function returns: its locals are gone, and it lets go of lockRedis.
Return(w, code, data) ==
    /\ answer' = [answer EXCEPT ![w] = [code |-> code, data |-> data]]
    /\ lockRedis' = NoWorker
    /\ Goto(w, "idle")
    /\ batch' = [batch EXCEPT ![w] = <<>>]
    /\ pos' = [pos EXCEPT ![w] = 1]
    /\ UNCHANGED <<op, asked, crashed, faults>>

\* The function is not finished: it goes on with item n at step s.
Continue(w, s, n) ==
    /\ Goto(w, s)
    /\ pos' = [pos EXCEPT ![w] = n]
    /\ UNCHANGED <<lockRedis, op, batch, answer, asked, crashed, faults>>

Die ==
    /\ crashed' = TRUE
    /\ UNCHANGED <<store, lockRedis, step, op, batch, pos, answer, asked, faults>>

\* exists->integer is 0 in an error reply.
ExistsReplies(k) ==
    {store[k] # Absent}
    \cup (IF "error" \in faults THEN {FALSE} ELSE {})
    \cup (IF "stale" \in faults THEN BOOLEAN ELSE {})

\* A command that stores v at k, and then Next: only NULL is taken for a
\* failure, an error reply is not looked at.
Write(w, k, v, Next, unknown) ==
    \/ /\ store' = [store EXCEPT ![k] = v]
       /\ Next
    \/ /\ faults \cap {"error", "stale"} # {}
       /\ UNCHANGED store
       /\ Next
    \/ /\ "throw" \in faults
       /\ store' = [store EXCEPT ![k] = v] \/ UNCHANGED store
       /\ Return(w, unknown, NoData)

\* A command that only reads throws, or has the process read garbage.
ReadFails(w, unknown) ==
    \/ /\ "throw" \in faults
       /\ Return(w, unknown, NoData)
       /\ UNCHANGED store
    \/ "stale" \in faults /\ Die
=============================================================================
