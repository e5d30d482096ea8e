--------------------------- MODULE ClusterCommand ---------------------------
(***************************************************************************)
(* A command sent to the cluster: HiredisCommand::process over a Cluster   *)
(* whose container is a ThreadedPool.  A thread takes a connection of the  *)
(* slot's node, sends the command, gives the connection back and only then *)
(* looks at the reply; on ASK or MOVED it takes a connection of the host   *)
(* the reply names and sends the command again.                            *)
(*                                                                         *)
(* A connection that fails once (con->err) fails for ever: nothing in the  *)
(* code reconnects it.  After a failure redisGetReply leaves the reply     *)
(* pointer uninitialised: it is NULL ("null") or garbage ("stale").        *)
(***************************************************************************)
EXTENDS ThreadedPool

CONSTANTS NodeReplies,     \* what a node may answer to a command
          AskingReplies,   \* what a node may answer to ASKING
          ConnectMayFail   \* whether connect_ may fail

NodeReply == {"ok", "error", "ask", "moved", "clusterdown", "lost"}

ASSUME RepliesAssumption == /\ NodeReplies \subseteq NodeReply
                            /\ AskingReplies \subseteq {"ok", "error", "lost"}
                            /\ ConnectMayFail \in BOOLEAN

VARIABLES
    cmd,      \* how far each thread is in process()
    reply,    \* its reply variable; once idle, what process() did
    broken,   \* the connections whose err is set
    ready,    \* readytouse_
    moved     \* moved_

cmdVars == <<cmd, reply, broken, ready, moved>>
commandVars == <<poolVars, cmdVars>>

\* "base": with the slot's connection.  "check": it is given back.
\* "ask", "moved": with the host's connection.  "resend": ASKING accepted.
\* "give": the final reply is there, the host's connection to be given back.
Phase == {"idle", "base", "check", "ask", "moved", "resend", "give"}
Failure == {"null", "stale"}
Reply == {"none", "thrown", "ok", "error", "ask", "moved", "clusterdown"} \cup Failure

CommandTypeOK ==
    /\ TypeOK
    /\ cmd \in [Threads -> Phase]
    /\ reply \in [Threads -> Reply]
    /\ broken \in SUBSET Connection
    /\ ready \in BOOLEAN
    /\ moved \in BOOLEAN

CommandInit ==
    /\ PoolInit
    /\ cmd = [t \in Threads |-> "idle"]
    /\ reply = [t \in Threads |-> "none"]
    /\ broken = {}
    /\ ready = FALSE
    /\ moved = FALSE

-----------------------------------------------------------------------------
(* Cluster: construction, stop and disconnect, by the owner                *)

InitInsert(s) ==
    /\ ~ready
    /\ InsertSlots(s)
    /\ UNCHANGED cmdVars

\* init has filled a pool for every range of the reply.
InitReady ==
    /\ ~ready
    /\ pc[Owner] = "out"
    /\ \A s \in Slots : pool[s] = "live" /\ Len(queue[s]) = PoolSize
    /\ ready' = TRUE
    /\ UNCHANGED <<poolVars, cmd, reply, broken, moved>>

Stop ==
    /\ ready
    /\ cmd[Owner] = "idle"
    /\ ready' = FALSE
    /\ UNCHANGED <<poolVars, cmd, reply, broken, moved>>

Disconnect ==
    /\ cmd[Owner] = "idle"
    /\ DisconnectNodes \/ DisconnectHosts \/ DrainPull \/ DrainRetest \/ DrainNext
    /\ UNCHANGED cmdVars

-----------------------------------------------------------------------------
(* HiredisCommand::process                                                 *)

\* process() ends with an exception.
Throw(t) ==
    /\ cmd' = [cmd EXCEPT ![t] = "idle"]
    /\ reply' = [reply EXCEPT ![t] = "thrown"]

Goto(t, phase) == cmd' = [cmd EXCEPT ![t] = phase]

\* Variant: a failed read is taken for a reply.
ReceivedAnything(c, answers) == answers

\* What a read on connection c may yield, given the answers of a live node.
Received(c, answers) ==
    IF c \in broken THEN Failure
    ELSE (answers \ {"lost"}) \cup (IF "lost" \in answers THEN Failure ELSE {})

MarkBroken(c, r) == broken' = IF r \in Failure THEN broken \cup {c} ELSE broken

\* getConnection of Cluster, and of the container for the slot's range.
Begin(t, s) ==
    /\ cmd[t] = "idle"
    /\ ready
    /\ GetConnection(t, s)
    /\ Goto(t, "base")
    /\ reply' = [reply EXCEPT ![t] = "none"]
    /\ UNCHANGED <<broken, ready, moved>>

\* NotInitializedException
BeginNotReady(t) ==
    /\ cmd[t] = "idle" /\ pc[t] = "out"
    /\ ~ready
    /\ Throw(t)
    /\ UNCHANGED <<poolVars, broken, ready, moved>>

\* Variant: checkCritical comes before releaseConnection.
QueryChecked(t) ==
    /\ cmd[t] = "base" /\ pc[t] = "use"
    /\ reply[t] = "none"
    /\ \E r \in Received(held[t], NodeReplies) :
         /\ MarkBroken(held[t], r)
         /\ \/ /\ r \notin {"null", "clusterdown"}
               /\ reply' = [reply EXCEPT ![t] = r]
               /\ UNCHANGED <<poolVars, cmd>>
            \/ /\ r \in {"null", "clusterdown"}
               /\ Drop(t)
               /\ Throw(t)
    /\ UNCHANGED <<ready, moved>>

\* The command is sent and its reply read on the slot's connection.
Query(t) ==
    /\ cmd[t] = "base" /\ pc[t] = "use"
    /\ reply[t] = "none"
    /\ \E r \in Received(held[t], NodeReplies) :
         /\ reply' = [reply EXCEPT ![t] = r]
         /\ MarkBroken(held[t], r)
    /\ UNCHANGED <<poolVars, cmd, ready, moved>>

\* Variant: the connection is pushed twice.
GiveBackBaseTwice(t) ==
    /\ cmd[t] = "base" /\ pc[t] = "use"
    /\ reply[t] # "none"
    /\ lock = NoThread
    /\ queue' = [queue EXCEPT ![key[t]] = Append(Append(@, held[t]), held[t])]
    /\ held' = [held EXCEPT ![t] = NoConnection]
    /\ pc' = [pc EXCEPT ![t] = "notify"]
    /\ Goto(t, "check")
    /\ UNCHANGED <<lock, pool, key, drained, leaked, crashed>>
    /\ UNCHANGED <<reply, broken, ready, moved>>

\* The connection goes back to its pool before the reply is looked at.
GiveBackBase(t) ==
    /\ cmd[t] = "base"
    /\ reply[t] # "none"
    /\ Release(t)
    /\ Goto(t, "check")
    /\ UNCHANGED <<reply, broken, ready, moved>>

\* checkCritical( reply, false ) and processResult.  A garbage pointer is
\* taken for a reply, or kills the process.
Check(t) ==
    /\ cmd[t] = "check" /\ pc[t] = "out"
    /\ \/ /\ reply[t] \in {"ok", "error", "stale"}
          /\ Goto(t, "idle")
          /\ UNCHANGED <<reply, poolVars>>
       \/ /\ reply[t] \in {"null", "clusterdown"}
          /\ Throw(t)
          /\ UNCHANGED poolVars
       \/ /\ reply[t] \in {"ask", "moved"}
          /\ Goto(t, reply[t])
          /\ reply' = [reply EXCEPT ![t] = "none"]
          /\ UNCHANGED poolVars
       \/ /\ reply[t] = "stale"
          /\ CallerCrash
          /\ UNCHANGED <<cmd, reply>>
    /\ UNCHANGED <<broken, ready, moved>>

\* createNewConnection for the host the reply names.
Redirect(t, h) ==
    /\ cmd[t] \in {"ask", "moved"}
    /\ InsertKnownHost(t, h) \/ InsertNewHost(t, h)
    /\ UNCHANGED cmdVars

\* The host's connection has its err set: LogicError, and the
\* releaseConnection behind the throw is never reached.
HostBroken(t) ==
    /\ cmd[t] \in {"ask", "moved"} /\ pc[t] = "use"
    /\ held[t] \in broken
    /\ Drop(t)
    /\ Throw(t)
    /\ UNCHANGED <<broken, ready, moved>>

\* redisCommand returns NULL on failure: its reply is never garbage.
Asking(t) ==
    /\ cmd[t] = "ask" /\ pc[t] = "use"
    /\ held[t] \notin broken
    /\ \E r \in Received(held[t], AskingReplies) \ {"stale"} :
         /\ MarkBroken(held[t], r)
         /\ \/ /\ r = "ok"
               /\ Goto(t, "resend")
               /\ UNCHANGED <<poolVars, reply>>
            \/ /\ r # "ok"
               /\ Drop(t)
               /\ Throw(t)
    /\ UNCHANGED <<ready, moved>>

\* After ASK the reply is checked, and a throw drops the connection.  The
\* check reads through the pointer: garbage passes it or kills the process.
Resend(t) ==
    /\ cmd[t] = "resend"
    /\ \E r \in Received(held[t], NodeReplies) :
         /\ MarkBroken(held[t], r)
         /\ \/ /\ r \notin {"null", "clusterdown"}
               /\ Goto(t, "give")
               /\ reply' = [reply EXCEPT ![t] = r]
               /\ UNCHANGED poolVars
            \/ /\ r \in {"null", "clusterdown"}
               /\ Drop(t)
               /\ Throw(t)
            \/ /\ r = "stale"
               /\ CallerCrash
               /\ UNCHANGED <<cmd, reply>>
    /\ UNCHANGED <<ready, moved>>

\* After MOVED it is not: a failure is returned like a reply.
ResendMoved(t) ==
    /\ cmd[t] = "moved" /\ pc[t] = "use"
    /\ held[t] \notin broken
    /\ \E r \in Received(held[t], NodeReplies) :
         /\ MarkBroken(held[t], r)
         /\ reply' = [reply EXCEPT ![t] = r]
    /\ moved' = TRUE
    /\ Goto(t, "give")
    /\ UNCHANGED <<poolVars, ready>>

\* Variant: the host's connection is not released.
ForgetHost(t) ==
    /\ cmd[t] = "give"
    /\ Drop(t)
    /\ Goto(t, "idle")
    /\ UNCHANGED <<reply, broken, ready, moved>>

\* The command succeeded on the host's connection, which is released.
GiveBackHost(t) ==
    /\ cmd[t] = "give"
    /\ Release(t)
    /\ Goto(t, "idle")
    /\ UNCHANGED <<reply, broken, ready, moved>>

\* The steps inside the container that are the same for every caller.
InContainer(t) ==
    /\ Retest(t) \/ Notify(t) \/ FillDone(t)
    /\ UNCHANGED cmdVars

\* Nothing forces it: it is apart from the steps a thread takes by itself.
WakeSpuriously(t) ==
    /\ SpuriousWake(t)
    /\ UNCHANGED cmdVars

Connect(t) ==
    /\ FillConnect(t)
    /\ broken' = broken \ {<<key[t], Len(queue[key[t]]) + 1>>}
    /\ UNCHANGED <<cmd, reply, ready, moved>>

\* ConnectionFailedException, from process() or from the constructor.
ConnectFails(t) ==
    /\ ConnectMayFail
    /\ FillFail(t)
    /\ Throw(t)
    /\ UNCHANGED <<broken, ready, moved>>

\* The null dereferences of the container, at the calls that reach them.
ContainerCrash(t) ==
    /\ \/ cmd[t] = "idle" /\ ready /\ pc[t] = "out"
       \/ cmd[t] \in {"ask", "moved"} /\ pc[t] = "out"
       \/ cmd[t] \in {"base", "give"} /\ pc[t] = "use"
    /\ Crash(t)
    /\ UNCHANGED cmdVars

\* The steps of a command once it has begun.
CommandStep(t) ==
    \/ Query(t) \/ GiveBackBase(t) \/ Check(t)
    \/ \E h \in Hosts : Redirect(t, h)
    \/ HostBroken(t) \/ Asking(t) \/ Resend(t) \/ ResendMoved(t) \/ GiveBackHost(t)
    \/ InContainer(t) \/ Connect(t) \/ ConnectFails(t)

\* Constructing the cluster.
Construct == InitReady \/ \E s \in Slots : InitInsert(s)

CommandNext ==
    /\ ~crashed
    /\ \/ Construct \/ Stop \/ Disconnect
       \/ \E t \in Threads :
            \/ \E s \in Slots : Begin(t, s)
            \/ BeginNotReady(t) \/ CommandStep(t) \/ WakeSpuriously(t)
            \/ ContainerCrash(t)

CommandSpec == CommandInit /\ [][CommandNext]_commandVars

\* A thread is in a blocking call that only the other side can end: the
\* connect of fillPool, or the read of a reply on a connection that is not
\* broken.  connectFunction sets no timeout for either, so a node that hangs
\* keeps the thread, and what it has locked, for ever.
AwaitsNode(t) ==
    \/ pc[t] = "fill" /\ Len(queue[key[t]]) < PoolSize
    \/ /\ pc[t] = "use"
       /\ held[t] \notin broken
       /\ \/ cmd[t] = "base" /\ reply[t] = "none"
          \/ cmd[t] \in {"ask", "moved", "resend"}

\* What the liveness properties assume of the nodes: every connect and every
\* read ends, with an answer or with a failure.
NodesAnswer == \A t \in Threads : []<>~AwaitsNode(t)

-----------------------------------------------------------------------------
(* Properties                                                              *)

\* Whatever the nodes answer and whatever fails, a connection of a slot pool
\* is never lost: process() gives it back before it looks at the reply.
BaseConnectionsReturn == \A c \in leaked : c[1] \in Hosts

\* A command that ends with a reply leaves nothing behind: it holds no
\* connection and has lost none; only the exception paths leak.
ReturnsEmptyHanded ==
    [][\A t \in Threads :
         cmd[t] # "idle" /\ cmd'[t] = "idle" /\ reply'[t] # "thrown" =>
             held'[t] = NoConnection /\ leaked' = leaked]_commandVars

\* How far the next property is true of the code: no thread sleeps on an empty
\* pool that nobody will push to, unless a connect has failed or a connection
\* of that pool was dropped; all others are somewhere.
SleepersWaitForSomebody ==
    ~ConnectMayFail =>
        \A k \in Keys :
            Waiting(k) # {} /\ (\A c \in leaked : c[1] # k) =>
                queue[k] # <<>> \/ Holders(k) # {} \/ Awake(k) # {}

\* "here we wait for other threads for release their connections": a thread
\* that sleeps on an empty pool has a thread to wait for, one that holds a
\* connection of the pool or is awake in it.
WaitersHaveAHolder ==
    \A k \in Keys :
        Waiting(k) # {} => queue[k] # <<>> \/ Holders(k) # {} \/ Awake(k) # {}
=============================================================================
