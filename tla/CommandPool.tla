----------------------------- MODULE CommandPool -----------------------------
(***************************************************************************)
(* processCommandPool of redis_source.hpp: the main thread (Owner) creates *)
(* a cluster, starts one thread per command, joins them all and deletes    *)
(* the cluster.  Every thread runs commandThread: one command, whose reply *)
(* is asserted to be "OK", then ++cnt under lockRedis.                     *)
(***************************************************************************)
EXTENDS ClusterCommand

VARIABLES
    main,     \* how far the main thread is
    thread,   \* how far each command thread is
    cnt       \* the counter the threads print

mainVars == <<main, thread, cnt>>
commandPoolVars == <<commandVars, mainVars>>

Commanders == Threads \ {Owner}

\* "deleted": the destructor of the cluster is over.
MainState == {"create", "run", "delete", "deleted"}
\* "counted": ++cnt is done and the thread has ended.
CommandThreadState == {"unborn", "command", "counted"}

CommandPoolTypeOK ==
    /\ CommandTypeOK
    /\ main \in MainState
    /\ thread \in [Commanders -> CommandThreadState]
    /\ cnt \in Nat

CommandPoolInit ==
    /\ CommandInit
    /\ main = "create"
    /\ thread = [t \in Commanders |-> "unborn"]
    /\ cnt = 0

\* createCluster, up to the point where it returns or throws.
Create ==
    /\ main = "create"
    /\ \/ Construct \/ Connect(Owner) \/ InContainer(Owner)
       \/ ConnectFails(Owner)
    /\ main' = IF ready' THEN "run" ELSE main
    /\ UNCHANGED <<thread, cnt>>

Spawn(t) ==
    /\ main = "run"
    /\ thread[t] = "unborn"
    /\ \E s \in Slots : Begin(t, s)
    /\ thread' = [thread EXCEPT ![t] = "command"]
    /\ UNCHANGED <<main, cnt>>

Command(t) ==
    /\ thread[t] = "command"
    /\ CommandStep(t)
    /\ UNCHANGED mainVars

\* The command returned "OK": the assertion holds and the thread counts.
Count(t) ==
    /\ thread[t] = "command"
    /\ cmd[t] = "idle" /\ pc[t] = "out"
    /\ reply[t] = "ok"
    /\ cnt' = cnt + 1
    /\ thread' = [thread EXCEPT ![t] = "counted"]
    /\ UNCHANGED <<main, commandVars>>

\* An exception leaves the thread function, or the assertion fails, or the
\* reply is no pointer to a reply: the process ends.
Abort(t) ==
    /\ thread[t] = "command"
    /\ cmd[t] = "idle" /\ pc[t] = "out"
    /\ reply[t] # "ok"
    /\ CallerCrash
    /\ UNCHANGED <<cmdVars, mainVars>>

\* Variant: the threads are not joined.
JoinNobody ==
    /\ main = "run"
    /\ main' = "delete"
    /\ UNCHANGED <<commandVars, thread, cnt>>

\* The last join returns.
Join ==
    /\ main = "run"
    /\ \A t \in Commanders : thread[t] = "counted"
    /\ main' = "delete"
    /\ UNCHANGED <<commandVars, thread, cnt>>

\* delete cluster_p: the container's destructor disconnects.
Delete ==
    /\ main = "delete"
    /\ \/ Disconnect
       \/ InContainer(Owner)
    /\ main' = IF pc'[Owner] = "out" THEN "deleted" ELSE main
    /\ UNCHANGED <<thread, cnt>>

CommandPoolNext ==
    /\ ~crashed
    /\ \/ Create \/ Join \/ Delete
       \/ \E t \in Commanders : Spawn(t) \/ Command(t) \/ Count(t) \/ Abort(t)
       \/ \E t \in Threads : WakeSpuriously(t) /\ UNCHANGED mainVars

\* The scheduler runs every thread that can run, but nothing makes a blocking
\* call to a node return.  (The connect of createCluster has a timeout; those
\* of the pools, and all reads, have none.)  Nothing is assumed about who gets
\* a mutex or a notification, and nobody wakes up without one.
CommandPoolFairness ==
    /\ WF_commandPoolVars(Create /\ ~AwaitsNode(Owner))
    /\ WF_commandPoolVars(Join) /\ WF_commandPoolVars(Delete)
    /\ \A t \in Commanders :
         /\ WF_commandPoolVars(Spawn(t))
         /\ WF_commandPoolVars(Command(t) /\ ~AwaitsNode(t))
         /\ WF_commandPoolVars(Count(t)) /\ WF_commandPoolVars(Abort(t))

CommandPoolSpec ==
    CommandPoolInit /\ [][CommandPoolNext]_commandPoolVars /\ CommandPoolFairness

-----------------------------------------------------------------------------
(* Properties                                                              *)

\* The cluster is deleted with nobody inside a pool: because of the join, no
\* thread still has to notify, or sleeps, in a ConPool that delete frees.
NobodyInDeletedPool == \A t \in Threads : pc[t] # "dangling"

\* No command thread dereferences a null or missing pool: all have ended when
\* the destructor makes the entries of the maps null and clears the maps.  So
\* no action here is ContainerCrash.
NoNullDereference ==
    main # "create" => \A t \in Commanders : thread[t] # "counted" => ~NullEntry(t)

\* Deleting the cluster frees every connection that was opened.
DeletedClusterIsEmpty ==
    main = "deleted" => /\ \A k \in Keys : pool[k] = "none" /\ queue[k] = <<>>
                        /\ \A t \in Threads : held[t] = NoConnection
                        /\ leaked = {} /\ cnt = Cardinality(Commanders)

\* More threads than connections: all the same every command is served, the
\* joins return, and the destructor ends, unless the process died or a node
\* hangs and keeps a thread for ever.
PoolRunsToTheEnd == NodesAnswer => <>(main = "deleted" \/ crashed)
=============================================================================
