----------------------------- MODULE RedisService -----------------------------
(***************************************************************************)
(* The HTTP workers as users of the cluster: every operation of            *)
(* redis_source.hpp takes lockRedis, sends its commands one after another  *)
(* on the global cluster, and lets go of lockRedis when it returns or      *)
(* throws.  Which commands an operation sends is left to SessionStore; here *)
(* it is a number of them.  The cluster is created by serverRedisResource  *)
(* before the server starts and is never stopped or deleted.               *)
(***************************************************************************)
EXTENDS ClusterCommand

CONSTANTS MaxRequests,   \* bound: requests a worker serves
          MaxCommands    \* bound: commands of one request

ASSUME BoundsAssumption == MaxRequests \in Nat /\ MaxCommands \in Nat

VARIABLES
    lockRedis,   \* owner of the mutex lockRedis
    worker,      \* what each worker does
    left,        \* commands its operation has still to send
    served       \* requests it has finished

serviceVars == <<lockRedis, worker, left, served>>
redisServiceVars == <<commandVars, serviceVars>>

Workers == Threads \ {Owner}

WorkerState == {"idle", "waiting", "operation"}

ServiceTypeOK ==
    /\ CommandTypeOK
    /\ lockRedis \in Workers \cup {NoThread}
    /\ worker \in [Workers -> WorkerState]
    /\ left \in [Workers -> 0..MaxCommands]
    /\ served \in [Workers -> 0..MaxRequests]

ServiceInit ==
    /\ CommandInit
    /\ lockRedis = NoThread
    /\ worker = [t \in Workers |-> "idle"]
    /\ left = [t \in Workers |-> 0]
    /\ served = [t \in Workers |-> 0]

\* createCluster: when it throws, no resource is registered and no worker
\* ever reaches the cluster.
CreateCluster ==
    /\ Construct \/ Connect(Owner) \/ ConnectFails(Owner) \/ InContainer(Owner)
    /\ UNCHANGED serviceVars

\* A request arrives for a worker and waits for lockRedis.
Request(t) ==
    /\ ready
    /\ worker[t] = "idle"
    /\ served[t] < MaxRequests
    /\ worker' = [worker EXCEPT ![t] = "waiting"]
    /\ UNCHANGED <<commandVars, lockRedis, left, served>>

\* Variant: the mutex is ignored.
LockRedisIgnored(t) ==
    /\ worker[t] = "waiting"
    /\ lockRedis' = t
    /\ worker' = [worker EXCEPT ![t] = "operation"]
    /\ \E n \in 0..MaxCommands : left' = [left EXCEPT ![t] = n]
    /\ UNCHANGED <<commandVars, served>>

\* The lock_guard of the operation; the operation will send some commands.
LockRedis(t) ==
    /\ worker[t] = "waiting"
    /\ lockRedis = NoThread
    /\ lockRedis' = t
    /\ worker' = [worker EXCEPT ![t] = "operation"]
    /\ \E n \in 0..MaxCommands : left' = [left EXCEPT ![t] = n]
    /\ UNCHANGED <<commandVars, served>>

Between(t) == worker[t] = "operation" /\ cmd[t] = "idle" /\ pc[t] = "out"

SendCommand(t) ==
    /\ Between(t)
    /\ left[t] > 0
    /\ \E s \in Slots : Begin(t, s)
    /\ left' = [left EXCEPT ![t] = @ - 1]
    /\ UNCHANGED <<lockRedis, worker, served>>

OperationCommand(t) ==
    /\ worker[t] = "operation"
    /\ CommandStep(t)
    /\ left' = IF reply'[t] = "thrown" THEN [left EXCEPT ![t] = 0] ELSE left
    /\ UNCHANGED <<lockRedis, worker, served>>

\* The operation reads a field of a reply that is no reply.
BadReply(t) ==
    /\ Between(t)
    /\ reply[t] \in Failure
    /\ CallerCrash
    /\ UNCHANGED <<cmdVars, serviceVars>>

\* Variant: an exception leaves the mutex locked.
UnlockUnlessThrown(t) ==
    /\ Between(t)
    /\ left[t] = 0
    /\ lockRedis' = IF reply[t] = "thrown" THEN lockRedis ELSE NoThread
    /\ worker' = [worker EXCEPT ![t] = "idle"]
    /\ served' = [served EXCEPT ![t] = @ + 1]
    /\ UNCHANGED <<commandVars, left>>

\* The lock_guard is destroyed: the operation has returned or thrown.
Unlock(t) ==
    /\ Between(t)
    /\ left[t] = 0
    /\ lockRedis' = NoThread
    /\ worker' = [worker EXCEPT ![t] = "idle"]
    /\ served' = [served EXCEPT ![t] = @ + 1]
    /\ UNCHANGED <<commandVars, left>>

WorkerStep(t) ==
    LockRedis(t) \/ SendCommand(t) \/ OperationCommand(t) \/ BadReply(t) \/ Unlock(t)

ServiceNext ==
    /\ ~crashed
    /\ \/ CreateCluster
       \/ \E t \in Workers : \/ Request(t) \/ WorkerStep(t)
                             \/ WakeSpuriously(t) /\ UNCHANGED serviceVars

\* The scheduler runs every worker that can run, but nothing makes a blocking
\* call to a node return, and requests need not come.  With finitely many
\* requests nobody can be overtaken for ever.
ServiceFairness ==
    \A t \in Workers : WF_redisServiceVars(WorkerStep(t) /\ ~AwaitsNode(t))

ServiceSpec ==
    ServiceInit /\ [][ServiceNext]_redisServiceVars /\ ServiceFairness

-----------------------------------------------------------------------------
(* Properties                                                              *)

\* Behind lockRedis the pools see one thread at a time: at most one worker is
\* in the container or holds a connection, and it owns lockRedis.
OneWorkerAtATime ==
    \A t \in Workers : pc[t] # "out" \/ held[t] # NoConnection => lockRedis = t

\* A worker never sleeps for a connection of a slot's node: whatever failed
\* before, the pool of a slot has all its connections back.
SlotPoolNeverDry ==
    ready => \A s \in Slots :
               /\ Waiting(s) = {}
               /\ Len(queue[s]) + Cardinality(Holders(s)) = PoolSize

\* A worker sleeps on the empty pool of a host, and nobody is left who could
\* give a connection back to it.
SleepsForEver ==
    \E h \in Hosts : Waiting(h) # {} /\ queue[h] = <<>> /\ Holders(h) = {}

\* Every request that is accepted is answered, whatever failed before.  Three
\* things only can prevent it: a node that hangs, so that a worker waits for it
\* for ever while it owns lockRedis; the death of the process; and a host's
\* pool that failures have emptied.  Never the pool of a slot, nor the lock.
RequestsAreServed ==
    NodesAnswer =>
        \A t \in Workers :
            worker[t] = "waiting" ~> (worker[t] = "idle" \/ crashed \/ SleepsForEver)
=============================================================================
