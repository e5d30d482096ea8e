---------------------------- MODULE ThreadedPool ----------------------------
(***************************************************************************)
(* The connection container shared by all worker threads, class            *)
(* ThreadedPool of redis_source.hpp: one pool of PoolSize connections per  *)
(* slot range of the cluster (map nodes_) and one per host reached by a    *)
(* redirection (map connections_), all protected by the mutex conLock_;    *)
(* each pool is a queue and a condition variable.                          *)
(*                                                                         *)
(* A critical section that cannot block is one atomic step, enabled when   *)
(* nobody owns conLock_.  The two sections that take time while they own   *)
(* it are explicit: filling a pool (blocking connects) and disconnect.     *)
(*                                                                         *)
(* A thread here is any caller: it takes a connection, uses it, and gives  *)
(* it back or drops it.  ClusterCommand says what the real caller does.    *)
(***************************************************************************)
EXTENDS Naturals, Sequences, FiniteSets

CONSTANTS Threads,       \* the callers
          Owner,         \* the thread that fills the slot pools and disconnects
          Slots,         \* keys of nodes_: slot ranges, ordered as std::map orders them
          Hosts,         \* keys of connections_: "host:port", likewise
          PoolSize,      \* poolSize_ (10 in the code)
          NoThread, NoKey, NoConnection

Keys == Slots \cup Hosts
Connection == Keys \X (1..PoolSize)

ASSUME ThreadsAssumption == Owner \in Threads /\ NoThread \notin Threads
ASSUME KeysAssumption == /\ Slots \subseteq Nat
                         /\ Hosts \subseteq Nat
                         /\ Slots \cap Hosts = {}
                         /\ NoKey \notin Keys
ASSUME PoolSizeAssumption == PoolSize \in Nat \ {0}
ASSUME NoConnectionAssumption == NoConnection \notin Connection

VARIABLES
    lock,      \* owner of conLock_ between two steps
    pool,      \* the map entry of a key, and the ConPool it points to
    queue,     \* ConPool.second: the free connections
    pc,        \* where each thread is
    key,       \* the pool each thread is in, or holds a connection of
    held,      \* the connection each thread holds
    drained,   \* connections disconnect() has pulled from the current pool
    leaked,    \* connections dropped by a thread (for the properties only)
    crashed    \* the process dereferenced a null pool and is gone

poolVars == <<lock, pool, queue, pc, key, held, drained, leaked, crashed>>

\* "none": no entry in the map.       "live": the entry points to a ConPool.
\* "null": deleted by disconnect, the map not cleared yet.
\* "orphan": the map was cleared but the ConPool was never deleted.
PoolState == {"none", "live", "null", "orphan"}

\* "out": not in the container.       "use": outside it with a connection.
\* "fill": in fillPool.               "notify": unlocked, notify_one to come.
\* "wait"/"woken": in cv.wait, before and after a wake-up.
\* "drain", "drainWait", "drainWoken": the same inside disconnect().
\* "between": nodes_ disconnected, connections_ to come.
\* "dangling": inside a ConPool that has been deleted.
ThreadState == {"out", "use", "fill", "notify", "wait", "woken", "drain",
                "drainWait", "drainWoken", "between", "dangling"}

TypeOK ==
    /\ lock \in Threads \cup {NoThread}
    /\ pool \in [Keys -> PoolState]
    /\ queue \in [Keys -> Seq(Connection)]
    /\ pc \in [Threads -> ThreadState]
    /\ key \in [Threads -> Keys \cup {NoKey}]
    /\ held \in [Threads -> Connection \cup {NoConnection}]
    /\ drained \in SUBSET Connection
    /\ leaked \in SUBSET Connection
    /\ crashed \in BOOLEAN

Waiting(k) == {t \in Threads : pc[t] \in {"wait", "drainWait"} /\ key[t] = k}
Awake(k) == {t \in Threads : pc[t] \in {"woken", "drainWoken", "drain"} /\ key[t] = k}
Notifying(k) == {t \in Threads : pc[t] = "notify" /\ key[t] = k}
Inside(k) == Waiting(k) \cup Awake(k) \cup Notifying(k)
Holders(k) == {t \in Threads : held[t] # NoConnection /\ held[t][1] = k}

InMap(M) == {k \in M : pool[k] \in {"live", "null"}}
MapOf(k) == IF k \in Slots THEN Slots ELSE Hosts

PoolInit ==
    /\ lock = NoThread
    /\ pool = [k \in Keys |-> "none"]
    /\ queue = [k \in Keys |-> <<>>]
    /\ pc = [t \in Threads |-> "out"]
    /\ key = [t \in Threads |-> NoKey]
    /\ held = [t \in Threads |-> NoConnection]
    /\ drained = {}
    /\ leaked = {}
    /\ crashed = FALSE

-----------------------------------------------------------------------------
(* pullConnection and pushConnection                                       *)

\* Variant: the front connection is not popped.
PullKeepsFront(t, k) ==
    /\ key' = [key EXCEPT ![t] = k]
    /\ queue[k] # <<>>
    /\ held' = [held EXCEPT ![t] = Head(queue[k])]
    /\ pc' = [pc EXCEPT ![t] = "use"]
    /\ UNCHANGED queue

\* The loop test of pullConnection, with conLock_ owned by t: the front
\* connection is taken and the lock dropped by the caller's return, or the
\* thread goes to sleep, which drops the lock too.
Pull(t, k) ==
    /\ key' = [key EXCEPT ![t] = k]
    /\ \/ /\ queue[k] # <<>>
          /\ queue' = [queue EXCEPT ![k] = Tail(@)]
          /\ held' = [held EXCEPT ![t] = Head(queue[k])]
          /\ pc' = [pc EXCEPT ![t] = "use"]
       \/ /\ queue[k] = <<>>
          /\ pc' = [pc EXCEPT ![t] = "wait"]
          /\ UNCHANGED <<queue, held>>

\* A woken thread owns conLock_ again and returns to the loop test.
Retest(t) ==
    /\ pc[t] = "woken"
    /\ lock = NoThread
    /\ Pull(t, key[t])
    /\ UNCHANGED <<lock, pool, drained, leaked, crashed>>

\* cv.wait may return without a notification.
SpuriousWake(t) ==
    /\ pc[t] \in {"wait", "drainWait"}
    /\ pc' = [pc EXCEPT ![t] = IF @ = "wait" THEN "woken" ELSE "drainWoken"]
    /\ UNCHANGED <<lock, pool, queue, key, held, drained, leaked, crashed>>

\* Variant: the connection is not pushed.
ReleaseUnqueued(t) ==
    /\ pc[t] = "use"
    /\ lock = NoThread
    /\ pool[key[t]] = "live"
    /\ held' = [held EXCEPT ![t] = NoConnection]
    /\ pc' = [pc EXCEPT ![t] = "notify"]
    /\ UNCHANGED <<lock, pool, queue, key, drained, leaked, crashed>>

\* releaseConnection up to the unlock in pushConnection.
Release(t) ==
    /\ pc[t] = "use"
    /\ lock = NoThread
    /\ pool[key[t]] = "live"
    /\ queue' = [queue EXCEPT ![key[t]] = Append(@, held[t])]
    /\ held' = [held EXCEPT ![t] = NoConnection]
    /\ pc' = [pc EXCEPT ![t] = "notify"]
    /\ UNCHANGED <<lock, pool, key, drained, leaked, crashed>>

\* Variant: nobody is notified.
NotifyNobody(t) ==
    /\ pc[t] = "notify"
    /\ pc' = [pc EXCEPT ![t] = "out"]
    /\ key' = [key EXCEPT ![t] = NoKey]
    /\ UNCHANGED <<lock, pool, queue, held, drained, leaked, crashed>>

\* notify_one, after the unlock: it wakes some waiter of that pool, if any.
Notify(t) ==
    /\ pc[t] = "notify"
    /\ \/ /\ Waiting(key[t]) = {}
          /\ pc' = [pc EXCEPT ![t] = "out"]
       \/ \E w \in Waiting(key[t]) :
            pc' = [pc EXCEPT ![t] = "out",
                             ![w] = IF @ = "wait" THEN "woken" ELSE "drainWoken"]
    /\ key' = [key EXCEPT ![t] = NoKey]
    /\ UNCHANGED <<lock, pool, queue, held, drained, leaked, crashed>>

\* A caller that returns or throws without releasing its connection.
Drop(t) ==
    /\ pc[t] = "use"
    /\ pc' = [pc EXCEPT ![t] = "out"]
    /\ held' = [held EXCEPT ![t] = NoConnection]
    /\ key' = [key EXCEPT ![t] = NoKey]
    /\ leaked' = leaked \cup {held[t]}
    /\ UNCHANGED <<lock, pool, queue, drained, crashed>>

-----------------------------------------------------------------------------
(* getConnection and the two insert functions                              *)

GetConnection(t, s) ==
    /\ pc[t] = "out"
    /\ lock = NoThread
    /\ pool[s] = "live"
    /\ Pull(t, s)
    /\ UNCHANGED <<lock, pool, drained, leaked, crashed>>

\* nodes_[slots] = new ConPool().  Only the constructor of Cluster calls
\* it, once for every range of the CLUSTER SLOTS reply.
InsertSlots(s) ==
    /\ pc[Owner] = "out"
    /\ lock = NoThread
    /\ pool[s] = "none"
    /\ lock' = Owner
    /\ pool' = [pool EXCEPT ![s] = "live"]
    /\ pc' = [pc EXCEPT ![Owner] = "fill"]
    /\ key' = [key EXCEPT ![Owner] = s]
    /\ UNCHANGED <<queue, held, drained, leaked, crashed>>

\* The host is known: insert is a pullConnection on its pool.
InsertKnownHost(t, h) ==
    /\ pc[t] = "out"
    /\ lock = NoThread
    /\ pool[h] = "live"
    /\ Pull(t, h)
    /\ UNCHANGED <<lock, pool, drained, leaked, crashed>>

\* The host is new: its pool enters the map before it has a connection.  (An
\* orphaned host would get a second ConPool here; the model stops there.)
InsertNewHost(t, h) ==
    /\ pc[t] = "out"
    /\ lock = NoThread
    /\ pool[h] = "none"
    /\ lock' = t
    /\ pool' = [pool EXCEPT ![h] = "live"]
    /\ pc' = [pc EXCEPT ![t] = "fill"]
    /\ key' = [key EXCEPT ![t] = h]
    /\ UNCHANGED <<queue, held, drained, leaked, crashed>>

\* Variant: the loop runs to i <= poolSize_.
FillConnectOneMore(t) ==
    /\ pc[t] = "fill"
    /\ Len(queue[key[t]]) <= PoolSize
    /\ queue' = [queue EXCEPT ![key[t]] = Append(@, <<key[t], Len(@) + 1>>)]
    /\ UNCHANGED <<lock, pool, pc, key, held, drained, leaked, crashed>>

\* One turn of the loop of fillPool, conLock_ owned during the connect.
FillConnect(t) ==
    /\ pc[t] = "fill"
    /\ Len(queue[key[t]]) < PoolSize
    /\ queue' = [queue EXCEPT ![key[t]] = Append(@, <<key[t], Len(@) + 1>>)]
    /\ UNCHANGED <<lock, pool, pc, key, held, drained, leaked, crashed>>

\* The connect fails: ConnectionFailedException leaves insert, the guard
\* unlocks, and the pool stays in the map with what it has.
FillFail(t) ==
    /\ pc[t] = "fill"
    /\ Len(queue[key[t]]) < PoolSize
    /\ pc' = [pc EXCEPT ![t] = "out"]
    /\ key' = [key EXCEPT ![t] = NoKey]
    /\ lock' = NoThread
    /\ UNCHANGED <<pool, queue, held, drained, leaked, crashed>>

\* The pool is full: insert(slots) returns, insert(host) pulls one.
FillDone(t) ==
    /\ pc[t] = "fill"
    /\ Len(queue[key[t]]) = PoolSize
    /\ lock' = NoThread
    /\ \/ /\ key[t] \in Slots
          /\ pc' = [pc EXCEPT ![t] = "out"]
          /\ key' = [key EXCEPT ![t] = NoKey]
          /\ UNCHANGED <<queue, held>>
       \/ key[t] \in Hosts /\ Pull(t, key[t])
    /\ UNCHANGED <<pool, drained, leaked, crashed>>

-----------------------------------------------------------------------------
(* disconnect: both maps in turn, each under one acquisition of conLock_    *)

\* The iterator moves to entry k.
DrainFrom(k) ==
    /\ lock' = Owner
    /\ pc' = [pc EXCEPT ![Owner] = "drain"]
    /\ key' = [key EXCEPT ![Owner] = k]
    /\ drained' = {}

Smallest(S) == {k \in S : \A j \in S : k <= j}

\* disconnect<ClusterNodes>( nodes_ ) starts; an empty map is done at once.
DisconnectNodes ==
    /\ pc[Owner] = "out"
    /\ lock = NoThread
    /\ \/ \E k \in Smallest(InMap(Slots)) : DrainFrom(k)
       \/ /\ InMap(Slots) = {}
          /\ pc' = [pc EXCEPT ![Owner] = "between"]
          /\ UNCHANGED <<lock, key, drained>>
    /\ UNCHANGED <<pool, queue, held, leaked, crashed>>

\* disconnect<RedirectConnections>( connections_ ) starts.
DisconnectHosts ==
    /\ pc[Owner] = "between"
    /\ lock = NoThread
    /\ \/ \E k \in Smallest(InMap(Hosts)) : DrainFrom(k)
       \/ /\ InMap(Hosts) = {}
          /\ pc' = [pc EXCEPT ![Owner] = "out"]
          /\ UNCHANGED <<lock, key, drained>>
    /\ UNCHANGED <<pool, queue, held, leaked, crashed>>

\* Variant: the loop starts at i = 1.
AllPulledButOne == Cardinality(drained) = PoolSize - 1

\* The for loop of disconnect is over.
AllPulled == Cardinality(drained) = PoolSize

\* disconnect_( pullConnection( locker, *it->second ) )
DrainPull ==
    /\ pc[Owner] = "drain"
    /\ ~AllPulled
    /\ LET k == key[Owner] IN
       \/ /\ queue[k] # <<>>
          /\ queue' = [queue EXCEPT ![k] = Tail(@)]
          /\ drained' = drained \cup {Head(queue[k])}
          /\ UNCHANGED <<lock, pc>>
       \/ /\ queue[k] = <<>>
          /\ lock' = NoThread
          /\ pc' = [pc EXCEPT ![Owner] = "drainWait"]
          /\ UNCHANGED <<queue, drained>>
    /\ UNCHANGED <<pool, key, held, leaked, crashed>>

DrainRetest ==
    /\ pc[Owner] = "drainWoken"
    /\ lock = NoThread
    /\ lock' = Owner
    /\ pc' = [pc EXCEPT ![Owner] = "drain"]
    /\ UNCHANGED <<pool, queue, key, held, drained, leaked, crashed>>

\* poolSize_ connections are freed: the pool is deleted, whoever is still
\* inside it, and the iterator moves on or the map is cleared.
DrainNext ==
    /\ pc[Owner] = "drain"
    /\ AllPulled
    /\ LET k == key[Owner]
           M == MapOf(k)
           later == {j \in InMap(M) : j > k}
           gone(t) == t # Owner /\ t \in Inside(k)
           left(p, stage) == [t \in Threads |-> IF t = Owner THEN stage
                                                ELSE IF gone(t) THEN "dangling" ELSE p[t]]
       IN \/ \E j \in Smallest(later) :
               /\ pool' = [pool EXCEPT ![k] = "null"]
               /\ key' = [key EXCEPT ![Owner] = j]
               /\ pc' = left(pc, "drain")
               /\ UNCHANGED lock
          \/ /\ later = {}
             /\ pool' = [j \in Keys |-> IF j \notin M THEN pool[j]
                                        ELSE IF j = k \/ pool[j] = "null" THEN "none"
                                        ELSE IF pool[j] = "live" THEN "orphan" ELSE pool[j]]
             /\ pc' = left(pc, IF M = Slots THEN "between" ELSE "out")
             /\ key' = [key EXCEPT ![Owner] = NoKey]
             /\ lock' = NoThread
    /\ drained' = {}
    /\ UNCHANGED <<queue, held, leaked, crashed>>

-----------------------------------------------------------------------------
(* A map entry that is null, or an empty map, is dereferenced: the process  *)
(* dies.  getConnection finds no range, insert finds a deleted pool,        *)
(* releaseConnection has operator[] create a null entry.                    *)
NullEntry(t) ==
    \/ /\ pc[t] = "out"
       /\ \/ InMap(Slots) = {}
          \/ \E k \in Keys : pool[k] = "null"
    \/ /\ pc[t] = "use"
       /\ pool[key[t]] # "live"

Crash(t) ==
    /\ lock = NoThread
    /\ NullEntry(t)
    /\ crashed' = TRUE
    /\ UNCHANGED <<lock, pool, queue, pc, key, held, drained, leaked>>

\* The process may also die in code of the caller.
CallerCrash ==
    /\ crashed' = TRUE
    /\ UNCHANGED <<lock, pool, queue, pc, key, held, drained, leaked>>

PoolStep(t) ==
    \/ Retest(t) \/ SpuriousWake(t) \/ Release(t) \/ Notify(t) \/ Drop(t)
    \/ \E s \in Slots : GetConnection(t, s)
    \/ \E h \in Hosts : InsertKnownHost(t, h) \/ InsertNewHost(t, h)
    \/ FillConnect(t) \/ FillFail(t) \/ FillDone(t)
    \/ Crash(t)

OwnerStep ==
    \/ \E s \in Slots : InsertSlots(s)
    \/ DisconnectNodes \/ DisconnectHosts
    \/ DrainPull \/ DrainRetest \/ DrainNext

PoolNext ==
    /\ ~crashed
    /\ OwnerStep \/ CallerCrash \/ \E t \in Threads : PoolStep(t)

\* The container with callers that behave.  As a property of a caller: every
\* step of HiredisCommand and Cluster uses the container as it may be used,
\* it releases a connection only while it holds it, once, and to the pool it
\* came from, and never takes a second one before.
PoolSpec == PoolInit /\ [][PoolNext]_poolVars

-----------------------------------------------------------------------------
(* Properties                                                              *)

\* No connection is in two places: twice in a queue, in a queue and in the
\* hands of a thread, of two threads, freed by disconnect or leaked.  Two
\* threads writing commands to one redisContext would mix up their replies.
ConnectionsAccounted ==
    /\ \A k \in Keys : \A i, j \in 1..Len(queue[k]) :
         queue[k][i] = queue[k][j] => i = j
    /\ \A k \in Keys : \A i \in 1..Len(queue[k]) :
         /\ queue[k][i][1] = k
         /\ \A t \in Threads : held[t] # queue[k][i]
         /\ queue[k][i] \notin drained \cup leaked
    /\ \A t, u \in Threads : held[t] = held[u] /\ held[t] # NoConnection => t = u
    /\ \A t \in Threads : held[t] \notin drained \cup leaked
    /\ drained \cap leaked = {}

\* A sleeper never misses a connection: while threads sleep on a pool that has
\* free connections, for each of them a notification is under way or a thread
\* is awake to take it, although pushConnection notifies after it unlocks.
NoLostWakeup ==
    \A k \in Keys :
        Waiting(k) # {} =>
            Len(queue[k]) <= Cardinality(Notifying(k)) + Cardinality(Awake(k))

\* disconnect never deletes a pool whose connection is still in use: by the
\* time the map entry is gone, no thread holds a connection of that key.
DeletedPoolsUnused ==
    \A k \in Keys : pool[k] \in {"none", "null"} => Holders(k) = {} /\ queue[k] = <<>>

\* A pool that keeps a leaked connection is never deleted: disconnect waits.
LeakBlocksDisconnect ==
    \A c \in leaked : pool[c[1]] \in {"live", "orphan"}

\* The container hands out connections as an allocator does.
Allocator == INSTANCE ConnectionAllocator WITH
    free <- UNION {{queue[k][i] : i \in 1..Len(queue[k])} : k \in Keys},
    using <- held,
    lost <- leaked

ImplementsAllocator == Allocator!AllocSpec
=============================================================================
