# Formal models of redis_rest

redis_rest is an HTTP service written in C++ that stores sessions, master data
and user roles in a redis cluster. This directory holds TLA+ models of its
core, the TLC configurations that check them on small instances, and proofs of
safety theorems that TLAPS checks for every value of the constants.

All paths below are relative to the root of the repository (`src/...` here is
`src/src/...` in `PROJECT.json`, which also holds, for every definition, the
lines of code it stands for).

Contents:

1. [The system](#1-the-system): components, state, interactions, hazards
2. [The modules](#2-the-modules): what models what, state and actions
3. [The runs](#3-the-runs): bounds, fairness, results
4. [The proofs](#4-the-proofs)
5. [Disagreements between the code and what it says](#5-disagreements)
6. [What is not modelled](#6-what-is-not-modelled)
7. [Plan](#7-plan)
8. [Running the checks](#8-running-the-checks)

## 1. The system

```
 HTTP clients
     |            server_http.hpp: one io_service, several threads,
     v            one coroutine per request, timers that close the socket
 Server<HTTP> ---------------------------------------------------------+
     |  handler of a resource (runs to its end on a worker thread)     |
     v                                                                 |
 apollo() and its operations      redis_source.hpp                     |
     |  lock_guard(lockRedis) around all commands of an operation      |
     v                                                                 |
 HiredisCommand<ThreadedPool>::Command      hirediscommand.h           |
     |  take connection, send, give back, look at the reply,           |
     |  follow ASK / MOVED                                             |
     v                                                                 |
 Cluster<redisContext, ThreadedPool>        cluster.h                  |
     |  slot -> range -> pool;  host:port -> pool                      |
     v                                                                 |
 ThreadedPool     redis_source.hpp:  conLock_, nodes_, connections_,   |
     |            per pool a queue and a condition variable            |
     v                                                                 |
 hiredis connections to the nodes of the cluster                       |
```

| Component | Source | State | Operations | Hard behaviour |
|---|---|---|---|---|
| Connection pool of the cluster | `src/redis/redis_source.hpp` (ThreadedPool, 60-240) | `conLock_`, `nodes_`, `connections_`, one queue and condition variable per pool | insert, getConnection, releaseConnection, disconnect | threads that take, return, wait and are notified after the unlock; filling that fails half way; deletion of pools in use |
| Synchronous cluster command | `cluster.h`, `hirediscommand.h`, `hiredisprocess.h` | `readytouse_`, `moved_`, the connections and their `err`, the uninitialised reply pointer | init, getConnection, createNewConnection, process, asking, checkCritical | redirections, connections that break, exceptions between taking and returning a connection |
| Command thread pool | `redis_source.hpp` (processCommandPool) | the threads, `cnt` | start, command, count, join, delete cluster | more threads than connections; deletion after the join |
| Workers over the cluster | `redis_source.hpp` (serverRedisResource, every operation) | `lockRedis`, the global cluster | request, lock, commands, unlock | a worker that sleeps in a pool while it holds the global lock |
| Session operations | `redis_source.hpp` (CREATE_SESSION ... UPDATE_SESSION_DEADLINE) | one redis key per session, the items of a request, the answer | five operations | read-then-write in separate commands, batches that fail in the middle, error replies |
| Master data and user roles | `redis_source.hpp` (22 operations) | keys of one hash tag, the items, the answer | create, list and delete, by keys and by keywords | the same, and a slot that moves to another node |
| Request dispatch | `redis_source.hpp` (apollo) | none | parse, dispatch by operation name, write the answer | none of its own |
| HTTP server | `server_http.hpp`, `server_https.hpp` | per connection: socket, strand, timers, the request and the response | accept, read header, read content, handler, flush, write, keep alive | expiry racing completion, cancel of a queued handler, coroutine suspension |
| HTTP clients, curl client | `client_http.hpp`, `client_https.hpp`, `curl_client.hpp` | one connection | blocking request | time-outs of the library |
| redispp | `redispp.h`, `redispp.cpp` | the list of outstanding replies, the fail state of the stream, the reply objects, transaction state | pipelined commands, results, enumerators, copies and assignments of reply objects, transactions | replies read late, ahead, for another object, or not at all shift the others |
| Test resources of the server | `redis_source.hpp` (t_area, t_function and the two `_get`, 3074-3376), default page | none kept | connect, one `set` or `get`, answer | a refused password, a connection that ends in an answer |
| Asynchronous cluster command | `asynchirediscommand.h` | the command object, its connection, retry type | process, callbacks, retry | objects that delete themselves in callbacks |
| DefaultContainer | `container.h` | the two maps | insert, get, disconnect | single-threaded |
| Slot hash and slot search | `slothash.h`, `container.h` | none | CRC16 of a key or of its hash tag, `lower_bound` over ranges | boundaries |
| asiohiper | `asiohiper.hpp` | curl multi handle, socket map, timer | socket and timer callbacks | callbacks for closed sockets |
| orderbot, paypal | `orderbot.hpp`, `paypal.hpp` | none kept | one blocking request | none |
| serverResource | `serverResource.hpp` | none kept | tests of the web server | none |
| Configuration, log | `config.hpp`, `renesolalog.hpp`, ... | read once | | none |
| main | `main.cpp` | | start-up | see section 6 |

What makes each modelled component correct:

- *Pool*: a connection is in one place at a time; a thread that waits for a
  connection is woken when there is one; a pool is deleted only when all its
  connections are back; a dropped connection stops the deletion.
- *Command*: the connection of the slot's pool comes back on every path; a
  command that returns a reply has no connection left; the caller never uses
  the container otherwise than it may.
- *Command threads*: all commands are served, and after the deletion nothing
  is open and nobody is inside a freed pool.
- *Workers*: one worker at a time is in the container, the pool of a slot
  never runs dry, and every accepted request is answered if the nodes answer.
- *Sessions*: every operation looks atomic on each session, and what is
  answered 200 is true of the cache when it is said.
- *Master data*: lists and deletions are exact, batches are complete, the
  BY_KEYWORDS operations reach all records, a request touches only its title.
- *HTTP connection*: no operation waits for the client without a timer,
  responses go out in order, and every connection ends.
- *redispp*: what an object returns is the answer to its own command; an
  enumeration is complete and in order; nobody reads a line that will not come.
- *Slots*: a key goes to the pool whose range holds its slot, and keys with the
  same hash tag go to the same one.

The list of hazards, each at the line where it bites and with the properties
that would catch it, is `hazards` in `PROJECT.json`. A hazard without a
property is one that the code does not avoid: the model has the behaviour, and
the note says which property stops short of it.

## 2. The modules

```
ConnectionAllocator  <--implements--  ThreadedPool
                                          ^   EXTENDS; PoolSpec is a property of
                                     ClusterCommand
                                      ^         ^
                              CommandPool    RedisService
SessionMap  <--implements--  SessionStore    MasterData
                                    ^  EXTENDS  ^
                                    CacheOperation      HttpConnection

RedisppCommands <-- Redispp <-- TestResources           SlotSearch
```

Proofs, each module about the one it is named after (section 4);
`ClusterCommandProofs` holds the proofs of ThreadedPool too, and the two that
stand on it extend it:

```
ClusterCommandProofs <-- RedisServiceProofs
                     <-- CommandPoolProofs
SessionStoreProofs       MasterDataProofs       HttpConnectionProofs
RedisppProofs            SlotSearchProofs
```

`RedisppProofs` extends TestResources, which extends Redispp, and proves both.

Every `MC*` module gives the constants of the module it is named after their
values for TLC. A definition preceded by "Variant:" is no part of a
specification: it is what a plausible mistake in the code would look like, and
`mutants` in `PROJECT.json` says which property finds it.

**ConnectionAllocator** (abstract). A connection is open in one place: free,
used by one thread, or lost. No queues, no locks.

**ThreadedPool.** `lock` is the owner of `conLock_` between two steps: a
critical section that cannot block is one step that needs `lock = NoThread`;
the sections that take time while they own the mutex (the connects of
`fillPool`, the loop of `disconnect`) are `pc = "fill"` and `pc = "drain"` with
`lock` set. `pool` is what the map holds for a key (`nodes_` for `Slots`,
`connections_` for `Hosts`), `queue` the `ConPool`'s queue, `pc` and `key` the
place of each thread, `held` the local variable of its caller. A connection is
identified with its pool and its number in it; reopening a pool reuses the
identities, which is why `ConnectionsAccounted` also says that nothing is left
of an earlier pool.

| Action | Code |
|---|---|
| `GetConnection`, `InsertKnownHost`, `Pull`, `Retest`, `SpuriousWake` | `pullConnection` and the wait on the condition variable |
| `Release`, `Notify` | `pushConnection`: the part under the lock, and `notify_one` after it |
| `InsertSlots`, `InsertNewHost`, `FillConnect`, `FillFail`, `FillDone` | the two `insert` functions and `fillPool` |
| `DisconnectNodes`, `DisconnectHosts`, `DrainPull`, `DrainRetest`, `DrainNext` | `disconnect`, once for each map |
| `Drop` | a caller that throws before it releases |
| `Crash` | a null or missing map entry that is dereferenced (`NullEntry` says when) |

A thread inside a `ConPool` that is deleted becomes "dangling".

**ClusterCommand.** Adds `cmd` and `reply`, the progress of
`HiredisCommand::process` and its reply variable; `broken`, the connections
whose `err` is set; `ready` and `moved`, the flags of `Cluster`. The text of a
reply is abstracted to its kind. A read that fails leaves the reply pointer as
it was, uninitialised: `"null"` or `"stale"`, by choice. Every action of
`process` is composed of actions of `ThreadedPool`, and `PoolSpec` is checked
as a property: the caller uses the container as its specification allows.
`AwaitsNode` says when a thread is in a blocking connect or read that only the
node can end. `Query` is `redisAppendFormattedCommand` and `redisGetReply`, `GiveBackBase`
the release before the reply is looked at, `Check` `checkCritical` and
`processResult`, `Redirect`, `Asking`, `Resend`, `ResendMoved`, `HostBroken`
and `GiveBackHost` the treatment of ASK and MOVED.

**CommandPool.** `processCommandPool`: the main thread is `Owner`, creates the
cluster, starts the command threads, joins them and deletes the cluster.

**RedisService.** The workers of the HTTP server: `lockRedis`, and the
commands of an operation, of which only the number matters here.

**CacheOperation.** What the operations have in common, over the interface
that ClusterCommand and RedisService justify: a command is executed and
answered, or fails in one of the ways of `faults`, which every behaviour fixes
at its start: the properties that say what 200 means speak of the behaviours
in which a command is executed or throws (`OnlyThrows`), the properties about
`lockRedis` of all. In the others SessionMap is refined by a map nobody asks
for anything. `step` is the next command
of a worker, `batch` and `pos` the items of its request, `answer` the code and
data it returns.

**SessionStore**, **MasterData.** The operations command by command, with
every return: `Exists`, `Del`, `Set`, `Get` of sessions; `Exists`, `Del`,
`HSet`, `HGet`, the keyword search and the deletion of what it found for
records. The 22 operations of MasterData come in five shapes and differ in the
title (the prefix of their keys) and in the names of their fields only; the
title is a variable of the request. `deleted` in SessionStore is a history
variable for the refinement mapping.

**SessionMap** (abstract). The sessions are one map, and each operation is one
step on it.

**HttpConnection.** One connection. `io` is its pending asynchronous
operation, `timer` the three timers of every request (header, content,
response). The completion of an operation and the expiry of a timer queue a
handler, and queued handlers run in any order: so a timer can be cancelled too
late. The response timer runs in the strand of the coroutine.

**RedisppCommands.** The commands of a redispp connection, by the kind of
object their methods return: `Void`, `Bool`, `Int`, `String` replies that read
one answer, and `Multi`, an enumerator. The kind is all that the rest of the
model knows of a command.

**Redispp.** One connection and the program that uses it. A method writes its
command and returns an object, which is linked at the end of the connection's
list; the answer is read when somebody needs it, and nothing but the order of
the list ties an answer to its command. `stream` is what the server has sent
and nobody has read, line by line; `of` and `idx` of a line are history, for
the properties only. `bad` is the fail state of the stream. `object` holds the
reply variables and the `QueuedReply` inside the `Transaction`; `place` is the
position in the list, `conn`, `headerDone`, `count` and `pending` are the
members of that name. A read of several lines (an enumeration, the replies
before the one that is asked for) is one step per line, since the connection
may end between any two; `call` says what the program is doing meanwhile, and
`Readers` which object reads next.

| Action | Code |
|---|---|
| `Send`, `Type`, `Bare` | the methods of `Connection`; `type()`, which reads at once; the commands that return nothing |
| `Result`, `NextElement`, `Destroy`, `Assign`, `Copy` | the program's use of a reply object: the call begins (a copy is one step) |
| `ReadSimple`, `ReadHeader`, `ReadElement`, `ReadAhead`, `DrainElement`, `NextPending` | `readResult` of the four simple replies, `next`, `readResult` and the loop in the destructor of an enumerator |
| `Begin`, `BeginNested`, `Commit`, `Abort`, `EndTransaction`, `ReadStatuses`, `ReadVerdict` | `Transaction` and `QueuedReply` |
| `Return`, `Destroyed`, `Assigned`, `TransactionEnded` | the end of a call, with or without an exception |
| `Close` | the connection ends |

The server (`Outcomes`, `ExecAnswer`) is external: it answers in order, may
refuse any command, queues between MULTI and EXEC.

Some uses put the replies out of step, by the design of the library or by its
omissions. `culprit` is history and names the first: `type` (called with
replies outstanding), `bare` (a command whose answer nobody reads), `order`
(a commit with replies of commands before the transaction outstanding),
`early` (a result of a queued command asked before the commit), `nested`,
`aborted` (objects of discarded commands), `refused` (a command refused inside
a transaction: the statuses behind it stay in the stream), `dropped` and
`swallowed` (an enumerator or another object destroyed with its answer still to come, since the
destructor catches the exception of an answer before it), and `overwritten`
(assignment loses elements that were read ahead). The properties speak of the
behaviours without a culprit, so what they say is that there is *no other* way
to get out of step: in particular not error replies, copies, assignments,
destruction in any order, reads ahead, the end of the connection, or
transactions used as they should be.

**TestResources.** The handlers of t_area, t_area_get, t_function and
t_function_get on top of Redispp: each opens its own connection,
authenticates, sends one command and answers 200 or 400. In a behaviour the
connection belongs to one such request or to an arbitrary program.

**SlotSearch.** `SlotByKey` with the rule of the hash tag, and
`searchBySlots`: what ClusterCommand identifies with "the pool of the slot".
`crc16` is a constant function. No state; the operators are compared with
reference definitions by the assumptions of MCClusterCommand, and proved.

## 3. The runs

Bounds that a specification needs in order to be finite are constants whose
name starts with `Max`; deadlock is not checked where the system may stop: all
requests are served, the process is gone, or a thread sleeps for ever (the
properties speak of the last case themselves).

| Run | Instance | Shows |
|---|---|---|
| `threaded_pool` | 3 threads (two of them symmetric), 1 range, 2 hosts, 2 connections per pool | `ConnectionsAccounted`, `NoLostWakeup`, `DeletedPoolsUnused`, `LeakBlocksDisconnect`, and that the pool implements the allocator (`ImplementsAllocator`), while pools are made, half filled, drained and deleted |
| `cluster_command` | 2 threads, every reply and failure, 1 connection per pool | `BaseConnectionsReturn`, `ReturnsEmptyHanded`, `PoolSpec` |
| `command_pool` | main and 3 command threads, pools of 2 | `NobodyInDeletedPool`, `NoNullDereference`, `DeletedClusterIsEmpty`, that who sleeps on an empty pool has somebody to wait for (`SleepersWaitForSomebody`), and that the program ends if the nodes answer (`PoolRunsToTheEnd`) |
| `service` | 2 workers, 2 requests each, up to 2 commands, every failure | `OneWorkerAtATime`, `SlotPoolNeverDry`; every accepted request is answered unless a node hangs, the process dies, or a host's pool has been emptied by failures (`RequestsAreServed`) |
| `service_connect` | the same, a connect may fail | violation of `WaitersHaveAHolder`, section 5 |
| `session_store` | 2 workers, 3 requests, 2 sessions; commands throw, or fail in every way | `QueriedSessionExists`, `SuccessAmongThrows`, `ImplementsSessionMap`, `WritesUnderLock` |
| `session_errors` | 1 request, error replies | violation of `SuccessMeansStored`, section 5 |
| `master_data` | 2 workers, 3 requests, 2 titles of 2 ids, the slot moves; commands throw, or fail in every way | `KeyListExact`, `CreatedIsStored`, `DeletedIsGone`, `KeywordsReachUnmoved`, `OneTitleAtATime` |
| `master_moved` | 2 requests, no failures, the slot moves | violation of `KeywordsReachAll`, section 5 |
| `http_connection` | 3 requests, 2 flushes in each | `PendingIsGuarded`, `AnswersInOrder`, `ConnectionEnds` |
| `http_late_timeout` | the same | violation, section 5 |
| `redispp` | 3 reply variables (symmetric), 3 commands of the kinds `set`, `get`, `incr`, `lrange`, enumerations of 0 or 2 elements, a transaction; requests of the test resources | `RightReply`, `WholeEnumeration`, `NeverStuck`, `CommitsInStep`, and `OwnAnswer` of the test resources |

Why the bounds suffice for the interesting cases:

- *Pools*: with 2 connections and 3 threads a thread waits behind two others,
  one of which may be `disconnect`; with two hosts and a range, `disconnect`
  visits an empty map, a map of one and a map of two entries; a notification
  can be under way while another thread takes the connection. A pool of one
  connection (`cluster_command`) makes two commands meet in it.
- *Workers*: two suffice for everything `lockRedis` does, and two requests of
  two commands for a leak in the first that dries the pool in a later one
  (pools have two connections).
- *Operations*: three requests of two workers allow a deletion or a
  recreation between any two commands of a third operation if the lock did not
  prevent it. The batches have two items in both orders, the same item twice,
  items without a field, and no item.
- *redispp*: three variables are an object before the one in use, that one and
  one behind it; three commands fill all three, or a transaction with two
  commands in it or around it. An enumeration of two has a first and a last
  element. The program stops using the connection after a culprit
  (`GoesOn = FALSE`): the properties say nothing of what follows.
- *Slots*: `cluster_command` evaluates, before it starts, all keys of up to
  four characters of `{`, `}` and another one, and all sets of disjoint ranges
  within four slots.
- *HTTP*: a late timer concerns the next operation, so two requests would do;
  three show that it does not add up.

Fairness. *CommandPool* is weakly fair to each thread: the scheduler runs a
thread that can run; nothing is assumed about who gets a mutex or which waiter
a notification wakes, and a spurious wake-up may happen but is never relied on.
*RedisService* is weakly fair to each worker, and since the number of requests
is bounded no worker is overtaken for ever; nothing forces requests to come.
In both, fairness ends where a thread waits for a node (`AwaitsNode`): only the
first connect of `createCluster` has a timeout, while the connections of the
pools are made by `redisConnect`, which sets none for the connect or for the
reads of `redisGetReply`. A node that hangs therefore keeps a thread for ever,
and a worker keeps `lockRedis` with it, so that no request is answered any
more. The two liveness properties state what they assume instead: `NodesAnswer`,
no thread waits for a node for ever, be it that the node answers or that the
operating system gives the connection up.
*HttpConnection* assumes that queued handlers are run, that clocks expire,
that operations on a closed socket fail, and that a handler returns; nothing
forces the client to send, to receive or to leave. All other specifications
state no fairness and only safety is checked of them.

Symmetry is used where threads or workers are interchangeable, and never with
a liveness property.

## 4. The proofs

Proved for all threads, ranges, hosts, pool sizes, sessions, requests, replies
and failures. The theorems of `CommandPoolProofs` and `WakeupsSafe` assume that
the threads are finitely many, since `cnt` and `NoLostWakeup` count them.

| Theorem | Module | Statement |
|---|---|---|
| `PoolInvariant` | `ClusterCommandProofs` | `PoolSpec => []IInv` |
| `TypeCorrect` | | `PoolSpec => []TypeOK` |
| `ConnectionsSafe` | | `PoolSpec => []ConnectionsAccounted` |
| `DeletionSafe` | | `PoolSpec => []DeletedPoolsUnused` |
| `LeakSafe` | | `PoolSpec => []LeakBlocksDisconnect` |
| `WakeupsSafe` | | `PoolSpec => []NoLostWakeup` |
| `PoolImplementsAllocator` | | `PoolSpec => ImplementsAllocator` |
| `CommandUsesPool` | | `CommandSpec => PoolSpec` |
| `CommandInvariant` | | `CommandSpec => []CommandInv` |
| `SlotConnectionsSafe` | | `CommandSpec => []BaseConnectionsReturn` |
| `NothingLeftBehind` | | `CommandSpec => ReturnsEmptyHanded` |
| `CommandTypeCorrect` | | `CommandSpec => []CommandTypeOK` |
| `SleepersWaitRightly` | | `CommandSpec => []SleepersWaitForSomebody` |
| `ServiceInvariant` | `RedisServiceProofs` | `ServiceSpec => []ServiceInv` |
| `OneWorkerSafe` | | `ServiceSpec => []OneWorkerAtATime` |
| `SlotPoolsFull` | | `ServiceSpec => []SlotPoolNeverDry` |
| `ServiceTypeCorrect` | | `ServiceSpec => []ServiceTypeOK` |
| `ServiceUsesPool` | | `ServiceSpec => PoolSpec` |
| `ServiceConnectionsSafe` | | `ServiceSpec => []ConnectionsAccounted /\ []LeakBlocksDisconnect /\ ImplementsAllocator` |
| `OperationsReturn` | | `ServiceSpec => []BaseConnectionsReturn /\ ReturnsEmptyHanded` |
| `ServiceFindsItsPools` | | `ServiceSpec => []WorkersFindTheirPools`, for `Slots # {}` |
| `WorkersSleepForLostConnections` | | while connects succeed, a worker sleeps only on a host's pool all of whose connections were dropped |
| `CommandPoolInvariant` | `CommandPoolProofs` | `CommandPoolSpec => []CommandPoolInv` |
| `CommandPoolTypeCorrect` | | `CommandPoolSpec => []CommandPoolTypeOK` |
| `NobodyInside` | | `CommandPoolSpec => []NobodyInDeletedPool` |
| `DeletedClusterSafe` | | `CommandPoolSpec => []DeletedClusterIsEmpty` |
| `CommandPoolUsesPool` | | `CommandPoolSpec => PoolSpec` |
| `CommandPoolConnectionsSafe` | | `CommandPoolSpec => []ConnectionsAccounted /\ []DeletedPoolsUnused /\ ImplementsAllocator` |
| `CommandPoolWakeups` | | `CommandPoolSpec => []NoLostWakeup` |
| `CommandThreadsWaitForSomebody` | | `CommandPoolSpec => []SleepersWaitForSomebody` |
| `CommandThreadsFindTheirPools` | | `CommandPoolSpec => []NoNullDereference`, for `Slots # {}` |
| `SessionInvariant` | `SessionStoreProofs` | `SessionSpec => []SessionInv` |
| `SessionTypeCorrect` | | `SessionSpec => []SessionTypeOK` |
| `QueriesAreSafe` | | `SessionSpec => []QueriedSessionExists` |
| `WritesAreLocked` | | `SessionSpec => WritesUnderLock` |
| `AnswersAreTrue` | | `SessionSpec => SuccessAmongThrows` |
| `SessionsImplementMap` | | `SessionSpec => ImplementsSessionMap` |
| `MasterInvariant` | `MasterDataProofs` | `MasterSpec => []MasterInv` |
| `MasterTypeCorrect` | | `MasterSpec => []MasterTypeOK` |
| `ListsAreExact` | | `MasterSpec => KeyListExact` |
| `BatchesAreStored` | | `MasterSpec => CreatedIsStored` |
| `DeletionsAreComplete` | | `MasterSpec => DeletedIsGone` |
| `KeywordsReach` | | `MasterSpec => KeywordsReachUnmoved` |
| `TitlesAreSeparate` | | `MasterSpec => OneTitleAtATime` |
| `HttpInvariant` | `HttpConnectionProofs` | `HttpSpec => []HttpInv` |
| `HttpTypeCorrect` | | `HttpSpec => []HttpTypeOK` |
| `OperationsAreGuarded` | | `HttpSpec => []PendingIsGuarded` |
| `ResponsesInOrder` | | `HttpSpec => AnswersInOrder` |
| `RedisppTypes` | `RedisppProofs` | `RedisppSpec => [](RedisppTypeOK /\ Shapes)` |
| `ReplyOrder` | | `RedisppSpec => []RedisppInv` |
| `RepliesAreRight` | | `RedisppSpec => []RightReply` |
| `CommitsMatch` | | `RedisppSpec => []CommitsInStep` |
| `ReadersAreServed` | | `RedisppSpec => []NeverStuck` |
| `EnumerationsAreWhole` | | `RedisppSpec => []WholeEnumeration` |
| `ResourceTypeCorrect` | | `ResourceSpec => []ResourceTypeOK` |
| `AnswersAreOwn` | | `ResourceSpec => []OwnAnswer` |
| `SearchFinds` | `SlotSearchProofs` | in disjoint ranges `searchBySlots` finds the one that holds the slot |
| `TagIsHashed` | | of a key with a hash tag only the tag is hashed |

Each step of a command is one of the container (`CommandUsesPool`), and so is
each step of a worker and of a command thread, the death of the process in a
caller included (`ServiceUsesPool`, `CommandPoolUsesPool`); so the container's
theorems hold of both programs, and are stated for them.

### The container

The proofs start from the assumptions of ThreadedPool: the owner is one of the
threads and `NoThread` is none (`ThreadsAssumption`), keys are numbers, since a
`std::map` orders them, and ranges are not hosts (`KeysAssumption`), a pool has at least
one connection (`PoolSizeAssumption`), and `NoConnection` is no connection.

`ConnectionsAccounted` is not inductive: `FillConnect` puts connection
`<<k, n+1>>` into a queue, and nothing in the property says that it is not
somewhere already. It is not, because a pool can only be filled after its
predecessor was deleted (`pool[k] = "none"`), because deletion leaves nobody
with a connection (`DeletedPoolsUnused`, `LeakBlocksDisconnect`), and because
`conLock_` keeps the others away while it is filled (`LockInv`, `FillInv`:
the queue holds exactly the connections 1..n in order). Deletion leaves nobody
because `disconnect` has pulled `PoolSize` *different* connections of that key
(`DrainInv`, and `AllDrained`, a counting lemma from the theorems on finite
sets), hence all of them, and by `ConnectionsAccounted` what it has pulled is
nowhere else. So the three safety properties support each other and are proved
together. `PlaceInv` ties a thread's place to what it holds and `NullInv` says
which null entries the maps have in the middle of a `disconnect`, so that no
null entry is left in a map that is not being disconnected.

There is one lemma per action (`NotifyStep`, `ReleaseStep`, `FillConnectStep`,
`DrainNextStep`, ...), `PullStep` for the part all callers of
`pullConnection` share, and `NextIInv` puts them together.

`NoLostWakeup` compares the length of a queue with the number of threads that
are about to notify and of those that are awake to take. A step that adds a
connection therefore has to pay with a thread: `WakeupsKept` is the counting,
`Paid` what each step owes, and there is one lemma per kind of step
(`PullPays`, `ReleasePays`, `NotifyPays`, ...): a release adds a connection and
makes its thread a notifier, a notification turns a notifier and a sleeper into
one that is awake, a pull takes a connection and a thread that was awake. A
fill adds connections and pays nothing; it need not, because nobody sleeps in a
pool that is being filled (`WaitInv`): a sleeper is in a pool that was complete
when it came, and cannot be deleted while it sleeps.

The refinement needs the invariant as well: a connection that is taken was free
(`PoppedIsTaken`) and is free nowhere else afterwards, one that is pushed was
used (`PushedIsFree`), one that a fill opens was open nowhere (`FillOpens`),
and one that `disconnect` pulls is closed (`DrainCloses`); deleting the pool
afterwards moves none, since it is empty.

### The command

Leaks happen in the steps that throw between taking and returning a
connection. `LeakStep` says which these are: all follow a redirection, and
`HostPhaseInv` says that a thread then has a connection of a host and not of a
slot, which is `SlotConnectionsSafe`. That a reply leaves nothing behind
follows from `EndingStep`: a command that ends without an exception ends in
`Check`, outside the container, or in `GiveBackHost`, which releases.

`WaitersHaveAHolder`, what a comment says of every sleeper, is violated
(section 5). `SleepersWaitRightly` says how far it is true: unless a connect
has failed or a connection of the pool was dropped. The argument is that
connections do not vanish: `FullInv` says that all `PoolSize` connections of a
pool that exists and is not being filled are somewhere (`Anywhere`: in its
queue, with a thread, pulled by `disconnect`, or dropped), and there is one
lemma per kind of move (`PulledIsSomewhere`, `ReleasedIsSomewhere`, ...). A
sleeper's pool exists and is not being filled (`WaitInv`). If its queue is
empty, nobody holds one of its connections and none was dropped, `disconnect`
has pulled them all; then it has nothing left to wait for (`DrainedWholly` and
the second part of `FullInv`), is not asleep, and deletes the pool next.
`CommandThreadsWaitForSomebody` says the same of the command pool, which may
die in its own code too. It is the part of `PoolRunsToTheEnd` that can be
proved: with `NoLostWakeup`, that nobody sleeps without reason.

### The workers

A worker is in a command only in an operation, and the worker in an operation
owns `lockRedis` (`LockRedisInv`); the owner of the cluster is outside once it
is ready (`OwnerInv`). So the worker that steps is alone, and stays so
(`OperationIsAlone`, `StaysAlone`), which is `OneWorkerSafe`. For
`SlotPoolsFull` the invariant is `SlotQueueInv`, that a slot's pool misses a
connection exactly while somebody holds one: a command that begins is alone,
nobody holds one, so the queue is not empty (`BeginTakes`); the one it takes
comes back (`ReleaseGivesBack`) because only connections of hosts are dropped
(`HostPhaseInv` again). The death of the process in a caller (`BadReply`) is no
step of ClusterCommand but keeps its invariant (`ServiceKeepsCommandInv`).

`RequestsAreServed` excepts, besides a node that hangs and the death of the
process, a host's pool that failures have emptied.
`WorkersSleepForLostConnections` says what these failures are while connects
succeed: a worker that sleeps is alone (`OperationIsAlone`), its queue is empty
(`SleepInv`), `disconnect` does not run, so by `FullInv` every connection of its
pool was dropped. Whatever other workers do, and however many there are, cannot
make it sleep.

Neither program has the action `ContainerCrash`, a null or missing map entry
that is dereferenced; `WorkersFindTheirPools` and `NoNullDereference` are what
justifies that. In the service (`MapsInv`) the constructor has made a pool for every range and nothing
deletes one (`OnlyDisconnectDeletes`); in the command pool the maps change only
after the join (`RangesInv`, `JoinInv`). That a thread with a connection finds
its pool at the release is `DeletedPoolsUnused` (`EntriesFound`). Both theorems
assume that there is a range: if the CLUSTER SLOTS reply names none, the first
command dereferences the end of an empty map.

### The command pool

That a pool is deleted with nobody inside says nothing of who may be there, so
`CommandPoolInv` adds where everybody is. `JoinInv`: before the cluster exists
no thread has been started, and once the main thread deletes it every thread
has been joined; a thread without a command is outside the container.
`MainInv`: while the threads run the main thread is outside. So whoever
deletes is alone (`DeletesAlone`), which is `NobodyInside`. That nothing is
left at the end is `PassedInv`: the pools the iterator of `disconnect` has
passed are deleted, first all of the ranges, then all of the hosts. It needs
the join as well, since a thread that follows a redirection could otherwise
insert a pool behind the iterator, which would be forgotten when the map is
cleared (`"orphan"`). With every pool gone, the invariant of the container
leaves no connection in a queue or leaked (`DeletedPoolsUnused`,
`LeakBlocksDisconnect`), and `cnt` is the number of the threads that have
ended (`CountStep`).

### The sessions

Everything rests on `OwnerInv`: a worker is in an operation exactly while it
owns `lockRedis`, so between two commands of an operation nobody else touches
the cache. Hence what `exists` has said is still true at the write or the read
(`SeenInv`), which is `QueriesAreSafe`, and what the items before the present
one asked for is still there (`WrittenInv`): for each of them the last item of
the same session (`LastOf`) has its value in the cache, unless the operation
is just between the `del` and the `set` of that session. `AnswersAreTrue`
follows at the end of the list, for lists of any length. Only these two parts
assume that commands are executed or throw; `WritesUnderLock` holds whatever
fails.

`SessionsImplementMap` maps each step: a `del` of ADD or UPDATE is seen as
nothing, since the session counts as there until the `set` (`SeenOnContinue`);
the `set` is where it is replaced (`SetMaps`); a throw between the two, or
after a `del` that was executed, is where it gets lost, and the answer of that
step is an error (`LoseMaps`). A behaviour in which commands fail in other ways
is mapped to one in which nobody asks.

### The master data

`OwnerInv` again. `Progress` says, for each of the five shapes of operation,
what the items before the present one have left in the cache and in the local
lists: the last item of every id is stored (unless its record has just been
deleted in order to be written again), the list holds the records of the items
read so far, or their records are gone. For the BY_KEYWORDS operations it says
that a record of the title that is still at the old node is either among the
keys to come or has been dealt with. The operator can move records at any time,
also in the middle of an operation; that only makes the last claim weaker
(`OperatorKeeps`), and a write never brings a record back to the old node
(`PlaceFacts`). `SuccessIs` then says that 200 is only answered at the end of
the items or keys.

### The HTTP connection

`PendingIsGuarded` is not inductive: while a handler runs nothing is pending,
and its next flush is guarded by the timer that was armed before the handler
was started. `GuardInv` therefore speaks of every phase between the first and
the last: the timer of `Current` is running or queued, or the socket is closed.
A late timer can only close the socket, never change another timer.
`AnswersInOrder` follows from `CountInv`, that before the end of request n
exactly n - 1 responses have been written.

### The redispp client

`RightReply` says nothing of the stream, so it is far from inductive. The
invariant `RedisppInv` says what the stream looks like while the replies are
in step and the connection is up (`InOrder`): the commands of its lines are
`Ordered`, each line is `Owned` by an object that waits, and each object that
waits is `Answered`, which means that the lines of its command are one block of
the stream, of the shape its kind of reply expects: one line, an error, a
header with as many elements as it announces, or, for an enumerator that has
begun, the rest of the elements at the very front (`Aligned` is the three
together). `RedisppTypes` comes first and does not need any order: an object in
the list waits for the command it was created for, and no two for the same one.

A transaction has three phases. While it is open (`OpenTransaction`) the
statuses are a block at the end of the stream, one more than the `QueuedReply`
has counted; the objects inside (`Insiders`) have no lines yet, but what the
server has queued is aligned with them, unless it has refused a command; the
others (`Outsiders`) are aligned with the stream. While it ends
(`EndingTransaction`) the statuses are the front of the stream, followed by the
verdict of EXEC with exactly `count` results, or of DISCARD. Otherwise
(`NoTransaction`) the stream is aligned with all that wait.

A step either moves a line, or moves objects. `JoinLines` says that the answer
to a new command keeps the stream aligned, because it has a greater number than
all before (`NoFuture`); with it follow a command (`SendInOrder`), the begin and
the commit of a transaction. `ReaderOwnsHead` is the
heart: of the objects `clearPendingResults` chooses the one with the least
place, so its command is the least that is owned, and the first line is its
own. `TakeLine` and `ReaderStep` then say that what is left is aligned with
those who still wait. `SameLines` covers the steps that read nothing: copies,
assignments and the ends of calls, where every object that waits must be
succeeded by one that waits for the `Same` answer; if it were not, the step
would have set `culprit` (`Blameless`). The three properties follow: a reader
owns a line, so there is one (`NeverStuck`), what it takes is its own
(`RightReply`, together with `OwnValues` for what it has kept), and while a
transaction ends exactly the counted lines are left in front, with a verdict
that has the counted number of results (`CommitsInStep`).

`EnumerationsAreWhole` needs the history of an enumeration. `LinesNumbered`:
the lines of one answer follow each other without a gap, also in the queue of
the server's transaction. `Whole`: the elements an enumerator has handed out
are followed by those in `pending`, and with those still to come they are
`total`. `Continues`: if the first line of the stream is the enumerator's, it
is the next one. An enumerator has elements in `pending` before it is served
itself only while somebody reads ahead for an object behind it (`PartlyRead`),
and nobody asks it for an element meanwhile, so the order cannot be mixed up.
A copy takes over the place, the elements and the counts together
(`CopyEnumerated`), and the pieces of code that do not (assigning over an
enumerator that has read ahead, destroying one before its header) have set
`culprit`.

### The test resources

The proofs are about a request's whole life on top of the client: while it
lasts the connection is in step, there is at most one reply object, its
command is the last that was sent, and it is asked only in the step that asks
(`Request`). Each step of a handler is one of Redispp (`HandlerSteps`), so
`RedisppInv` carries over. The reply of the constructor's AUTH is destroyed,
which reads its line (`RequestReadKept`), before the command is sent: hence
`AnswersAreOwn`, also when the password was refused.

### Checked by TLC only

Liveness under fairness (`PoolRunsToTheEnd`, `RequestsAreServed`,
`ConnectionEnds`) and enabledness, which are out of the prover's reach. Every
other property of a passing run is proved. `CommandTypeOK` is checked as a part
of `CommandPoolTypeOK` and `ServiceTypeOK`.

## 5. Disagreements

Each of these is a run that finds a violation, of a property that states what
a comment of the code says.

- `service_connect`: a host's pool is put into the map before it is filled;
  when a connect fails, the next redirection waits on the empty pool for ever,
  holding `lockRedis`, and no request is answered any more. (A refused ASKING
  or a broken connection to a host throws past `releaseConnection` and leads to
  the same after as many times as the pool has connections.)
- `session_errors`: replies of `set` and `del` are not looked at beyond NULL;
  an error reply is answered with 200.
- `master_moved`: an `exists` that is redirected does not redirect the `keys`
  that follows it; after a migration BY_KEYWORDS operations answer 200 without
  the records that have moved.
- `http_late_timeout`: a timer that expires just before it is cancelled closes
  the socket under the next operation.

Met while reading, without a run of its own: UPDATE_SESSION_DEADLINE answers an
unknown session with the code of QUERY_SESSION (`KeyNotExist` in SessionStore),
although `redis_errorcode.hpp` has a code of its own for it.

## 6. What is not modelled

- `main.cpp`: as committed, the `std::thread` that runs the server goes out of
  scope while joinable, which ends the process. The models describe the server
  as `serverRedisResource` sets it up, with its threads running.
- Requests are well-formed HTTP; parsing, routing and TLS are outcomes. A
  handler is one activity that may flush, throw or return.
- In the models of the cluster keys are identified with the pool of their
  slot; how that pool is found is SlotSearch, where `crc16` is any function of
  16 bits. Slot ranges cover the whole key space.
- OVER_WRITE writes nothing to the cache. Requests that are no JSON are
  answered without a command. Sessions have no time to live in redis.
- The bytes of redis lines: a line of redispp is its kind and its number. A
  bulk string whose body the connection cut off is returned as if it were
  whole; the model has the case (`cut`), but does not say which bytes came.
  Of redispp's buffer there is only that a command may not fit (`TooLong`).
- The asynchronous command (`asynchirediscommand.h`) and asiohiper: no source
  includes them and no target builds them. Their state changes in callbacks of
  event loops that are not in the repository, and there is no caller to say
  which ones run.
- DefaultContainer: the program uses ThreadedPool; the two share
  `searchBySlots`. HttpConnection stands for the HTTPS server too.
- hiredis and redis are modelled from how the code uses them: a command is
  atomic on its node, a connection that fails once fails for ever.
- The other components of section 1, for the reasons in `PROJECT.json`:
  not used by the server, blocking calls without state, or planned.

## 7. Plan

The order was: the container (everything stands on it) with its proofs, the
command, the two programs that use it, the operations, the HTTP connection,
the redispp client with the test resources, the slots. What would add most now:

1. DefaultContainer as a second container under ClusterCommand.
2. The asynchronous command and asiohiper, once something uses them.

## 8. Running the checks

```
tlc -workers 2 -config MCThreadedPool.cfg MCThreadedPool
tlapm ClusterCommandProofs.tla   # and RedisServiceProofs.tla,
                                 # CommandPoolProofs.tla, SessionStoreProofs.tla,
                                 # MasterDataProofs.tla, HttpConnectionProofs.tla,
                                 # RedisppProofs.tla, SlotSearchProofs.tla
```

`PROJECT.json` lists every run with its module and configuration; the longest
(`threaded_pool`, `redispp`) take about a minute and a half, the proofs about twenty
minutes in all.
