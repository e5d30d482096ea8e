------------------------ MODULE ClusterCommandProofs ------------------------
(***************************************************************************)
(* For every set of threads, slot ranges and hosts, every pool size and    *)
(* whatever nodes answer.  First the container, whoever uses it: it keeps  *)
(* its types, a connection is never in two places, disconnect deletes a    *)
(* pool only when all its connections are back, no sleeper misses one, and *)
(* it implements ConnectionAllocator.  Then the commands: they use it as   *)
(* PoolSpec allows, never lose a connection of a slot's pool, and leave    *)
(* nothing behind when they end with a reply.                              *)
(*                                                                         *)
(* ConnectionsAccounted is not inductive by itself.  Opening a connection  *)
(* is safe only because nothing is left of an earlier pool of the same key *)
(* (DeletedPoolsUnused, LeakBlocksDisconnect), which holds because         *)
(* disconnect deletes a pool when it has pulled PoolSize different         *)
(* connections (DrainInv), and because conLock_ keeps everybody else away  *)
(* from a pool that is being filled (LockInv, FillInv).                    *)
(***************************************************************************)
EXTENDS ClusterCommand, FiniteSetTheorems, TLAPS

Draining == {"drain", "drainWait", "drainWoken"}

\* Whoever fills or drains owns conLock_; only the owner disconnects.
LockInv ==
    \A t \in Threads :
      /\ pc[t] \in {"fill", "drain"} => lock = t
      /\ pc[t] \in Draining \cup {"between"} => t = Owner

\* A thread in the container is in some pool, and one that uses a connection
\* remembers its key.
PlaceInv ==
    \A t \in Threads :
      /\ pc[t] \notin {"out", "between"} => key[t] \in Keys
      /\ pc[t] = "use" <=> held[t] # NoConnection
      /\ pc[t] = "use" => held[t][1] = key[t]
      /\ pc[t] \in Draining \cup {"fill"} => pool[key[t]] = "live"

\* The connections pulled by disconnect are of the pool it is at.
DrainInv ==
    \A c \in drained : pc[Owner] \in Draining /\ c[1] = key[Owner]

\* A null entry of a map is one that disconnect() has already passed.
NullInv ==
    \A k \in Keys : pool[k] = "null" =>
      pc[Owner] \in Draining /\ MapOf(k) = MapOf(key[Owner]) /\ k < key[Owner]

\* A pool that is being filled has connections 1..n in its queue and no others.
FillInv ==
    \A t \in Threads : pc[t] = "fill" =>
      /\ Len(queue[key[t]]) <= PoolSize
      /\ \A i \in 1..Len(queue[key[t]]) : queue[key[t]][i] = <<key[t], i>>
      /\ Holders(key[t]) = {}
      /\ \A c \in drained \cup leaked : c[1] # key[t]

IInv ==
    /\ TypeOK
    /\ LockInv
    /\ PlaceInv
    /\ DrainInv
    /\ NullInv
    /\ FillInv
    /\ ConnectionsAccounted
    /\ DeletedPoolsUnused
    /\ LeakBlocksDisconnect

-----------------------------------------------------------------------------
(* Sequences                                                               *)

\* Removing the front element shifts the others down by one.
LEMMA TailFacts ==
    ASSUME NEW S, NEW s \in Seq(S), s # <<>>
    PROVE  /\ Head(s) = s[1] /\ Head(s) \in S /\ 1 \in 1..Len(s)
           /\ Tail(s) \in Seq(S) /\ Len(Tail(s)) = Len(s) - 1
           /\ \A i \in 1..Len(Tail(s)) : i + 1 \in 1..Len(s) /\ Tail(s)[i] = s[i + 1]
OBVIOUS

\* A new last element leaves the others where they are.
LEMMA AppendFacts ==
    ASSUME NEW S, NEW s \in Seq(S), NEW e \in S
    PROVE  /\ Append(s, e) \in Seq(S) /\ Len(Append(s, e)) = Len(s) + 1
           /\ \A i \in 1..Len(s) : Append(s, e)[i] = s[i]
           /\ Append(s, e)[Len(s) + 1] = e
OBVIOUS

\* PoolSize different connections of one key are all it can have.
LEMMA AllDrained ==
    ASSUME NEW k \in Keys, NEW D \in SUBSET ({k} \X (1..PoolSize)),
           Cardinality(D) = PoolSize
    PROVE  D = {k} \X (1..PoolSize)
<1> DEFINE I == {c[2] : c \in D}
           f == [c \in D |-> c[2]]
<1>1. IsFiniteSet(1..PoolSize) /\ Cardinality(1..PoolSize) = PoolSize
  BY FS_Interval, PoolSizeAssumption
<1>2. f \in Bijection(D, I)
  <2>1. \A c \in D : c = <<k, c[2]>>
    OBVIOUS
  <2>2. f \in Injection(D, I)
    BY <2>1 DEF Injection, IsInjective
  <2>3. f \in Surjection(D, I)
    BY DEF Surjection
  <2>. QED BY <2>2, <2>3 DEF Bijection
<1>3. I \in SUBSET (1..PoolSize)
  OBVIOUS
<1>4. IsFiniteSet(I)
  BY <1>1, <1>3, FS_Subset
<1>5. IsFiniteSet(D) /\ Cardinality(D) = Cardinality(I)
  <2>1. ExistsBijection(D, I)
    BY <1>2 DEF ExistsBijection
  <2>2. f \in Injection(D, I) /\ f \in Surjection(D, I)
    BY <1>2 DEF Bijection
  <2>3. IsFiniteSet(D)
    BY <1>4, <2>2, FS_Injection
  <2>. QED BY <2>1, <2>3, FS_Bijection
<1>6. I = 1..PoolSize
  BY <1>1, <1>3, <1>5, FS_Subset
<1>7. \A i \in 1..PoolSize : <<k, i>> \in D
  BY <1>6
<1>. QED BY <1>7

-----------------------------------------------------------------------------
(* pullConnection: the same step for every caller.                         *)

\* A thread that owns conLock_ outside a pool's filling takes the front
\* connection of queue k, or goes to sleep, and gives the lock up.
LEMMA PullStep ==
    ASSUME IInv, NEW t \in Threads, NEW k \in Keys,
           pc[t] \in {"out", "woken", "fill"}, held[t] = NoConnection,
           lock \in {NoThread, t}, lock' = NoThread,
           Pull(t, k), UNCHANGED <<pool, drained, leaked, crashed>>
    PROVE  IInv'
<1> USE DEF IInv
<1>0. /\ queue[k] \in Seq(Connection) /\ queue \in [Keys -> Seq(Connection)]
      /\ held \in [Threads -> Connection \cup {NoConnection}]
      /\ pc \in [Threads -> ThreadState] /\ key \in [Threads -> Keys \cup {NoKey}]
  BY DEF TypeOK
<1>1. \A u \in Threads : u # t => pc[u] \notin {"fill", "drain"}
  BY ThreadsAssumption DEF LockInv
<1>2. CASE queue[k] # <<>>
  <2>1. /\ Head(queue[k]) = queue[k][1] /\ Head(queue[k]) \in Connection
        /\ 1 \in 1..Len(queue[k])
        /\ Tail(queue[k]) \in Seq(Connection)
        /\ \A i \in 1..Len(Tail(queue[k])) :
             i + 1 \in 1..Len(queue[k]) /\ Tail(queue[k])[i] = queue[k][i + 1]
    BY <1>0, <1>2, TailFacts
  <2>2. /\ queue' = [queue EXCEPT ![k] = Tail(@)]
        /\ held' = [held EXCEPT ![t] = Head(queue[k])]
        /\ pc' = [pc EXCEPT ![t] = "use"]
        /\ key' = [key EXCEPT ![t] = k]
    BY <1>2 DEF Pull
  <2>3. \A j \in Keys : \A i \in 1..Len(queue'[j]) :
          \E n \in 1..Len(queue[j]) :
             queue'[j][i] = queue[j][n] /\ (j = k => n = i + 1) /\ (j # k => n = i)
    BY <1>0, <2>1, <2>2
  <2>4. queue[k][1][1] = k /\ queue[k][1] # NoConnection
    BY <2>1, NoConnectionAssumption DEF ConnectionsAccounted
  <2>5. TypeOK'
    BY <1>0, <2>1, <2>2 DEF TypeOK, ThreadState
  <2>6. LockInv'
    BY <1>0, <1>1, <2>2 DEF LockInv, Draining
  <2>7. PlaceInv'
    BY <1>0, <2>1, <2>2, <2>4 DEF PlaceInv, Draining
  <2>8. DrainInv' /\ NullInv'
    BY <1>0, <2>2, ThreadsAssumption DEF DrainInv, NullInv, Draining
  <2>9. FillInv'
    BY <1>0, <1>1, <2>2 DEF FillInv
  <2>10. ConnectionsAccounted'
    <3>1. \A j \in Keys : \A i \in 1..Len(queue'[j]) :
            \A m \in 1..Len(queue'[j]) : queue'[j][i] = queue'[j][m] => i = m
      BY <1>0, <2>1, <2>2 DEF ConnectionsAccounted
    <3>2. \A j \in Keys : \A i \in 1..Len(queue'[j]) :
            /\ queue'[j][i][1] = j
            /\ queue'[j][i] \notin drained' \cup leaked'
      BY <2>3 DEF ConnectionsAccounted
    <3>3. \A j \in Keys : \A i \in 1..Len(queue'[j]) : queue'[j][i] # Head(queue[k])
      <4>. SUFFICES ASSUME NEW j \in Keys, NEW i \in 1..Len(queue'[j]),
                           queue'[j][i] = queue[k][1]
                    PROVE  FALSE
        BY <2>1
      <4>1. j = k
        BY <2>1, <2>3, <2>4 DEF ConnectionsAccounted
      <4>2. PICK n \in 1..Len(queue[k]) : queue'[j][i] = queue[k][n] /\ n = i + 1
        BY <2>3, <4>1
      <4>3. n = 1
        BY <2>1, <4>2 DEF ConnectionsAccounted
      <4>. QED BY <1>0, <2>5, <4>1, <4>2, <4>3 DEF TypeOK
    <3>4. \A j \in Keys : \A i \in 1..Len(queue'[j]) :
            \A u \in Threads : held'[u] # queue'[j][i]
      BY <1>0, <2>2, <2>3, <3>3 DEF ConnectionsAccounted
    <3>5. \A u, v \in Threads : held'[u] = held'[v] /\ held'[u] # NoConnection => u = v
      BY <1>0, <2>1, <2>2 DEF ConnectionsAccounted
    <3>6. \A u \in Threads : held'[u] \notin drained' \cup leaked'
      BY <1>0, <2>1, <2>2 DEF ConnectionsAccounted
    <3>. QED BY <3>1, <3>2, <3>4, <3>5, <3>6 DEF ConnectionsAccounted
  <2>11. DeletedPoolsUnused'
    <3>1. pool[k] \notin {"none", "null"}
      BY <1>2 DEF DeletedPoolsUnused
    <3>. QED BY <1>0, <2>1, <2>2, <2>4, <3>1 DEF DeletedPoolsUnused, Holders
  <2>12. LeakBlocksDisconnect'
    BY DEF LeakBlocksDisconnect
  <2>. QED BY <2>5, <2>6, <2>7, <2>8, <2>9, <2>10, <2>11, <2>12
<1>3. CASE queue[k] = <<>>
  <2>1. /\ UNCHANGED <<queue, held>>
        /\ pc' = [pc EXCEPT ![t] = "wait"]
        /\ key' = [key EXCEPT ![t] = k]
    BY <1>3 DEF Pull
  <2>2. TypeOK'
    BY <1>0, <2>1 DEF TypeOK, ThreadState
  <2>3. LockInv'
    BY <1>0, <1>1, <2>1 DEF LockInv, Draining
  <2>4. PlaceInv'
    BY <1>0, <2>1 DEF PlaceInv, Draining
  <2>5. DrainInv' /\ NullInv'
    BY <1>0, <2>1, ThreadsAssumption DEF DrainInv, NullInv, Draining
  <2>6. FillInv'
    BY <1>0, <1>1, <2>1 DEF FillInv
  <2>7. ConnectionsAccounted' /\ DeletedPoolsUnused' /\ LeakBlocksDisconnect'
    BY <2>1 DEF ConnectionsAccounted, DeletedPoolsUnused, LeakBlocksDisconnect, Holders
  <2>. QED BY <2>2, <2>3, <2>4, <2>5, <2>6, <2>7
<1>. QED BY <1>2, <1>3

-----------------------------------------------------------------------------
(* The steps of a caller                                                   *)

\* cv.wait returns without a notification: only pc changes.
LEMMA WakeStep ==
    ASSUME IInv, NEW t \in Threads, SpuriousWake(t)
    PROVE  IInv'
<1> USE DEF IInv, SpuriousWake
<1>0. pc \in [Threads -> ThreadState]
  BY DEF TypeOK
<1>1. TypeOK'
  BY <1>0 DEF TypeOK, ThreadState
<1>2. LockInv' /\ PlaceInv'
  BY <1>0 DEF LockInv, PlaceInv, Draining
<1>3. DrainInv' /\ NullInv'
  BY <1>0, ThreadsAssumption DEF DrainInv, NullInv, Draining
<1>4. FillInv'
  BY <1>0 DEF FillInv, Holders
<1>5. ConnectionsAccounted' /\ DeletedPoolsUnused' /\ LeakBlocksDisconnect'
  BY DEF ConnectionsAccounted, DeletedPoolsUnused, LeakBlocksDisconnect, Holders
<1>. QED BY <1>1, <1>2, <1>3, <1>4, <1>5

\* notify_one wakes at most one waiter; no connection moves.
LEMMA NotifyStep ==
    ASSUME IInv, NEW t \in Threads, Notify(t)
    PROVE  IInv'
<1> USE DEF IInv, Notify
<1>0. /\ pc \in [Threads -> ThreadState] /\ key \in [Threads -> Keys \cup {NoKey}]
      /\ pc[t] = "notify"
  BY DEF TypeOK
<1>1. PICK w \in Threads :
        \/ pc' = [pc EXCEPT ![t] = "out"]
        \/ /\ w # t /\ pc[w] \in {"wait", "drainWait"}
           /\ pc' = [pc EXCEPT ![t] = "out",
                             ![w] = IF @ = "wait" THEN "woken" ELSE "drainWoken"]
  BY <1>0 DEF Waiting
<1>a. /\ pc' \in [Threads -> ThreadState] /\ pc'[t] = "out"
      /\ \A u \in Threads \ {t} :
           \/ pc'[u] = pc[u]
           \/ pc[u] = "wait" /\ pc'[u] = "woken"
           \/ pc[u] = "drainWait" /\ pc'[u] = "drainWoken"
  BY <1>0, <1>1 DEF ThreadState
<1>2. key' = [key EXCEPT ![t] = NoKey] /\ UNCHANGED <<lock, pool, queue, held, drained, leaked, crashed>>
  OBVIOUS
<1>3. TypeOK'
  BY <1>0, <1>a, <1>2 DEF TypeOK
<1>4. LockInv' /\ PlaceInv'
  BY <1>0, <1>a, <1>2 DEF LockInv, PlaceInv, Draining
<1>5. DrainInv' /\ NullInv'
  BY <1>0, <1>a, <1>2, ThreadsAssumption DEF DrainInv, NullInv, Draining
<1>6. FillInv'
  BY <1>0, <1>a, <1>2 DEF FillInv, Holders
<1>7. ConnectionsAccounted' /\ DeletedPoolsUnused' /\ LeakBlocksDisconnect'
  BY <1>2 DEF ConnectionsAccounted, DeletedPoolsUnused, LeakBlocksDisconnect, Holders
<1>. QED BY <1>3, <1>4, <1>5, <1>6, <1>7

\* A connection in the hands of t goes to the back of its queue.
LEMMA ReleaseStep ==
    ASSUME IInv, NEW t \in Threads, Release(t)
    PROVE  IInv'
<1> USE DEF IInv, Release
<1> DEFINE k == key[t]
<1>0. /\ queue \in [Keys -> Seq(Connection)] /\ pc \in [Threads -> ThreadState]
      /\ held \in [Threads -> Connection \cup {NoConnection}]
      /\ pc[t] = "use" /\ lock = NoThread /\ pool[k] = "live"
  BY DEF TypeOK
<1>1. /\ k \in Keys /\ held[t] # NoConnection /\ held[t] \in Connection /\ held[t][1] = k
  BY <1>0 DEF PlaceInv
<1>2. /\ Append(queue[k], held[t]) \in Seq(Connection)
      /\ Len(Append(queue[k], held[t])) = Len(queue[k]) + 1
      /\ \A i \in 1..Len(queue[k]) : Append(queue[k], held[t])[i] = queue[k][i]
      /\ Append(queue[k], held[t])[Len(queue[k]) + 1] = held[t]
      /\ Len(queue[k]) \in Nat
  BY <1>0, <1>1, AppendFacts
<1>3. /\ queue' = [queue EXCEPT ![k] = Append(@, held[t])]
      /\ held' = [held EXCEPT ![t] = NoConnection]
      /\ pc' = [pc EXCEPT ![t] = "notify"]
      /\ UNCHANGED <<lock, pool, key, drained, leaked, crashed>>
  OBVIOUS
<1>4. \A u \in Threads : pc[u] \notin {"fill", "drain"}
  BY <1>0, ThreadsAssumption DEF LockInv
<1>5. \A j \in Keys : \A i \in 1..Len(queue'[j]) :
        \/ i \in 1..Len(queue[j]) /\ queue'[j][i] = queue[j][i]
        \/ j = k /\ i = Len(queue[k]) + 1 /\ queue'[j][i] = held[t]
  BY <1>0, <1>1, <1>2, <1>3
<1>6. TypeOK'
  BY <1>0, <1>1, <1>2, <1>3 DEF TypeOK, ThreadState
<1>7. LockInv' /\ PlaceInv'
  BY <1>0, <1>3 DEF LockInv, PlaceInv, Draining
<1>8. DrainInv' /\ NullInv'
  BY <1>0, <1>3, ThreadsAssumption DEF DrainInv, NullInv, Draining
<1>9. FillInv'
  BY <1>0, <1>3, <1>4 DEF FillInv
<1>10. ConnectionsAccounted'
  <2>1. \A j \in Keys : \A i, m \in 1..Len(queue'[j]) : queue'[j][i] = queue'[j][m] => i = m
    BY <1>1, <1>5 DEF ConnectionsAccounted
  <2>2. \A j \in Keys : \A i \in 1..Len(queue'[j]) :
          /\ queue'[j][i][1] = j
          /\ queue'[j][i] \notin drained' \cup leaked'
    BY <1>1, <1>3, <1>5 DEF ConnectionsAccounted
  <2>3. \A j \in Keys : \A i \in 1..Len(queue'[j]) :
          \A u \in Threads : held'[u] # queue'[j][i]
    BY <1>0, <1>1, <1>3, <1>5, <2>2, NoConnectionAssumption, <1>6
       DEF ConnectionsAccounted, TypeOK
  <2>4. \A u, v \in Threads : held'[u] = held'[v] /\ held'[u] # NoConnection => u = v
    BY <1>0, <1>3 DEF ConnectionsAccounted
  <2>5. \A u \in Threads : held'[u] \notin drained' \cup leaked'
    BY <1>0, <1>3, NoConnectionAssumption DEF ConnectionsAccounted, TypeOK
  <2>6. drained' \cap leaked' = {}
    BY <1>3 DEF ConnectionsAccounted
  <2>. QED BY <2>1, <2>2, <2>3, <2>4, <2>5, <2>6 DEF ConnectionsAccounted
<1>11. DeletedPoolsUnused'
  BY <1>0, <1>1, <1>3 DEF DeletedPoolsUnused, Holders
<1>12. LeakBlocksDisconnect'
  BY <1>3 DEF LeakBlocksDisconnect
<1>. QED BY <1>6, <1>7, <1>8, <1>9, <1>10, <1>11, <1>12

\* A dropped connection is leaked, and its pool was not deleted.
LEMMA DropStep ==
    ASSUME IInv, NEW t \in Threads, Drop(t)
    PROVE  IInv'
<1> USE DEF IInv, Drop
<1>0. /\ pc \in [Threads -> ThreadState] /\ key \in [Threads -> Keys \cup {NoKey}]
      /\ held \in [Threads -> Connection \cup {NoConnection}]
      /\ pc[t] = "use"
  BY DEF TypeOK
<1>1. /\ key[t] \in Keys /\ held[t] # NoConnection /\ held[t] \in Connection
      /\ held[t][1] = key[t]
  BY <1>0 DEF PlaceInv
<1>2. /\ held' = [held EXCEPT ![t] = NoConnection]
      /\ pc' = [pc EXCEPT ![t] = "out"]
      /\ key' = [key EXCEPT ![t] = NoKey]
      /\ leaked' = leaked \cup {held[t]}
      /\ UNCHANGED <<lock, pool, queue, drained, crashed>>
  OBVIOUS
<1>3. TypeOK'
  BY <1>0, <1>1, <1>2 DEF TypeOK, ThreadState
<1>4. LockInv' /\ PlaceInv'
  BY <1>0, <1>2 DEF LockInv, PlaceInv, Draining
<1>5. DrainInv' /\ NullInv'
  BY <1>0, <1>2, ThreadsAssumption DEF DrainInv, NullInv, Draining
<1>6. FillInv'
  BY <1>0, <1>1, <1>2 DEF FillInv, Holders
<1>7. ConnectionsAccounted'
  <2>1. \A k \in Keys : \A i \in 1..Len(queue[k]) : queue[k][i] # held[t]
    BY DEF ConnectionsAccounted
  <2>2. held[t] \notin drained
    BY DEF ConnectionsAccounted
  <2>3. \A k \in Keys : \A i \in 1..Len(queue[k]) : queue[k][i] # NoConnection
    BY NoConnectionAssumption DEF TypeOK
  <2>4. \A u \in Threads : held'[u] \notin drained' \cup leaked'
    BY <1>0, <1>1, <1>2, NoConnectionAssumption DEF ConnectionsAccounted, TypeOK
  <2>. QED BY <1>0, <1>2, <2>1, <2>2, <2>3, <2>4 DEF ConnectionsAccounted
<1>8. DeletedPoolsUnused'
  BY <1>0, <1>2, NoConnectionAssumption DEF DeletedPoolsUnused, Holders
<1>9. LeakBlocksDisconnect'
  <2>1. pool[key[t]] \notin {"none", "null"}
    BY <1>1 DEF DeletedPoolsUnused, Holders
  <2>. QED BY <1>1, <1>2, <2>1 DEF LeakBlocksDisconnect, TypeOK, PoolState
<1>. QED BY <1>3, <1>4, <1>5, <1>6, <1>7, <1>8, <1>9

-----------------------------------------------------------------------------
(* The two inserts                                                         *)

\* InsertSlots and InsertNewHost: an absent key gets an empty pool.
LEMMA NewPoolStep ==
    ASSUME IInv, NEW t \in Threads, NEW k \in Keys,
           pc[t] = "out", lock = NoThread, pool[k] = "none", lock' = t,
           pool' = [pool EXCEPT ![k] = "live"],
           pc' = [pc EXCEPT ![t] = "fill"],
           key' = [key EXCEPT ![t] = k],
           UNCHANGED <<queue, held, drained, leaked, crashed>>
    PROVE  IInv'
<1> USE DEF IInv
<1>0. /\ pc \in [Threads -> ThreadState] /\ key \in [Threads -> Keys \cup {NoKey}]
      /\ pool \in [Keys -> PoolState] /\ queue \in [Keys -> Seq(Connection)]
  BY DEF TypeOK
<1>1. \A u \in Threads : pc[u] \notin {"fill", "drain"}
  BY ThreadsAssumption DEF LockInv
<1>2. /\ Holders(k) = {} /\ queue[k] = <<>>
      /\ \A c \in leaked : c[1] # k
  BY DEF DeletedPoolsUnused, LeakBlocksDisconnect
<1>3. \A c \in drained : c[1] # k
  BY ThreadsAssumption DEF DrainInv, NullInv, PlaceInv
<1>4. TypeOK'
  BY <1>0 DEF TypeOK, ThreadState, PoolState
<1>5. LockInv'
  BY <1>0, <1>1 DEF LockInv, Draining
<1>6. PlaceInv'
  BY <1>0 DEF PlaceInv, Draining
<1>7. DrainInv' /\ NullInv'
  BY <1>0, ThreadsAssumption DEF DrainInv, NullInv, Draining
<1>8. FillInv'
  BY <1>0, <1>1, <1>2, <1>3, PoolSizeAssumption DEF FillInv, Holders
<1>9. ConnectionsAccounted' /\ DeletedPoolsUnused' /\ LeakBlocksDisconnect'
  BY <1>0 DEF ConnectionsAccounted, DeletedPoolsUnused, LeakBlocksDisconnect, Holders
<1>. QED BY <1>4, <1>5, <1>6, <1>7, <1>8, <1>9

\* A new connection differs from those in the queue and from all others.
LEMMA FillConnectStep ==
    ASSUME IInv, NEW t \in Threads, FillConnect(t)
    PROVE  IInv'
<1> USE DEF IInv, FillConnect
<1> DEFINE k == key[t]
           c == <<k, Len(queue[k]) + 1>>
<1>0. /\ queue \in [Keys -> Seq(Connection)] /\ pc[t] = "fill" /\ lock = t
      /\ k \in Keys /\ Len(queue[k]) < PoolSize /\ pool[k] = "live"
  BY DEF TypeOK, PlaceInv, LockInv
<1>1. c \in Connection
  BY <1>0, PoolSizeAssumption DEF Connection
<1>2. /\ Append(queue[k], c) \in Seq(Connection)
      /\ Len(Append(queue[k], c)) = Len(queue[k]) + 1
      /\ \A i \in 1..Len(queue[k]) : Append(queue[k], c)[i] = queue[k][i]
      /\ Append(queue[k], c)[Len(queue[k]) + 1] = c
      /\ Len(queue[k]) \in Nat
  BY <1>0, <1>1, AppendFacts
<1>3. /\ queue' = [queue EXCEPT ![k] = Append(@, c)]
      /\ UNCHANGED <<lock, pool, pc, key, held, drained, leaked, crashed>>
  OBVIOUS
<1>4. \A j \in Keys : \A i \in 1..Len(queue'[j]) :
        \/ i \in 1..Len(queue[j]) /\ queue'[j][i] = queue[j][i]
        \/ j = k /\ i = Len(queue[k]) + 1 /\ queue'[j][i] = c
  BY <1>0, <1>2, <1>3
<1>5. TypeOK'
  BY <1>0, <1>2, <1>3 DEF TypeOK
<1>6. LockInv' /\ PlaceInv' /\ DrainInv' /\ NullInv'
  BY <1>3 DEF LockInv, PlaceInv, DrainInv, NullInv
<1>7. FillInv'
  <2>1. \A u \in Threads : pc[u] = "fill" => u = t
    BY <1>0 DEF LockInv
  <2>2. /\ Len(queue'[k]) <= PoolSize
        /\ \A i \in 1..Len(queue'[k]) : queue'[k][i] = <<k, i>>
    BY <1>0, <1>2, <1>3, <1>4, PoolSizeAssumption DEF FillInv
  <2>. QED BY <1>0, <1>3, <2>1, <2>2 DEF FillInv, Holders
<1>8. ConnectionsAccounted'
  <2>0. c \in Connection /\ c[1] = k /\ c # NoConnection
    BY <1>1, NoConnectionAssumption
  <2>1. \A i \in 1..Len(queue[k]) : queue[k][i] # c
    <3>1. \A i \in 1..Len(queue[k]) : queue[k][i] = <<k, i>> /\ i # Len(queue[k]) + 1
      BY <1>0, <1>2 DEF FillInv
    <3>. QED BY <3>1
  <2>. HIDE DEF c
  <2>2. \A u \in Threads : held[u] # c
    BY <1>0, <2>0 DEF FillInv, Holders
  <2>3. c \notin drained \cup leaked
    BY <1>0, <2>0 DEF FillInv
  <2>4. \A j \in Keys : \A i, m \in 1..Len(queue'[j]) : queue'[j][i] = queue'[j][m] => i = m
    <3>1. \A j \in Keys : \A i, m \in 1..Len(queue[j]) : queue[j][i] = queue[j][m] => i = m
      BY DEF ConnectionsAccounted
    <3>. SUFFICES ASSUME NEW j \in Keys, NEW i \in 1..Len(queue'[j]), NEW m \in 1..Len(queue'[j]),
                         queue'[j][i] = queue'[j][m]
                  PROVE  i = m
      OBVIOUS
    <3>2. CASE i \in 1..Len(queue[j]) /\ m \in 1..Len(queue[j])
      BY <1>4, <2>1, <3>1, <3>2
    <3>3. CASE ~(i \in 1..Len(queue[j]) /\ m \in 1..Len(queue[j]))
      BY <1>4, <2>1, <3>3
    <3>. QED BY <3>2, <3>3
  <2>5. \A j \in Keys : \A i \in 1..Len(queue'[j]) :
          /\ queue'[j][i][1] = j
          /\ \A u \in Threads : held'[u] # queue'[j][i]
          /\ queue'[j][i] \notin drained' \cup leaked'
    <3>1. held' = held /\ drained' = drained /\ leaked' = leaked
      BY <1>3
    <3>2. \A j \in Keys : \A i \in 1..Len(queue[j]) :
            /\ queue[j][i][1] = j
            /\ \A u \in Threads : held[u] # queue[j][i]
            /\ queue[j][i] \notin drained \cup leaked
      BY DEF ConnectionsAccounted
    <3>. SUFFICES ASSUME NEW j \in Keys, NEW i \in 1..Len(queue'[j])
                  PROVE  /\ queue'[j][i][1] = j
                         /\ \A u \in Threads : held[u] # queue'[j][i]
                         /\ queue'[j][i] \notin drained \cup leaked
      BY <3>1
    <3>3. CASE i \in 1..Len(queue[j]) /\ queue'[j][i] = queue[j][i]
      BY <3>2, <3>3
    <3>4. CASE j = k /\ queue'[j][i] = c
      BY <2>0, <2>2, <2>3, <3>4
    <3>. QED BY <1>4, <3>3, <3>4
  <2>6. /\ \A u, v \in Threads : held'[u] = held'[v] /\ held'[u] # NoConnection => u = v
        /\ \A u \in Threads : held'[u] \notin drained' \cup leaked'
        /\ drained' \cap leaked' = {}
    BY <1>3 DEF ConnectionsAccounted
  <2>. QED BY ONLY <2>4, <2>5, <2>6 DEF ConnectionsAccounted
<1>9. DeletedPoolsUnused' /\ LeakBlocksDisconnect'
  BY <1>0, <1>3 DEF DeletedPoolsUnused, LeakBlocksDisconnect, Holders
<1>. QED BY <1>5, <1>6, <1>7, <1>8, <1>9

\* fillPool ends: by the exception, or (insert of slots) with a full pool.
LEMMA FillEndStep ==
    ASSUME IInv, NEW t \in Threads, pc[t] = "fill", lock' = NoThread,
           pc' = [pc EXCEPT ![t] = "out"],
           key' = [key EXCEPT ![t] = NoKey],
           UNCHANGED <<pool, queue, held, drained, leaked, crashed>>
    PROVE  IInv'
<1> USE DEF IInv
<1>0. /\ pc \in [Threads -> ThreadState] /\ key \in [Threads -> Keys \cup {NoKey}]
  BY DEF TypeOK
<1>1. \A u \in Threads : u # t => pc[u] \notin {"fill", "drain"}
  BY ThreadsAssumption DEF LockInv
<1>2. TypeOK'
  BY <1>0 DEF TypeOK, ThreadState
<1>3. LockInv' /\ PlaceInv'
  BY <1>0, <1>1 DEF LockInv, PlaceInv, Draining
<1>4. DrainInv' /\ NullInv'
  BY <1>0, ThreadsAssumption DEF DrainInv, NullInv, Draining
<1>5. FillInv'
  BY <1>0, <1>1 DEF FillInv, Holders
<1>6. ConnectionsAccounted' /\ DeletedPoolsUnused' /\ LeakBlocksDisconnect'
  BY DEF ConnectionsAccounted, DeletedPoolsUnused, LeakBlocksDisconnect, Holders
<1>. QED BY <1>2, <1>3, <1>4, <1>5, <1>6

\* A full pool: insert(slots) returns, insert(host) pulls.
LEMMA FillDoneStep ==
    ASSUME IInv, NEW t \in Threads, FillDone(t)
    PROVE  IInv'
<1>1. pc[t] = "fill" /\ lock' = NoThread /\ UNCHANGED <<pool, drained, leaked, crashed>>
  BY DEF FillDone
<1>2. lock = t /\ key[t] \in Keys /\ held[t] = NoConnection
  BY <1>1 DEF IInv, LockInv, PlaceInv
<1>3. CASE key[t] \in Slots /\ pc' = [pc EXCEPT ![t] = "out"]
           /\ key' = [key EXCEPT ![t] = NoKey] /\ UNCHANGED <<queue, held>>
  BY <1>1, <1>3, FillEndStep
<1>4. CASE Pull(t, key[t])
  BY <1>1, <1>2, <1>4, PullStep
<1>. QED BY <1>3, <1>4 DEF FillDone

-----------------------------------------------------------------------------
(* disconnect                                                              *)

\* Either map: the iterator starts at an entry, or the map is empty.
LEMMA DisconnectStartStep ==
    ASSUME IInv, NEW M \in SUBSET Keys, NEW stage \in {"between", "out"},
           pc[Owner] \in {"out", "between"}, lock = NoThread,
           \/ \E k \in Smallest(InMap(M)) : DrainFrom(k)
           \/ pc' = [pc EXCEPT ![Owner] = stage] /\ UNCHANGED <<lock, key, drained>>,
           UNCHANGED <<pool, queue, held, leaked, crashed>>
    PROVE  IInv'
<1> USE DEF IInv
<1>0. /\ pc \in [Threads -> ThreadState] /\ key \in [Threads -> Keys \cup {NoKey}]
      /\ Owner \in Threads /\ NoThread \notin Threads
  BY ThreadsAssumption DEF TypeOK
<1>1. \A u \in Threads : pc[u] \notin {"fill", "drain"}
  BY <1>0 DEF LockInv
<1>2. drained = {} /\ held[Owner] = NoConnection
  BY <1>0 DEF DrainInv, NullInv, Draining, PlaceInv
<1>3. CASE \E k \in Smallest(InMap(M)) : DrainFrom(k)
  <2>1. PICK k \in Smallest(InMap(M)) : DrainFrom(k)
    BY <1>3
  <2>2. k \in Keys /\ pool[k] = "live"
    BY <1>0 DEF Smallest, InMap, NullInv, Draining
  <2>3. /\ lock' = Owner /\ pc' = [pc EXCEPT ![Owner] = "drain"]
        /\ key' = [key EXCEPT ![Owner] = k] /\ drained' = {}
    BY <2>1 DEF DrainFrom
  <2>4. TypeOK'
    BY <1>0, <2>2, <2>3 DEF TypeOK, ThreadState
  <2>5. LockInv' /\ PlaceInv' /\ DrainInv' /\ NullInv'
    BY <1>0, <1>1, <1>2, <2>2, <2>3 DEF LockInv, PlaceInv, DrainInv, NullInv, Draining
  <2>6. FillInv'
    BY <1>0, <1>1, <2>3 DEF FillInv
  <2>7. ConnectionsAccounted' /\ DeletedPoolsUnused' /\ LeakBlocksDisconnect'
    BY <1>2, <2>3 DEF ConnectionsAccounted, DeletedPoolsUnused, LeakBlocksDisconnect, Holders
  <2>. QED BY <2>4, <2>5, <2>6, <2>7
<1>4. CASE pc' = [pc EXCEPT ![Owner] = stage] /\ UNCHANGED <<lock, key, drained>>
  <2>1. TypeOK'
    BY <1>0, <1>4 DEF TypeOK, ThreadState
  <2>2. LockInv' /\ PlaceInv' /\ DrainInv' /\ NullInv'
    BY <1>0, <1>2, <1>4 DEF LockInv, PlaceInv, DrainInv, NullInv, Draining
  <2>3. FillInv'
    BY <1>0, <1>1, <1>4 DEF FillInv
  <2>4. ConnectionsAccounted' /\ DeletedPoolsUnused' /\ LeakBlocksDisconnect'
    BY <1>4 DEF ConnectionsAccounted, DeletedPoolsUnused, LeakBlocksDisconnect, Holders
  <2>. QED BY <2>1, <2>2, <2>3, <2>4
<1>. QED BY <1>3, <1>4

\* The connection that disconnect() frees moves from the queue to drained.
LEMMA DrainPullStep ==
    ASSUME IInv, DrainPull
    PROVE  IInv'
<1> USE DEF IInv
<1> DEFINE k == key[Owner]
<1>0. /\ queue \in [Keys -> Seq(Connection)] /\ pc \in [Threads -> ThreadState]
      /\ Owner \in Threads /\ NoThread \notin Threads
      /\ pc[Owner] = "drain" /\ lock = Owner /\ k \in Keys /\ pool[k] = "live"
      /\ UNCHANGED <<pool, key, held, leaked, crashed>>
  BY ThreadsAssumption DEF DrainPull, TypeOK, LockInv, PlaceInv, Draining
<1>1. \A u \in Threads : pc[u] # "fill"
  BY <1>0 DEF LockInv
<1>2. CASE queue[k] # <<>>
  <2>1. /\ Head(queue[k]) = queue[k][1] /\ Head(queue[k]) \in Connection
        /\ 1 \in 1..Len(queue[k])
        /\ Tail(queue[k]) \in Seq(Connection)
        /\ \A i \in 1..Len(Tail(queue[k])) :
             i + 1 \in 1..Len(queue[k]) /\ Tail(queue[k])[i] = queue[k][i + 1]
    BY <1>0, <1>2, TailFacts
  <2>2. /\ queue' = [queue EXCEPT ![k] = Tail(@)]
        /\ drained' = drained \cup {Head(queue[k])}
        /\ UNCHANGED <<lock, pc>>
    BY <1>2 DEF DrainPull
  <2>3. \A j \in Keys : \A i \in 1..Len(queue'[j]) :
          \E n \in 1..Len(queue[j]) :
             queue'[j][i] = queue[j][n] /\ (j = k => n = i + 1) /\ (j # k => n = i)
    BY <1>0, <2>1, <2>2
  <2>4. queue[k][1][1] = k
    BY <1>0, <2>1 DEF ConnectionsAccounted
  <2>5. TypeOK'
    BY <1>0, <2>1, <2>2 DEF TypeOK
  <2>6. LockInv' /\ PlaceInv' /\ FillInv'
    BY <1>0, <1>1, <2>2 DEF LockInv, PlaceInv, FillInv
  <2>7. DrainInv' /\ NullInv'
    BY <1>0, <2>1, <2>2, <2>4 DEF DrainInv, NullInv, Draining
  <2>8. ConnectionsAccounted'
    <3>1. \A j \in Keys : \A i, m \in 1..Len(queue'[j]) : queue'[j][i] = queue'[j][m] => i = m
      BY <1>0, <2>1, <2>2 DEF ConnectionsAccounted
    <3>2. \A j \in Keys : \A i \in 1..Len(queue'[j]) : queue'[j][i] # queue[k][1]
      <4>. SUFFICES ASSUME NEW j \in Keys, NEW i \in 1..Len(queue'[j]),
                           queue'[j][i] = queue[k][1]
                    PROVE  FALSE
        OBVIOUS
      <4>1. j = k
        BY <1>0, <2>1, <2>3, <2>4 DEF ConnectionsAccounted
      <4>2. PICK n \in 1..Len(queue[k]) : queue'[j][i] = queue[k][n] /\ n = i + 1
        BY <2>3, <4>1
      <4>3. n = 1
        BY <1>0, <2>1, <4>2 DEF ConnectionsAccounted
      <4>. QED BY <1>0, <2>5, <4>1, <4>2, <4>3 DEF TypeOK
    <3>3. \A j \in Keys : \A i \in 1..Len(queue'[j]) :
            /\ queue'[j][i][1] = j
            /\ \A u \in Threads : held'[u] # queue'[j][i]
            /\ queue'[j][i] \notin drained' \cup leaked'
      BY <1>0, <2>1, <2>2, <2>3, <3>2 DEF ConnectionsAccounted
    <3>4. /\ \A u, v \in Threads : held'[u] = held'[v] /\ held'[u] # NoConnection => u = v
          /\ \A u \in Threads : held'[u] \notin drained' \cup leaked'
          /\ drained' \cap leaked' = {}
      BY <1>0, <2>1, <2>2 DEF ConnectionsAccounted
    <3>. QED BY ONLY <3>1, <3>3, <3>4 DEF ConnectionsAccounted
  <2>9. DeletedPoolsUnused' /\ LeakBlocksDisconnect'
    BY <1>0, <2>2 DEF DeletedPoolsUnused, LeakBlocksDisconnect, Holders
  <2>. QED BY <2>5, <2>6, <2>7, <2>8, <2>9
<1>3. CASE queue[k] = <<>>
  <2>1. lock' = NoThread /\ pc' = [pc EXCEPT ![Owner] = "drainWait"]
        /\ UNCHANGED <<queue, drained>>
    BY <1>3 DEF DrainPull
  <2>2. TypeOK'
    BY <1>0, <2>1 DEF TypeOK, ThreadState
  <2>3. LockInv' /\ PlaceInv' /\ DrainInv' /\ NullInv'
    BY <1>0, <1>1, <2>1 DEF LockInv, PlaceInv, DrainInv, NullInv, Draining
  <2>4. FillInv'
    BY <1>0, <1>1, <2>1 DEF FillInv
  <2>5. ConnectionsAccounted' /\ DeletedPoolsUnused' /\ LeakBlocksDisconnect'
    BY <1>0, <2>1 DEF ConnectionsAccounted, DeletedPoolsUnused, LeakBlocksDisconnect, Holders
  <2>. QED BY <2>2, <2>3, <2>4, <2>5
<1>. QED BY <1>2, <1>3

\* disconnect() owns conLock_ again after cv.wait.
LEMMA DrainRetestStep ==
    ASSUME IInv, DrainRetest
    PROVE  IInv'
<1> USE DEF IInv, DrainRetest
<1>0. pc \in [Threads -> ThreadState] /\ Owner \in Threads /\ NoThread \notin Threads
  BY ThreadsAssumption DEF TypeOK
<1>1. \A u \in Threads : pc[u] \notin {"fill", "drain"}
  BY <1>0 DEF LockInv
<1>2. TypeOK'
  BY <1>0 DEF TypeOK, ThreadState
<1>3. LockInv' /\ PlaceInv' /\ DrainInv' /\ NullInv'
  BY <1>0, <1>1 DEF LockInv, PlaceInv, DrainInv, NullInv, Draining
<1>4. FillInv'
  BY <1>0, <1>1 DEF FillInv
<1>5. ConnectionsAccounted' /\ DeletedPoolsUnused' /\ LeakBlocksDisconnect'
  BY DEF ConnectionsAccounted, DeletedPoolsUnused, LeakBlocksDisconnect, Holders
<1>. QED BY <1>2, <1>3, <1>4, <1>5

\* The pool of entry k is deleted: all its connections have been pulled, so
\* that no queue, no thread and no leak has one left.
LEMMA DrainNextStep ==
    ASSUME IInv, DrainNext
    PROVE  IInv'
<1> USE DEF IInv
<1> DEFINE k == key[Owner]
           M == MapOf(k)
<1>0. /\ pc \in [Threads -> ThreadState] /\ pool \in [Keys -> PoolState]
      /\ key \in [Threads -> Keys \cup {NoKey}]
      /\ queue \in [Keys -> Seq(Connection)]
      /\ Owner \in Threads /\ NoThread \notin Threads
      /\ pc[Owner] = "drain" /\ lock = Owner /\ k \in Keys /\ pool[k] = "live"
      /\ drained' = {} /\ UNCHANGED <<queue, held, leaked, crashed>>
  BY ThreadsAssumption DEF DrainNext, TypeOK, LockInv, PlaceInv, Draining
<1>1. \A u \in Threads \ {Owner} : pc[u] \notin Draining \cup {"fill", "between"}
  BY <1>0 DEF LockInv, Draining
<1>2. drained = {k} \X (1..PoolSize)
  <2>1. drained \in SUBSET ({k} \X (1..PoolSize)) /\ Cardinality(drained) = PoolSize
    BY DEF DrainNext, AllPulled, TypeOK, DrainInv, Connection
  <2>. QED BY <1>0, <2>1, AllDrained
<1>3. \A c \in Connection : c[1] = k => c \in drained
  BY <1>2 DEF Connection
<1>4. Holders(k) = {}
  BY <1>3 DEF Holders, ConnectionsAccounted, TypeOK
<1>5. queue[k] = <<>>
  <2>1. \A i \in 1..Len(queue[k]) : queue[k][i] \in Connection /\ queue[k][i][1] = k
    BY <1>0 DEF ConnectionsAccounted
  <2>2. ~ \E i \in 1..Len(queue[k]) : TRUE
    BY <1>0, <1>3, <2>1 DEF ConnectionsAccounted
  <2>. QED BY <1>0, <2>2
<1>6. \A c \in leaked : c[1] # k
  BY <1>3 DEF ConnectionsAccounted, TypeOK
<1>7. PICK stage \in {"drain", "between", "out"} :
        /\ pc' = [t \in Threads |-> IF t = Owner THEN stage
                                    ELSE IF t # Owner /\ t \in Inside(k) THEN "dangling"
                                    ELSE pc[t]]
        /\ \/ /\ stage = "drain" /\ lock' = lock
              /\ \E j \in Smallest({i \in InMap(M) : i > k}) :
                   pool' = [pool EXCEPT ![k] = "null"] /\ key' = [key EXCEPT ![Owner] = j]
           \/ /\ stage # "drain" /\ lock' = NoThread
              /\ pool' = [j \in Keys |-> IF j \notin M THEN pool[j]
                                        ELSE IF j = k \/ pool[j] = "null" THEN "none"
                                        ELSE IF pool[j] = "live" THEN "orphan" ELSE pool[j]]
              /\ key' = [key EXCEPT ![Owner] = NoKey]
  BY DEF DrainNext
<1>8. /\ pc' \in [Threads -> ThreadState] /\ pc'[Owner] = stage
      /\ \A u \in Threads \ {Owner} :
           \/ pc'[u] = pc[u]
           \/ pc'[u] = "dangling" /\ pc[u] \notin {"out", "use", "between", "fill"}
  BY <1>0, <1>1, <1>7 DEF Inside, Waiting, Awake, Notifying, ThreadState
<1>9. FillInv' /\ DrainInv'
  BY <1>0, <1>1, <1>8 DEF FillInv, DrainInv
<1>10. ConnectionsAccounted'
  BY <1>0 DEF ConnectionsAccounted
<1>11. CASE stage = "drain"
  <2>1. PICK j \in Keys : /\ j \in InMap(M) /\ j > k /\ lock' = lock
                          /\ pool' = [pool EXCEPT ![k] = "null"]
                          /\ key' = [key EXCEPT ![Owner] = j]
    <3>1. M \subseteq Keys
      BY DEF MapOf, Keys
    <3>. QED BY <1>7, <1>11, <3>1 DEF Smallest, InMap
  <2>2. j \in Nat /\ k \in Nat /\ j # k
    <3>1. \A i \in Keys : i \in Nat
      BY KeysAssumption DEF Keys
    <3>2. j \in Nat /\ k \in Nat /\ j > k
      BY ONLY <1>0, <2>1, <3>1
    <3>. QED BY ONLY <3>2
  <2>3. MapOf(j) = M
    BY <2>1, KeysAssumption DEF InMap, MapOf
  <2>4. pool[j] = "live"
    <3>1. pool[j] # "null"
      BY <2>1, <2>2 DEF NullInv
    <3>. QED BY <2>1, <3>1 DEF InMap
  <2>5. TypeOK'
    BY <1>0, <1>8, <2>1 DEF TypeOK, PoolState
  <2>6. LockInv'
    BY <1>0, <1>1, <1>8, <1>11, <2>1 DEF LockInv, Draining
  <2>7. PlaceInv'
    BY <1>0, <1>1, <1>8, <1>11, <2>1, <2>2, <2>4 DEF PlaceInv, Draining
  <2>8. NullInv'
    <3>1. \A i \in Keys : i \in Nat
      BY KeysAssumption DEF Keys
    <3>2. \A i \in Keys : pool[i] = "null" => MapOf(i) = M /\ i < k
      BY DEF NullInv
    <3>3. key'[Owner] = j /\ pc'[Owner] = "drain"
      BY <1>0, <1>8, <1>11, <2>1
    <3>. HIDE DEF M, k
    <3>4. \A i \in Keys : pool'[i] = "null" => MapOf(i) = M /\ i < j
      <4>1. M = MapOf(k)
        BY DEF M
      <4>. QED BY <1>0, <2>1, <2>2, <3>1, <3>2, <4>1
    <3>. QED BY ONLY <2>3, <3>3, <3>4 DEF NullInv, Draining, MapOf
  <2>9. DeletedPoolsUnused'
    BY <1>0, <1>4, <1>5, <2>1 DEF DeletedPoolsUnused, Holders
  <2>10. LeakBlocksDisconnect'
    BY <1>0, <1>6, <2>1 DEF LeakBlocksDisconnect
  <2>. QED BY <1>9, <1>10, <2>5, <2>6, <2>7, <2>8, <2>9, <2>10
<1>12. CASE stage # "drain"
  <2>1. /\ lock' = NoThread
        /\ pool' = [j \in Keys |-> IF j \notin M THEN pool[j]
                                  ELSE IF j = k \/ pool[j] = "null" THEN "none"
                                  ELSE IF pool[j] = "live" THEN "orphan" ELSE pool[j]]
        /\ key' = [key EXCEPT ![Owner] = NoKey]
    BY <1>7, <1>12
  <2>2. \A j \in Keys : /\ pool'[j] \in PoolState
                        /\ pool'[j] \in {"none", "null"} => j = k \/ pool[j] \in {"none", "null"}
    BY <1>0, <2>1 DEF PoolState
  <2>3. TypeOK'
    BY <1>0, <1>8, <2>1, <2>2 DEF TypeOK
  <2>4. LockInv'
    BY <1>0, <1>1, <1>8, <1>12, <2>1 DEF LockInv, Draining
  <2>5. PlaceInv'
    BY <1>0, <1>1, <1>8, <1>12, <2>1 DEF PlaceInv, Draining
  <2>6. NullInv'
    <3>1. \A j \in Keys : j \notin M => MapOf(j) # M
      BY <1>0, KeysAssumption DEF MapOf, Keys
    <3>2. \A j \in Keys : pool[j] = "null" => MapOf(j) = M
      BY DEF NullInv
    <3>. HIDE DEF M
    <3>3. \A j \in Keys : pool'[j] # "null"
      BY <2>1, <3>1, <3>2
    <3>. QED BY ONLY <3>3 DEF NullInv
  <2>7. DeletedPoolsUnused'
    BY <1>0, <1>4, <1>5, <2>2 DEF DeletedPoolsUnused, Holders
  <2>8. LeakBlocksDisconnect'
    <3>. SUFFICES ASSUME NEW c \in leaked
                  PROVE  pool'[c[1]] \in {"live", "orphan"}
      BY <1>0 DEF LeakBlocksDisconnect
    <3>1. c[1] \in Keys /\ c[1] # k /\ pool[c[1]] \in {"live", "orphan"}
      BY <1>6 DEF LeakBlocksDisconnect, TypeOK, Connection
    <3>. QED BY <2>1, <3>1
  <2>. QED BY <1>9, <1>10, <2>3, <2>4, <2>5, <2>6, <2>7, <2>8
<1>. QED BY <1>11, <1>12

-----------------------------------------------------------------------------
(* The specification                                                       *)

\* The container starts empty.
LEMMA InitIInv == PoolInit => IInv
<1>. SUFFICES ASSUME PoolInit PROVE IInv
  OBVIOUS
<1>1. TypeOK
  <2>1. <<>> \in Seq(Connection)
    OBVIOUS
  <2>2. queue \in [Keys -> Seq(Connection)]
    BY <2>1 DEF PoolInit
  <2>3. pool \in [Keys -> PoolState] /\ pc \in [Threads -> ThreadState]
    BY DEF PoolInit, PoolState, ThreadState
  <2>. QED BY <2>2, <2>3 DEF PoolInit, TypeOK
<1>2. LockInv /\ PlaceInv /\ DrainInv /\ NullInv /\ FillInv
  BY DEF PoolInit, LockInv, PlaceInv, DrainInv, NullInv, FillInv, Draining
<1>3. ConnectionsAccounted /\ DeletedPoolsUnused /\ LeakBlocksDisconnect
  BY NoConnectionAssumption
     DEF PoolInit, ConnectionsAccounted, DeletedPoolsUnused, LeakBlocksDisconnect, Holders
<1>. QED BY <1>1, <1>2, <1>3 DEF IInv

\* The flag of the crash, or nothing at all, changes.
LEMMA StutterStep ==
    ASSUME IInv, crashed' \in BOOLEAN,
           UNCHANGED <<lock, pool, queue, pc, key, held, drained, leaked>>
    PROVE  IInv'
BY DEF IInv, TypeOK, LockInv, PlaceInv, DrainInv, NullInv, FillInv,
       ConnectionsAccounted, DeletedPoolsUnused, LeakBlocksDisconnect,
       Draining, Holders

\* IInv is inductive.
LEMMA NextIInv ==
    ASSUME IInv, [PoolNext]_poolVars
    PROVE  IInv'
<1>1. ASSUME NEW t \in Threads, PoolStep(t) PROVE IInv'
  <2>1. CASE Retest(t)
    <3>1. pc[t] = "woken" /\ key[t] \in Keys /\ held[t] = NoConnection
      BY <2>1 DEF IInv, PlaceInv, Retest
    <3>. QED BY <2>1, <3>1, PullStep DEF Retest
  <2>2. CASE SpuriousWake(t)
    BY <2>2, WakeStep
  <2>3. CASE Release(t)
    BY <2>3, ReleaseStep
  <2>4. CASE Notify(t)
    BY <2>4, NotifyStep
  <2>5. CASE Drop(t)
    BY <2>5, DropStep
  <2>6. ASSUME NEW k \in Keys, GetConnection(t, k) \/ InsertKnownHost(t, k) PROVE IInv'
    <3>1. pc[t] = "out" /\ held[t] = NoConnection
      BY <2>6 DEF IInv, PlaceInv, GetConnection, InsertKnownHost
    <3>. QED BY <2>6, <3>1, PullStep DEF GetConnection, InsertKnownHost
  <2>7. ASSUME NEW h \in Keys, InsertNewHost(t, h) PROVE IInv'
    BY <2>7, NewPoolStep DEF InsertNewHost
  <2>8. CASE FillConnect(t)
    BY <2>8, FillConnectStep
  <2>9. CASE FillFail(t)
    BY <2>9, FillEndStep DEF FillFail
  <2>10. CASE FillDone(t)
    BY <2>10, FillDoneStep
  <2>11. CASE Crash(t)
    BY <2>11, StutterStep DEF Crash
  <2>. QED BY <1>1, <2>1, <2>2, <2>3, <2>4, <2>5, <2>6, <2>7, <2>8, <2>9, <2>10, <2>11
           DEF PoolStep, Keys
<1>2. ASSUME OwnerStep PROVE IInv'
  <2>1. ASSUME NEW s \in Keys, InsertSlots(s) PROVE IInv'
    BY <2>1, NewPoolStep, ThreadsAssumption DEF InsertSlots
  <2>2. CASE DisconnectNodes
    BY <2>2, DisconnectStartStep DEF DisconnectNodes, Keys
  <2>3. CASE DisconnectHosts
    BY <2>3, DisconnectStartStep DEF DisconnectHosts, Keys
  <2>4. CASE DrainPull
    BY <2>4, DrainPullStep
  <2>5. CASE DrainRetest
    BY <2>5, DrainRetestStep
  <2>6. CASE DrainNext
    BY <2>6, DrainNextStep
  <2>. QED BY <1>2, <2>1, <2>2, <2>3, <2>4, <2>5, <2>6 DEF OwnerStep, Keys
<1>3. CASE CallerCrash
  BY <1>3, StutterStep DEF CallerCrash
<1>4. CASE UNCHANGED poolVars
  BY <1>4, StutterStep DEF poolVars, IInv, TypeOK
<1>. QED BY <1>1, <1>2, <1>3, <1>4 DEF PoolNext

\* IInv holds in every reachable state of the container.
THEOREM PoolInvariant == PoolSpec => []IInv
<1>1. PoolInit => IInv
  BY InitIInv
<1>2. IInv /\ [PoolNext]_poolVars => IInv'
  BY NextIInv
<1>. QED BY <1>1, <1>2, PTL DEF PoolSpec

\* Whatever the threads do, the variables of the container keep their types.
THEOREM TypeCorrect == PoolSpec => []TypeOK
<1>1. IInv => TypeOK
  BY DEF IInv
<1>. QED BY <1>1, PoolInvariant, PTL

\* A connection is never handed to two threads, nor queued while one uses it:
\* pullConnection and pushConnection keep every redisContext in one place.
THEOREM ConnectionsSafe == PoolSpec => []ConnectionsAccounted
<1>1. IInv => ConnectionsAccounted
  BY DEF IInv
<1>. QED BY <1>1, PoolInvariant, PTL

\* disconnect() deletes a pool only when no thread holds a connection of it.
THEOREM DeletionSafe == PoolSpec => []DeletedPoolsUnused
<1>1. IInv => DeletedPoolsUnused
  BY DEF IInv
<1>. QED BY <1>1, PoolInvariant, PTL

\* A connection that was dropped keeps disconnect() from deleting its pool.
THEOREM LeakSafe == PoolSpec => []LeakBlocksDisconnect
<1>1. IInv => LeakBlocksDisconnect
  BY DEF IInv
<1>. QED BY <1>1, PoolInvariant, PTL

-----------------------------------------------------------------------------
(* Wake-ups                                                                *)
(*                                                                         *)
(* NoLostWakeup compares a length with two cardinalities, so a step that   *)
(* moves a connection must move a thread to pay for it.  A fill is the     *)
(* exception: it adds connections and notifies nobody, which is right      *)
(* because nobody can wait on a pool that is being filled (WaitInv).       *)

InsidePool == {"wait", "woken", "notify"}

\* A thread that waits or notifies is in a pool that exists, and nobody is in
\* one that is being filled.
WaitInv ==
    \A t \in Threads :
      /\ pc[t] \in InsidePool => pool[key[t]] \in {"live", "orphan"}
      /\ pc[t] = "fill" =>
           \A u \in Threads : pc[u] \in InsidePool \cup Draining => key[u] # key[t]

\* Nobody enters or fills a pool while another thread owns conLock_.
LEMMA WaitInvStep ==
    ASSUME IInv, WaitInv, [PoolNext]_poolVars
    PROVE  WaitInv'
<1>0. /\ pc \in [Threads -> ThreadState] /\ key \in [Threads -> Keys \cup {NoKey}]
      /\ pool \in [Keys -> PoolState] /\ Owner \in Threads
      /\ \A t \in Threads : pc[t] \notin {"out", "between"} => key[t] \in Keys
      /\ lock = NoThread => \A t \in Threads : pc[t] \notin {"fill", "drain"}
      /\ \A t \in Threads : pc[t] \in {"fill", "drain"} => \A u \in Threads \ {t} : pc[u] # "fill"
      /\ \A t \in Threads : pc[t] \in Draining => t = Owner /\ pool[key[t]] = "live"
  BY ThreadsAssumption DEF IInv, TypeOK, PlaceInv, LockInv
<1> USE DEF InsidePool, Draining
<1>1. ASSUME NEW t \in Threads, PoolStep(t) PROVE WaitInv'
  <2>1. CASE Retest(t)
    <3>1. pool[key[t]] \in {"live", "orphan"}
      BY <1>0, <2>1 DEF Retest, WaitInv
    <3>2. \A u \in Threads : pc[u] # "fill"
      BY <1>0, <2>1 DEF Retest
    <3>. QED BY <1>0, <2>1, <3>1, <3>2 DEF Retest, Pull, WaitInv
  <2>2. CASE SpuriousWake(t)
    BY <1>0, <2>2 DEF SpuriousWake, WaitInv
  <2>3. CASE Release(t)
    BY <1>0, <2>3 DEF Release, WaitInv
  <2>4. CASE Notify(t)
    <3>1. \A u \in Threads \ {t} :
            /\ key'[u] = key[u]
            /\ \/ pc'[u] = pc[u]
               \/ pc[u] = "wait" /\ pc'[u] = "woken"
               \/ pc[u] = "drainWait" /\ pc'[u] = "drainWoken"
      BY <1>0, <2>4 DEF Notify, Waiting
    <3>2. pc'[t] = "out"
      BY <1>0, <2>4 DEF Notify, Waiting
    <3>3. pool' = pool
      BY <2>4 DEF Notify
    <3>. QED BY <3>1, <3>2, <3>3 DEF WaitInv
  <2>5. CASE Drop(t)
    BY <1>0, <2>5 DEF Drop, WaitInv
  <2>6. ASSUME NEW k \in Keys, GetConnection(t, k) \/ InsertKnownHost(t, k) PROVE WaitInv'
    <3>1. /\ pc[t] = "out" /\ lock = NoThread /\ pool[k] = "live" /\ pool' = pool /\ Pull(t, k)
      BY <2>6 DEF GetConnection, InsertKnownHost
    <3>2. \A u \in Threads : pc[u] # "fill"
      BY <1>0, <3>1
    <3>. QED BY <1>0, <3>1, <3>2 DEF WaitInv, Pull
  <2>7. ASSUME NEW h \in Keys, InsertNewHost(t, h) PROVE WaitInv'
    BY <1>0, <2>7 DEF InsertNewHost, WaitInv
  <2>8. CASE FillConnect(t)
    BY <2>8 DEF FillConnect, WaitInv
  <2>9. CASE FillFail(t)
    BY <1>0, <2>9 DEF FillFail, WaitInv
  <2>10. CASE FillDone(t)
    <3>1. pc[t] = "fill" /\ pool' = pool /\ pool[key[t]] = "live"
      BY <1>0, <2>10 DEF FillDone, IInv, PlaceInv
    <3>2. \A u \in Threads \ {t} : pc[u] # "fill"
      BY <1>0, <3>1
    <3>. QED BY <1>0, <2>10, <3>1, <3>2 DEF FillDone, Pull, WaitInv
  <2>11. CASE Crash(t)
    BY <2>11 DEF Crash, WaitInv
  <2>. QED BY <1>1, <2>1, <2>2, <2>3, <2>4, <2>5, <2>6, <2>7, <2>8, <2>9, <2>10, <2>11
           DEF PoolStep, Keys
<1>2. ASSUME OwnerStep PROVE WaitInv'
  <2>1. ASSUME NEW s \in Keys, InsertSlots(s) PROVE WaitInv'
    BY <1>0, <2>1 DEF InsertSlots, WaitInv
  <2>2. CASE DisconnectNodes \/ DisconnectHosts
    <3>1. lock = NoThread /\ \A u \in Threads : pc[u] # "fill"
      BY <1>0, <2>2 DEF DisconnectNodes, DisconnectHosts
    <3>. QED BY <1>0, <2>2, <3>1 DEF DisconnectNodes, DisconnectHosts, DrainFrom, WaitInv
  <2>3. CASE DrainPull \/ DrainRetest
    BY <1>0, <2>3 DEF DrainPull, DrainRetest, WaitInv
  <2>4. CASE DrainNext
    <3>1. pc[Owner] = "drain" /\ \A u \in Threads : pc[u] # "fill"
      BY <1>0, <2>4 DEF DrainNext
    <3>2. \A u \in Threads \ {Owner} : pc'[u] \in {pc[u], "dangling"} /\ key'[u] = key[u]
      BY <1>0, <2>4 DEF DrainNext
    <3>3. \A u \in Threads \ {Owner} : pc'[u] \in InsidePool => key[u] # key[Owner]
      <4>. SUFFICES ASSUME NEW u \in Threads \ {Owner}, pc'[u] \in InsidePool,
                           key[u] = key[Owner]
                    PROVE  FALSE
        OBVIOUS
      <4>1. pc[u] \in InsidePool
        BY <3>2
      <4>2. u \in Inside(key[Owner])
        BY <4>1 DEF Inside, Waiting, Awake, Notifying
      <4>3. pc'[u] = "dangling"
        BY <1>0, <2>4, <4>2 DEF DrainNext
      <4>. QED BY <4>3
    <3>4. pc'[Owner] \in {"drain", "between", "out"}
      BY <1>0, <2>4 DEF DrainNext
    <3>5. \A j \in Keys : j # key[Owner] /\ pool[j] \in {"live", "orphan"}
                            => pool'[j] \in {"live", "orphan"}
      BY <1>0, <2>4 DEF DrainNext
    <3>. QED BY <1>0, <3>1, <3>2, <3>3, <3>4, <3>5 DEF WaitInv
  <2>. QED BY <1>2, <2>1, <2>2, <2>3, <2>4 DEF OwnerStep, Keys
<1>3. CASE CallerCrash
  BY <1>3 DEF CallerCrash, WaitInv
<1>4. CASE UNCHANGED poolVars
  BY <1>4 DEF poolVars, WaitInv
<1>. QED BY <1>1, <1>2, <1>3, <1>4 DEF PoolNext

\* What a step does to the two sets of threads that are counted, and what the
\* count does then.
LEMMA CountsMove ==
    ASSUME IsFiniteSet(Threads),
           NEW N \in SUBSET Threads, NEW A \in SUBSET Threads,
           NEW M \in SUBSET Threads, NEW B \in SUBSET Threads
    PROVE  LET before == Cardinality(N) + Cardinality(A)
               after == Cardinality(M) + Cardinality(B)
           IN  /\ before \in Nat /\ after \in Nat
               /\ N \subseteq M /\ A \subseteq B => before <= after
               /\ \A t : N \subseteq M /\ A \ {t} \subseteq B => before <= after + 1
               /\ \A t \in Threads \ N : N \cup {t} \subseteq M /\ A \subseteq B => before + 1 <= after
               /\ \A t, w \in Threads :
                    w \notin A /\ N \ {t} \subseteq M /\ A \cup {w} \subseteq B => before <= after
<1>1. ASSUME NEW S \in SUBSET Threads, NEW T \in SUBSET Threads
      PROVE  /\ Cardinality(S) \in Nat
             /\ S \subseteq T => Cardinality(S) <= Cardinality(T)
             /\ \A t : S \ {t} \subseteq T => Cardinality(S) <= Cardinality(T) + 1
             /\ \A t \in Threads \ S : S \cup {t} \subseteq T => Cardinality(S) + 1 <= Cardinality(T)
  <2>1. IsFiniteSet(S) /\ IsFiniteSet(T)
    BY FS_Subset
  <2>2. Cardinality(S) \in Nat /\ Cardinality(T) \in Nat
    BY <2>1, FS_CardinalityType
  <2>3. S \subseteq T => Cardinality(S) <= Cardinality(T)
    BY <2>1, FS_Subset
  <2>4. ASSUME NEW t, S \ {t} \subseteq T PROVE Cardinality(S) <= Cardinality(T) + 1
    <3>1. Cardinality(S \ {t}) = IF t \in S THEN Cardinality(S) - 1 ELSE Cardinality(S)
      BY <2>1, FS_RemoveElement
    <3>2. Cardinality(S \ {t}) <= Cardinality(T)
      BY <2>1, <2>4, FS_Subset
    <3>. QED BY <2>2, <3>1, <3>2
  <2>5. ASSUME NEW t \in Threads \ S, S \cup {t} \subseteq T
        PROVE  Cardinality(S) + 1 <= Cardinality(T)
    <3>1. Cardinality(S \cup {t}) = Cardinality(S) + 1
      BY <2>1, FS_AddElement
    <3>2. Cardinality(S \cup {t}) <= Cardinality(T)
      BY <2>1, <2>5, FS_Subset
    <3>. QED BY <3>1, <3>2
  <2>. QED BY <2>2, <2>3, <2>4, <2>5
<1>2. /\ Cardinality(N) \in Nat /\ Cardinality(A) \in Nat
      /\ Cardinality(M) \in Nat /\ Cardinality(B) \in Nat
  BY <1>1
<1>3. N \subseteq M /\ A \subseteq B => Cardinality(N) + Cardinality(A) <= Cardinality(M) + Cardinality(B)
  BY <1>1, <1>2
<1>4. ASSUME NEW t, N \subseteq M, A \ {t} \subseteq B
      PROVE  Cardinality(N) + Cardinality(A) <= Cardinality(M) + Cardinality(B) + 1
  <2>1. Cardinality(N) <= Cardinality(M) /\ Cardinality(A) <= Cardinality(B) + 1
    BY <1>1, <1>4
  <2>. QED BY <1>2, <2>1
<1>5. ASSUME NEW t \in Threads \ N, N \cup {t} \subseteq M, A \subseteq B
      PROVE  Cardinality(N) + Cardinality(A) + 1 <= Cardinality(M) + Cardinality(B)
  <2>1. Cardinality(N) + 1 <= Cardinality(M) /\ Cardinality(A) <= Cardinality(B)
    BY <1>1, <1>5
  <2>. QED BY <1>2, <2>1
<1>6. ASSUME NEW t \in Threads, NEW w \in Threads, w \notin A,
             N \ {t} \subseteq M, A \cup {w} \subseteq B
      PROVE  Cardinality(N) + Cardinality(A) <= Cardinality(M) + Cardinality(B)
  <2>1. Cardinality(N) <= Cardinality(M) + 1 /\ Cardinality(A) + 1 <= Cardinality(B)
    BY <1>1, <1>6
  <2>. QED BY <1>2, <2>1
<1>. QED BY <1>2, <1>3, <1>4, <1>5, <1>6

\* A step does no harm at pool k: nobody waits there, or the queue is empty, or
\* a thread has paid for what happened to the queue.
Paid(k) ==
    \/ Waiting(k)' = {}
    \/ queue'[k] = <<>>
    \/ /\ Waiting(k)' \subseteq Waiting(k)
       /\ \/ /\ Len(queue'[k]) = Len(queue[k])
             /\ Notifying(k) \subseteq Notifying(k)' /\ Awake(k) \subseteq Awake(k)'
          \/ \E t : /\ Len(queue'[k]) + 1 = Len(queue[k])
                    /\ Notifying(k) \subseteq Notifying(k)'
                    /\ Awake(k) \ {t} \subseteq Awake(k)'
          \/ \E t \in Threads \ Notifying(k) :
                /\ Len(queue'[k]) = Len(queue[k]) + 1
                /\ Notifying(k) \cup {t} \subseteq Notifying(k)'
                /\ Awake(k) \subseteq Awake(k)'
          \/ \E t, w \in Threads :
                /\ Len(queue'[k]) = Len(queue[k])
                /\ w \notin Awake(k)
                /\ Notifying(k) \ {t} \subseteq Notifying(k)'
                /\ Awake(k) \cup {w} \subseteq Awake(k)'

LEMMA WakeupsKept ==
    ASSUME IsFiniteSet(Threads), IInv, IInv', NoLostWakeup, NEW k \in Keys, Paid(k)
    PROVE  Waiting(k)' # {} =>
             Len(queue'[k]) <= Cardinality(Notifying(k)') + Cardinality(Awake(k)')
<1> DEFINE N == Notifying(k)
           A == Awake(k)
           before == Cardinality(N) + Cardinality(A)
           after == Cardinality(N') + Cardinality(A')
<1>1. Len(queue[k]) \in Nat /\ Len(queue'[k]) \in Nat
  BY DEF IInv, TypeOK
<1>2. /\ N \in SUBSET Threads /\ A \in SUBSET Threads
      /\ N' \in SUBSET Threads /\ A' \in SUBSET Threads
  BY DEF Notifying, Awake
<1>3. Waiting(k) # {} => Len(queue[k]) <= before
  BY DEF NoLostWakeup
<1>4. /\ before \in Nat /\ after \in Nat
      /\ N \subseteq N' /\ A \subseteq A' => before <= after
      /\ \A t : N \subseteq N' /\ A \ {t} \subseteq A' => before <= after + 1
      /\ \A t \in Threads \ N : N \cup {t} \subseteq N' /\ A \subseteq A' => before + 1 <= after
      /\ \A t, w \in Threads :
           w \notin A /\ N \ {t} \subseteq N' /\ A \cup {w} \subseteq A' => before <= after
  <2>. HIDE DEF N, A
  <2>. QED BY <1>2, CountsMove
<1>5. queue'[k] = <<>> => Len(queue'[k]) = 0
  OBVIOUS
<1> HIDE DEF before, after
<1>6. ASSUME Waiting(k)' # {}, queue'[k] # <<>> PROVE Len(queue'[k]) <= after
  <2>0. Waiting(k)' \subseteq Waiting(k) => Len(queue[k]) <= before
    BY <1>3, <1>6
  <2>1. CASE /\ Waiting(k)' \subseteq Waiting(k) /\ Len(queue'[k]) = Len(queue[k])
             /\ Notifying(k) \subseteq Notifying(k)' /\ Awake(k) \subseteq Awake(k)'
    BY <1>1, <1>4, <2>0, <2>1
  <2>2. ASSUME NEW t, Waiting(k)' \subseteq Waiting(k),
               Len(queue'[k]) + 1 = Len(queue[k]),
               Notifying(k) \subseteq Notifying(k)', Awake(k) \ {t} \subseteq Awake(k)'
        PROVE  Len(queue'[k]) <= after
    <3>1. before <= after + 1
      BY <1>4, <2>2
    <3>. QED BY <1>1, <1>4, <2>0, <2>2, <3>1
  <2>3. ASSUME NEW t \in Threads \ Notifying(k), Waiting(k)' \subseteq Waiting(k),
               Len(queue'[k]) = Len(queue[k]) + 1,
               Notifying(k) \cup {t} \subseteq Notifying(k)', Awake(k) \subseteq Awake(k)'
        PROVE  Len(queue'[k]) <= after
    <3>1. before + 1 <= after
      BY <1>4, <2>3
    <3>. QED BY <1>1, <1>4, <2>0, <2>3, <3>1
  <2>4. ASSUME NEW t \in Threads, NEW w \in Threads, Waiting(k)' \subseteq Waiting(k),
               Len(queue'[k]) = Len(queue[k]),
               w \notin Awake(k), Notifying(k) \ {t} \subseteq Notifying(k)',
               Awake(k) \cup {w} \subseteq Awake(k)'
        PROVE  Len(queue'[k]) <= after
    <3>1. before <= after
      BY <1>4, <2>4
    <3>. QED BY <1>1, <1>4, <2>0, <2>4, <3>1
  <2>. QED BY <1>6, <2>1, <2>2, <2>3, <2>4 DEF Paid
<1>7. Waiting(k)' # {} => Len(queue'[k]) <= after
  BY <1>1, <1>4, <1>5, <1>6
<1>. QED BY <1>7 DEF after

\* A step that changes no count at k.
LEMMA NothingToPay ==
    ASSUME NEW k \in Keys, queue'[k] = queue[k], Waiting(k)' \subseteq Waiting(k),
           Notifying(k) \subseteq Notifying(k)', Awake(k) \subseteq Awake(k)'
    PROVE  Paid(k)
BY DEF Paid

\* Who takes a connection no longer waits for it; who finds none may wait.
LEMMA PullPays ==
    ASSUME IInv, NEW t \in Threads, NEW j \in Keys, pc[t] \in {"out", "woken", "fill"},
           pc[t] = "woken" => key[t] = j, Pull(t, j)
    PROVE  \A k \in Keys : Paid(k)
<1>0. /\ pc \in [Threads -> ThreadState] /\ key \in [Threads -> Keys \cup {NoKey}]
      /\ queue \in [Keys -> Seq(Connection)] /\ key' = [key EXCEPT ![t] = j]
  BY DEF IInv, TypeOK, Pull
<1>1. CASE queue[j] # <<>>
  <2>1. /\ pc' = [pc EXCEPT ![t] = "use"] /\ queue' = [queue EXCEPT ![j] = Tail(@)]
    BY <1>1 DEF Pull
  <2>2. Len(queue'[j]) + 1 = Len(queue[j])
    <3>1. queue[j] \in Seq(Connection) /\ Len(queue[j]) \in Nat
      BY <1>0
    <3>2. Len(Tail(queue[j])) = Len(queue[j]) - 1
      BY <1>1, <3>1, TailFacts
    <3>. QED BY <1>0, <2>1, <3>1, <3>2
  <2>3. /\ Waiting(j)' \subseteq Waiting(j) /\ Notifying(j) \subseteq Notifying(j)'
        /\ Awake(j) \ {t} \subseteq Awake(j)'
    BY <1>0, <2>1 DEF Waiting, Notifying, Awake
  <2>4. ASSUME NEW k \in Keys \ {j} PROVE Paid(k)
    <3>1. /\ queue'[k] = queue[k] /\ Waiting(k)' \subseteq Waiting(k)
          /\ Notifying(k) \subseteq Notifying(k)' /\ Awake(k) \subseteq Awake(k)'
      BY <1>0, <2>1 DEF Waiting, Notifying, Awake
    <3>. QED BY <3>1, NothingToPay
  <2>5. Paid(j)
    BY <2>2, <2>3 DEF Paid
  <2>. QED BY <2>4, <2>5
<1>2. CASE queue[j] = <<>>
  <2>1. pc' = [pc EXCEPT ![t] = "wait"] /\ queue' = queue
    BY <1>2 DEF Pull
  <2>2. Paid(j)
    BY <1>2, <2>1 DEF Paid
  <2>3. ASSUME NEW k \in Keys \ {j} PROVE Paid(k)
    <3>1. /\ queue'[k] = queue[k] /\ Waiting(k)' \subseteq Waiting(k)
          /\ Notifying(k) \subseteq Notifying(k)' /\ Awake(k) \subseteq Awake(k)'
      BY <1>0, <2>1 DEF Waiting, Notifying, Awake
    <3>. QED BY <3>1, NothingToPay
  <2>. QED BY <2>2, <2>3
<1>. QED BY <1>1, <1>2

\* A connection is pushed before anybody is notified: the thread that pushed it
\* still has to notify.
LEMMA ReleasePays ==
    ASSUME IInv, NEW t \in Threads, Release(t)
    PROVE  \A k \in Keys : Paid(k)
<1>0. /\ pc \in [Threads -> ThreadState] /\ key' = key /\ pc[t] = "use"
      /\ queue \in [Keys -> Seq(Connection)] /\ key[t] \in Keys
      /\ pc' = [pc EXCEPT ![t] = "notify"] /\ held[t] \in Connection
      /\ queue' = [queue EXCEPT ![key[t]] = Append(@, held[t])]
  BY DEF IInv, TypeOK, PlaceInv, Release
<1>1. Len(queue'[key[t]]) = Len(queue[key[t]]) + 1
  BY <1>0, AppendFacts
<1>2. ASSUME NEW k \in Keys
      PROVE  /\ Waiting(k)' \subseteq Waiting(k) /\ Awake(k) \subseteq Awake(k)'
             /\ Notifying(k) \subseteq Notifying(k)'
  BY <1>0 DEF Waiting, Notifying, Awake
<1>3. t \notin Notifying(key[t]) /\ t \in Notifying(key[t])'
  BY <1>0 DEF Notifying
<1>4. Paid(key[t])
  <2>1. Notifying(key[t]) \cup {t} \subseteq Notifying(key[t])'
    BY <1>0, <1>2, <1>3
  <2>. QED BY <1>0, <1>1, <1>2, <1>3, <2>1 DEF Paid
<1>5. ASSUME NEW k \in Keys \ {key[t]} PROVE Paid(k)
  BY <1>0, <1>2, <1>5, NothingToPay
<1>. QED BY <1>4, <1>5

\* notify_one wakes a waiter, if there is one.
LEMMA NotifyPays ==
    ASSUME IInv, NEW t \in Threads, Notify(t)
    PROVE  \A k \in Keys : Paid(k)
<1>0. /\ pc \in [Threads -> ThreadState] /\ key \in [Threads -> Keys \cup {NoKey}]
      /\ key' = [key EXCEPT ![t] = NoKey] /\ queue' = queue /\ pc[t] = "notify"
      /\ NoKey \notin Keys
  BY KeysAssumption DEF IInv, TypeOK, Notify
<1>1. CASE Waiting(key[t]) = {} /\ pc' = [pc EXCEPT ![t] = "out"]
  <2>1. ASSUME NEW k \in Keys
        PROVE  /\ Waiting(k)' \subseteq Waiting(k) /\ Awake(k) \subseteq Awake(k)'
               /\ k # key[t] => Notifying(k) \subseteq Notifying(k)'
    BY <1>0, <1>1 DEF Waiting, Notifying, Awake
  <2>2. ASSUME NEW k \in Keys, k = key[t] PROVE Paid(k)
    BY <1>1, <2>1, <2>2 DEF Paid
  <2>. QED BY <1>0, <2>1, <2>2, NothingToPay
<1>2. CASE \E w \in Waiting(key[t]) :
             pc' = [pc EXCEPT ![t] = "out",
                              ![w] = IF @ = "wait" THEN "woken" ELSE "drainWoken"]
  <2>1. PICK w \in Waiting(key[t]) :
             pc' = [pc EXCEPT ![t] = "out",
                              ![w] = IF @ = "wait" THEN "woken" ELSE "drainWoken"]
    BY <1>2
  <2>2. /\ w \in Threads /\ w # t /\ key[w] = key[t] /\ pc[w] \in {"wait", "drainWait"}
        /\ pc'[t] = "out" /\ pc'[w] \in {"woken", "drainWoken"} /\ key'[w] = key[t]
        /\ \A u \in Threads \ {t} : key'[u] = key[u] /\ (u # w => pc'[u] = pc[u])
    BY <1>0, <2>1 DEF Waiting
  <2>3. ASSUME NEW k \in Keys
        PROVE  /\ Waiting(k)' \subseteq Waiting(k) /\ Awake(k) \subseteq Awake(k)'
               /\ Notifying(k) \ {t} \subseteq Notifying(k)'
               /\ k # key[t] => Notifying(k) \subseteq Notifying(k)'
    BY <1>0, <2>2 DEF Waiting, Notifying, Awake
  <2>4. w \notin Awake(key[t])
    BY <1>0, <2>2 DEF Awake
  <2>5. ASSUME NEW k \in Keys, k = key[t] PROVE Paid(k)
    <3>1. Awake(k) \cup {w} \subseteq Awake(k)'
      <4>1. w \in Awake(k)'
        BY <1>0, <2>2, <2>5 DEF Awake
      <4>. QED BY <2>3, <4>1
    <3>2. w \notin Awake(k) /\ queue'[k] = queue[k]
      BY <1>0, <2>4, <2>5
    <3>. QED BY <2>2, <2>3, <3>1, <3>2 DEF Paid
  <2>. QED BY <1>0, <2>3, <2>5, NothingToPay
<1>. QED BY <1>1, <1>2 DEF Notify

\* A fill adds connections to a pool that has no waiters.
LEMMA FillPays ==
    ASSUME IInv, WaitInv, NEW t \in Threads, FillConnect(t)
    PROVE  \A k \in Keys : Paid(k)
<1>0. /\ pc' = pc /\ key' = key /\ pc[t] = "fill" /\ key[t] \in Keys
      /\ queue \in [Keys -> Seq(Connection)]
      /\ \A k \in Keys : k # key[t] => queue'[k] = queue[k]
  BY DEF IInv, TypeOK, PlaceInv, FillConnect
<1>1. ASSUME NEW k \in Keys
      PROVE  Waiting(k)' = Waiting(k) /\ Awake(k)' = Awake(k) /\ Notifying(k)' = Notifying(k)
  BY <1>0 DEF Waiting, Notifying, Awake
<1>2. Waiting(key[t]) = {}
  BY <1>0 DEF WaitInv, Waiting, InsidePool, Draining
<1>3. Paid(key[t])
  BY <1>0, <1>1, <1>2 DEF Paid
<1>. QED BY <1>0, <1>1, <1>3, NothingToPay

\* Whoever deletes a pool leaves nobody waiting in it.
LEMMA DrainNextPays ==
    ASSUME IInv, DrainNext
    PROVE  \A k \in Keys : Paid(k)
<1>0. /\ pc \in [Threads -> ThreadState] /\ key \in [Threads -> Keys \cup {NoKey}]
      /\ queue' = queue /\ pc[Owner] = "drain" /\ Owner \in Threads
      /\ \A u \in Threads \ {Owner} : key'[u] = key[u]
      /\ key'[Owner] # key[Owner] \/ pc'[Owner] \in {"between", "out"}
      /\ pc'[Owner] \in {"drain", "between", "out"}
  <2>1. \A j \in Smallest({j \in InMap(MapOf(key[Owner])) : j > key[Owner]}) : j # key[Owner]
    <3>1. key[Owner] \in Nat
      BY KeysAssumption, ThreadsAssumption DEF DrainNext, IInv, PlaceInv, Keys, Draining
    <3>. QED BY <3>1 DEF Smallest
  <2>. QED BY <2>1, ThreadsAssumption DEF IInv, TypeOK, DrainNext
<1>1. \A u \in Threads \ {Owner} :
        pc'[u] = IF u \in Inside(key[Owner]) THEN "dangling" ELSE pc[u]
  BY <1>0 DEF DrainNext
<1>2. ASSUME NEW k \in Keys, k = key[Owner] PROVE Waiting(k)' = {}
  <2>1. ASSUME NEW u \in Threads \ {Owner}, pc'[u] \in {"wait", "drainWait"}, key[u] = k
        PROVE  FALSE
    <3>1. u \notin Inside(k) /\ pc'[u] = pc[u]
      BY <1>1, <1>2, <2>1
    <3>2. u \in Waiting(k)
      BY <2>1, <3>1 DEF Waiting
    <3>. QED BY <3>1, <3>2 DEF Inside
  <2>. QED BY <1>0, <2>1 DEF Waiting
<1>3. ASSUME NEW k \in Keys, k # key[Owner] PROVE Paid(k)
  <2>1. \A u \in Threads \ {Owner} : key[u] = k => pc'[u] = pc[u]
    <3>1. \A u \in Inside(key[Owner]) : key[u] = key[Owner]
      BY DEF Inside, Waiting, Awake, Notifying
    <3>. QED BY <1>1, <1>3, <3>1
  <2>2. /\ Waiting(k)' \subseteq Waiting(k) /\ Awake(k) \subseteq Awake(k)'
        /\ Notifying(k) \subseteq Notifying(k)'
    BY <1>0, <1>3, <2>1 DEF Waiting, Notifying, Awake
  <2>. QED BY <1>0, <2>2, NothingToPay
<1>. QED BY <1>2, <1>3 DEF Paid

\* disconnect pulls connections, and it is awake or waits while it does.
LEMMA DrainPullPays ==
    ASSUME IInv, DrainPull
    PROVE  \A k \in Keys : Paid(k)
<1>0. /\ pc \in [Threads -> ThreadState] /\ key' = key /\ pc[Owner] = "drain"
      /\ queue \in [Keys -> Seq(Connection)] /\ key[Owner] \in Keys /\ Owner \in Threads
  BY ThreadsAssumption DEF IInv, TypeOK, PlaceInv, DrainPull
<1>1. CASE queue[key[Owner]] # <<>>
  <2>1. pc' = pc /\ queue' = [queue EXCEPT ![key[Owner]] = Tail(@)]
    BY <1>1 DEF DrainPull
  <2>2. Len(queue'[key[Owner]]) + 1 = Len(queue[key[Owner]])
    <3>1. queue[key[Owner]] \in Seq(Connection) /\ Len(queue[key[Owner]]) \in Nat
      BY <1>0
    <3>2. Len(Tail(queue[key[Owner]])) = Len(queue[key[Owner]]) - 1
      BY <1>1, <3>1, TailFacts
    <3>. QED BY <1>0, <2>1, <3>1, <3>2
  <2>3. ASSUME NEW k \in Keys
        PROVE  /\ Waiting(k)' \subseteq Waiting(k) /\ Awake(k) \subseteq Awake(k)'
               /\ Notifying(k) \subseteq Notifying(k)'
    BY <1>0, <2>1 DEF Waiting, Notifying, Awake
  <2>4. Paid(key[Owner])
    <3>1. Awake(key[Owner]) \ {Owner} \subseteq Awake(key[Owner])'
      BY <1>0, <2>3
    <3>. QED BY <1>0, <2>2, <2>3, <3>1 DEF Paid
  <2>. QED BY <1>0, <2>1, <2>3, <2>4, NothingToPay
<1>2. CASE queue[key[Owner]] = <<>>
  <2>1. pc' = [pc EXCEPT ![Owner] = "drainWait"] /\ queue' = queue
    BY <1>2 DEF DrainPull
  <2>2. Paid(key[Owner])
    BY <1>0, <1>2, <2>1 DEF Paid
  <2>3. ASSUME NEW k \in Keys \ {key[Owner]}
        PROVE  /\ Waiting(k)' \subseteq Waiting(k) /\ Awake(k) \subseteq Awake(k)'
               /\ Notifying(k) \subseteq Notifying(k)'
    BY <1>0, <2>1 DEF Waiting, Notifying, Awake
  <2>. QED BY <1>0, <2>1, <2>2, <2>3, NothingToPay
<1>. QED BY <1>1, <1>2

\* Every step pays.
LEMMA StepPays ==
    ASSUME IInv, WaitInv, [PoolNext]_poolVars
    PROVE  \A k \in Keys : Paid(k)
<1>0. /\ pc \in [Threads -> ThreadState] /\ key \in [Threads -> Keys \cup {NoKey}]
      /\ \A t \in Threads : pc[t] \notin {"out", "between"} => key[t] \in Keys
      /\ Owner \in Threads
  BY ThreadsAssumption DEF IInv, TypeOK, PlaceInv
<1>1. ASSUME NEW k \in Keys, queue' = queue, NEW t \in Threads,
             \A u \in Threads \ {t} : pc'[u] = pc[u] /\ key'[u] = key[u],
             \/ pc'[t] = pc[t] /\ key'[t] = key[t]
             \/ /\ pc[t] \in {"out", "use", "fill", "between"}
                /\ pc'[t] \notin {"wait", "drainWait"}
             \/ /\ pc[t] \in {"wait", "drainWait", "drainWoken"} /\ key'[t] = key[t]
                /\ pc'[t] \in {"woken", "drainWoken", "drain"}
      PROVE  Paid(k)
  <2>1. /\ Waiting(k)' \subseteq Waiting(k) /\ Awake(k) \subseteq Awake(k)'
        /\ Notifying(k) \subseteq Notifying(k)'
    BY <1>1 DEF Waiting, Notifying, Awake
  <2>. QED BY <1>1, <2>1, NothingToPay
<1>2. ASSUME NEW t \in Threads, PoolStep(t) PROVE \A k \in Keys : Paid(k)
  <2>1. CASE Retest(t)
    <3>1. pc[t] = "woken" /\ key[t] \in Keys /\ Pull(t, key[t])
      BY <1>0, <2>1 DEF Retest
    <3>. QED BY <3>1, PullPays
  <2>2. CASE SpuriousWake(t) \/ Drop(t) \/ FillFail(t) \/ Crash(t) \/ \E h \in Hosts : InsertNewHost(t, h)
    BY <1>0, <1>1, <2>2 DEF SpuriousWake, Drop, FillFail, Crash, InsertNewHost
  <2>3. CASE Release(t)
    BY <2>3, ReleasePays
  <2>4. CASE Notify(t)
    BY <2>4, NotifyPays
  <2>5. ASSUME NEW k \in Keys, GetConnection(t, k) \/ InsertKnownHost(t, k)
        PROVE  \A j \in Keys : Paid(j)
    BY <2>5, PullPays DEF GetConnection, InsertKnownHost
  <2>6. CASE FillConnect(t)
    BY <2>6, FillPays
  <2>7. CASE FillDone(t)
    <3>1. CASE key[t] \in Hosts /\ Pull(t, key[t])
      BY <2>7, <3>1, PullPays DEF FillDone, Keys
    <3>2. CASE key[t] \in Slots /\ pc' = [pc EXCEPT ![t] = "out"]
               /\ key' = [key EXCEPT ![t] = NoKey] /\ UNCHANGED <<queue, held>>
      BY <1>0, <1>1, <2>7, <3>2 DEF FillDone
    <3>. QED BY <2>7, <3>1, <3>2 DEF FillDone
  <2>. QED BY <1>2, <2>1, <2>2, <2>3, <2>4, <2>5, <2>6, <2>7 DEF PoolStep, Keys
<1>3. ASSUME OwnerStep PROVE \A k \in Keys : Paid(k)
  <2>1. CASE DrainRetest \/ DisconnectNodes \/ DisconnectHosts \/ \E s \in Slots : InsertSlots(s)
    BY <1>0, <1>1, <2>1 DEF DrainRetest, DisconnectNodes, DisconnectHosts, DrainFrom, InsertSlots
  <2>. QED BY <1>3, <2>1, DrainPullPays, DrainNextPays DEF OwnerStep
<1>4. CASE CallerCrash \/ UNCHANGED poolVars
  BY <1>0, <1>1, <1>4 DEF CallerCrash, poolVars
<1>. QED BY <1>2, <1>3, <1>4 DEF PoolNext

\* A sleeper never misses a connection, for any finite number of threads: in
\* pushConnection a notification follows every connection that is pushed, and
\* who is notified finds the connection or has been overtaken by one who took it.
THEOREM WakeupsSafe ==
    ASSUME IsFiniteSet(Threads)
    PROVE  PoolSpec => []NoLostWakeup
<1> DEFINE Inv == IInv /\ WaitInv /\ NoLostWakeup
<1>1. PoolInit => Inv
  <2>. SUFFICES ASSUME PoolInit PROVE Inv
    OBVIOUS
  <2>1. \A t \in Threads : pc[t] = "out"
    BY DEF PoolInit
  <2>2. WaitInv
    BY <2>1 DEF WaitInv, InsidePool
  <2>3. NoLostWakeup
    BY <2>1 DEF NoLostWakeup, Waiting
  <2>. QED BY <2>2, <2>3, InitIInv
<1>2. Inv /\ [PoolNext]_poolVars => Inv'
  <2>. SUFFICES ASSUME Inv, [PoolNext]_poolVars PROVE Inv'
    OBVIOUS
  <2>1. IInv' /\ WaitInv'
    BY NextIInv, WaitInvStep
  <2>2. ASSUME NEW k \in Keys
        PROVE  Waiting(k)' # {} =>
                 Len(queue'[k]) <= Cardinality(Notifying(k)') + Cardinality(Awake(k)')
    BY <2>1, StepPays, WakeupsKept
  <2>3. NoLostWakeup'
    BY <2>2 DEF NoLostWakeup
  <2>. QED BY <2>1, <2>3
<1>. QED BY <1>1, <1>2, PTL DEF PoolSpec

-----------------------------------------------------------------------------
(* The container implements ConnectionAllocator.  A step on the mutex, on  *)
(* a condition variable or on a map entry changes nothing an allocator     *)
(* shows; the steps that move a connection are Open (FillConnect), Acquire *)
(* (Pull), GiveBack (Release), Lose (Drop) and Close (DrainPull).          *)

\* What the refinement mapping takes for the free connections.
Free == UNION {{queue[k][i] : i \in 1..Len(queue[k])} : k \in Keys}

-----------------------------------------------------------------------------
(* The queues and the free connections                                     *)

\* Popping the front of a queue takes one connection out of the free ones:
\* it is in no other place of any queue.
LEMMA PoppedIsTaken ==
    ASSUME IInv, NEW k \in Keys, queue[k] # <<>>,
           queue' = [queue EXCEPT ![k] = Tail(@)]
    PROVE  /\ Head(queue[k]) \in Connection /\ Head(queue[k]) \in Free
           /\ Free' = Free \ {Head(queue[k])}
<1> DEFINE c == Head(queue[k])
<1>0. queue \in [Keys -> Seq(Connection)] /\ queue[k] \in Seq(Connection)
  BY DEF IInv, TypeOK
<1>1. /\ c = queue[k][1] /\ c \in Connection
      /\ 1 \in 1..Len(queue[k])
      /\ Len(Tail(queue[k])) = Len(queue[k]) - 1
      /\ \A i \in 1..Len(Tail(queue[k])) :
           i + 1 \in 1..Len(queue[k]) /\ Tail(queue[k])[i] = queue[k][i + 1]
      /\ Len(queue[k]) \in Nat
  BY <1>0, TailFacts
<1>2. queue'[k] = Tail(queue[k]) /\ \A j \in Keys : j # k => queue'[j] = queue[j]
  BY <1>0
<1>3. c \in Free
  BY <1>1 DEF Free
<1>4. ASSUME NEW d \in Free' PROVE d \in Free \ {c}
  <2>1. PICK j \in Keys : \E i \in 1..Len(queue'[j]) : d = queue'[j][i]
    BY <1>4 DEF Free
  <2>2. PICK i \in 1..Len(queue'[j]) : d = queue'[j][i]
    BY <2>1
  <2>3. CASE j = k
    <3>1. i \in 1..Len(Tail(queue[k])) /\ d = Tail(queue[k])[i]
      BY <1>2, <2>2, <2>3
    <3>2. i + 1 \in 1..Len(queue[k]) /\ d = queue[k][i + 1]
      BY <1>1, <3>1
    <3>3. PICK m \in 1..Len(queue[k]) : d = queue[k][m] /\ m # 1
      BY <3>1, <3>2
    <3>4. d # c
      BY <1>1, <3>3 DEF IInv, ConnectionsAccounted
    <3>. QED BY <3>3, <3>4 DEF Free
  <2>4. CASE j # k
    <3>1. i \in 1..Len(queue[j]) /\ d = queue[j][i]
      BY <1>2, <2>2, <2>4
    <3>2. d[1] = j /\ c[1] = k
      BY <1>1, <3>1 DEF IInv, ConnectionsAccounted
    <3>. QED BY <2>4, <3>1, <3>2 DEF Free
  <2>. QED BY <2>3, <2>4
<1>5. ASSUME NEW d \in Free, d # c PROVE d \in Free'
  <2>1. PICK j \in Keys : \E i \in 1..Len(queue[j]) : d = queue[j][i]
    BY <1>5 DEF Free
  <2>2. PICK i \in 1..Len(queue[j]) : d = queue[j][i]
    BY <2>1
  <2>3. CASE j = k
    <3>1. i \in 2..Len(queue[k]) /\ d = queue[k][i]
      BY <1>1, <1>5, <2>2, <2>3
    <3>2. /\ i - 1 \in 1..Len(Tail(queue[k])) /\ (i - 1) + 1 = i
      BY <1>1, <3>1
    <3>3. Tail(queue[k])[i - 1] = queue[k][i]
      BY <1>1, <3>2
    <3>4. PICK m \in 1..Len(queue'[k]) : d = queue'[k][m]
      BY <1>2, <3>1, <3>2, <3>3
    <3>. QED BY <3>4 DEF Free
  <2>4. CASE j # k
    <3>1. i \in 1..Len(queue'[j]) /\ d = queue'[j][i]
      BY <1>2, <2>2, <2>4
    <3>. QED BY <3>1 DEF Free
  <2>. QED BY <2>3, <2>4
<1>. QED BY <1>1, <1>3, <1>4, <1>5

\* Pushing a connection makes it free and leaves the others free.
LEMMA PushedIsFree ==
    ASSUME TypeOK, NEW k \in Keys, NEW c \in Connection,
           queue' = [queue EXCEPT ![k] = Append(@, c)]
    PROVE  Free' = Free \cup {c}
<1>0. queue \in [Keys -> Seq(Connection)] /\ queue[k] \in Seq(Connection)
  BY DEF TypeOK
<1>1. /\ Len(Append(queue[k], c)) = Len(queue[k]) + 1
      /\ \A i \in 1..Len(queue[k]) : Append(queue[k], c)[i] = queue[k][i]
      /\ Append(queue[k], c)[Len(queue[k]) + 1] = c
      /\ Len(queue[k]) \in Nat
  BY <1>0, AppendFacts
<1>2. /\ queue'[k] = Append(queue[k], c)
      /\ \A j \in Keys : j # k => queue'[j] = queue[j]
  BY <1>0
<1>3. ASSUME NEW d \in Free' PROVE d \in Free \cup {c}
  <2>1. PICK j \in Keys : \E i \in 1..Len(queue'[j]) : d = queue'[j][i]
    BY <1>3 DEF Free
  <2>2. PICK i \in 1..Len(queue'[j]) : d = queue'[j][i]
    BY <2>1
  <2>3. d = c \/ (i \in 1..Len(queue[j]) /\ d = queue[j][i])
    BY <1>1, <1>2, <2>2
  <2>. QED BY <2>3 DEF Free
<1>4. ASSUME NEW d \in Free PROVE d \in Free'
  <2>1. PICK j \in Keys : \E i \in 1..Len(queue[j]) : d = queue[j][i]
    BY <1>4 DEF Free
  <2>2. PICK i \in 1..Len(queue[j]) : d = queue[j][i]
    BY <2>1
  <2>3. i \in 1..Len(queue'[j]) /\ d = queue'[j][i]
    BY <1>1, <1>2, <2>2
  <2>. QED BY <2>3 DEF Free
<1>5. c \in Free'
  <2>1. Len(queue[k]) + 1 \in 1..Len(queue'[k]) /\ queue'[k][Len(queue[k]) + 1] = c
    BY <1>1, <1>2
  <2>. QED BY <2>1 DEF Free
<1>. QED BY <1>3, <1>4, <1>5

\* An unchanged queue has the same free connections.
LEMMA QueueKept == UNCHANGED queue => UNCHANGED Free
BY DEF Free

-----------------------------------------------------------------------------
(* The steps of the container as steps of the allocator                    *)

\* A pull acquires the front connection, or goes to sleep without one.
LEMMA PullAcquires ==
    ASSUME IInv, NEW t \in Threads, NEW k \in Keys, held[t] = NoConnection,
           Pull(t, k), UNCHANGED leaked
    PROVE  [Allocator!AllocNext]_(Allocator!allocVars)
<1>1. CASE queue[k] # <<>>
  <2>1. queue' = [queue EXCEPT ![k] = Tail(@)]
    BY <1>1 DEF Pull
  <2>2. held' = [held EXCEPT ![t] = Head(queue[k])]
    BY <1>1 DEF Pull
  <2>3. /\ Head(queue[k]) \in Connection /\ Head(queue[k]) \in Free
        /\ Free' = Free \ {Head(queue[k])}
    BY <1>1, <2>1, PoppedIsTaken
  <2>4. \E c \in Connection : Allocator!Acquire(t, c)
    BY <2>2, <2>3 DEF Allocator!Acquire, Free
  <2>. QED BY <2>4 DEF Allocator!AllocNext
<1>2. CASE queue[k] = <<>>
  <2>1. UNCHANGED <<queue, held, leaked>>
    BY <1>2 DEF Pull
  <2>2. UNCHANGED Free
    BY <2>1, QueueKept
  <2>. QED BY <2>1, <2>2 DEF Allocator!allocVars, Free
<1>. QED BY <1>1, <1>2

\* A step that moves no connection is a stutter of the allocator.
LEMMA NothingMoves ==
    ASSUME UNCHANGED <<queue, held, leaked>>
    PROVE  [Allocator!AllocNext]_(Allocator!allocVars)
BY QueueKept DEF Allocator!allocVars, Free

\* A release gives back the connection of the thread.
LEMMA ReleaseMapped ==
    ASSUME IInv, NEW t \in Threads, Release(t)
    PROVE  Allocator!AllocNext
<1>1. key[t] \in Keys /\ held[t] # NoConnection /\ held[t] \in Connection
  BY DEF IInv, PlaceInv, TypeOK, Release
<1>2. Free' = Free \cup {held[t]}
  BY <1>1, PushedIsFree DEF Release, IInv
<1>3. Allocator!GiveBack(t)
  BY <1>1, <1>2 DEF Allocator!GiveBack, Free, Release
<1>. QED BY <1>3 DEF Allocator!AllocNext

\* A caller that drops its connection loses it.
LEMMA DropLoses ==
    ASSUME IInv, NEW t \in Threads, Drop(t)
    PROVE  Allocator!AllocNext
<1>1. held[t] # NoConnection /\ UNCHANGED Free
  BY QueueKept DEF IInv, PlaceInv, Drop
<1>2. Allocator!Lose(t)
  BY <1>1 DEF Allocator!Lose, Free, Drop
<1>. QED BY <1>2 DEF Allocator!AllocNext

\* The connection fillPool opens is open nowhere else: the queue has those
\* before it, no thread holds one of this pool, and none is lost.
LEMMA FillOpens ==
    ASSUME IInv, NEW t \in Threads, FillConnect(t)
    PROVE  Allocator!AllocNext
<1> DEFINE k == key[t]
           n == Len(queue[k])
           c == <<k, n + 1>>
<1>1. k \in Keys /\ pc[t] = "fill" /\ queue[k] \in Seq(Connection) /\ n \in Nat /\ n < PoolSize
  BY DEF IInv, PlaceInv, TypeOK, FillConnect, Draining
<1>2. c \in Connection
  BY <1>1, PoolSizeAssumption DEF Connection
<1>3. queue' = [queue EXCEPT ![k] = Append(@, c)] /\ UNCHANGED <<held, leaked>>
  BY <1>1 DEF FillConnect, IInv, TypeOK
<1>4. Free' = Free \cup {c}
  BY <1>1, <1>2, <1>3, PushedIsFree DEF IInv
<1>5. c \notin Free
  <2>. SUFFICES ASSUME NEW j \in Keys, NEW i \in 1..Len(queue[j]), queue[j][i] = c
                PROVE  FALSE
    BY DEF Free
  <2>1. j = k
    BY DEF IInv, ConnectionsAccounted
  <2>2. queue[k][i] = <<k, i>>
    BY <1>1, <2>1 DEF IInv, FillInv
  <2>3. i = n + 1
    BY <2>1, <2>2
  <2>. QED BY <1>1, <2>1, <2>3
<1>6. \A u \in Threads : held[u] # c
  BY <1>1, <1>2, NoConnectionAssumption DEF IInv, FillInv, Holders
<1>7. c \notin leaked
  BY <1>1 DEF IInv, FillInv
<1>8. c \notin Free \cup ({held[u] : u \in Threads} \ {NoConnection}) \cup leaked
  BY <1>5, <1>6, <1>7
<1>9. \E d \in Connection : Allocator!Open(d)
  BY <1>2, <1>3, <1>4, <1>8 DEF Allocator!Open, Allocator!Used, Free
<1>. QED BY <1>9 DEF Allocator!AllocNext

\* disconnect closes connections it has pulled from a queue.
LEMMA DrainCloses ==
    ASSUME IInv, DrainPull
    PROVE  [Allocator!AllocNext]_(Allocator!allocVars)
<1> DEFINE k == key[Owner]
<1>1. k \in Keys
  BY ThreadsAssumption DEF IInv, PlaceInv, DrainPull
<1>2. CASE queue[k] # <<>>
  <2>1. queue' = [queue EXCEPT ![k] = Tail(@)] /\ UNCHANGED <<held, leaked>>
    BY <1>2 DEF DrainPull
  <2>2. /\ Head(queue[k]) \in Connection /\ Head(queue[k]) \in Free
        /\ Free' = Free \ {Head(queue[k])}
    BY <1>1, <1>2, <2>1, PoppedIsTaken
  <2>3. \E c \in Connection : Allocator!Close(c)
    BY <2>1, <2>2 DEF Allocator!Close, Free
  <2>. QED BY <2>3 DEF Allocator!AllocNext
<1>3. CASE queue[k] = <<>>
  BY <1>3, NothingMoves DEF DrainPull
<1>. QED BY <1>2, <1>3

\* Every step of the container is a step of the allocator, or a stutter.
LEMMA StepRefines ==
    ASSUME IInv, [PoolNext]_poolVars
    PROVE  [Allocator!AllocNext]_(Allocator!allocVars)
<1>1. ASSUME NEW t \in Threads, PoolStep(t)
      PROVE  [Allocator!AllocNext]_(Allocator!allocVars)
  <2>1. CASE Retest(t)
    <3>1. key[t] \in Keys /\ held[t] = NoConnection
      BY <2>1 DEF IInv, PlaceInv, Retest
    <3>. QED BY <2>1, <3>1, PullAcquires DEF Retest
  <2>2. ASSUME NEW k \in Keys, GetConnection(t, k) \/ InsertKnownHost(t, k)
        PROVE  [Allocator!AllocNext]_(Allocator!allocVars)
    <3>1. held[t] = NoConnection
      BY <2>2 DEF IInv, PlaceInv, GetConnection, InsertKnownHost
    <3>. QED BY <2>2, <3>1, PullAcquires DEF GetConnection, InsertKnownHost
  <2>3. CASE FillDone(t)
    <3>1. key[t] \in Keys /\ held[t] = NoConnection
      BY <2>3 DEF IInv, PlaceInv, FillDone
    <3>2. CASE key[t] \in Hosts /\ Pull(t, key[t])
      BY <2>3, <3>1, <3>2, PullAcquires DEF FillDone
    <3>3. CASE UNCHANGED <<queue, held>>
      BY <2>3, <3>3, NothingMoves DEF FillDone
    <3>. QED BY <2>3, <3>2, <3>3 DEF FillDone
  <2>4. CASE Release(t)
    BY <2>4, ReleaseMapped
  <2>5. CASE Drop(t)
    BY <2>5, DropLoses
  <2>6. CASE FillConnect(t)
    BY <2>6, FillOpens
  <2>7. CASE SpuriousWake(t) \/ Notify(t) \/ FillFail(t) \/ Crash(t)
    BY <2>7, NothingMoves DEF SpuriousWake, Notify, FillFail, Crash
  <2>8. ASSUME NEW h \in Keys, InsertNewHost(t, h)
        PROVE  [Allocator!AllocNext]_(Allocator!allocVars)
    BY <2>8, NothingMoves DEF InsertNewHost
  <2>. QED BY <1>1, <2>1, <2>2, <2>3, <2>4, <2>5, <2>6, <2>7, <2>8 DEF PoolStep, Keys
<1>2. ASSUME OwnerStep
      PROVE  [Allocator!AllocNext]_(Allocator!allocVars)
  <2>1. CASE DrainPull
    BY <2>1, DrainCloses
  <2>2. CASE DisconnectNodes \/ DisconnectHosts \/ DrainRetest \/ DrainNext
    BY <2>2, NothingMoves DEF DisconnectNodes, DisconnectHosts, DrainRetest, DrainNext
  <2>3. ASSUME NEW s \in Keys, InsertSlots(s)
        PROVE  [Allocator!AllocNext]_(Allocator!allocVars)
    BY <2>3, NothingMoves DEF InsertSlots
  <2>. QED BY <1>2, <2>1, <2>2, <2>3 DEF OwnerStep, Keys
<1>3. CASE CallerCrash \/ UNCHANGED poolVars
  BY <1>3, NothingMoves DEF CallerCrash, poolVars
<1>. QED BY <1>1, <1>2, <1>3 DEF PoolNext

\* At the start no connection is open.
LEMMA InitRefines == PoolInit => Allocator!AllocInit
<1>. SUFFICES ASSUME PoolInit PROVE Allocator!AllocInit
  OBVIOUS
<1>1. \A k \in Keys : queue[k] = <<>>
  BY DEF PoolInit
<1>2. \A k \in Keys : {queue[k][i] : i \in 1..Len(queue[k])} = {}
  BY <1>1
<1>3. Free = {}
  BY <1>2 DEF Free
<1>. QED BY <1>3 DEF PoolInit, Allocator!AllocInit, Free

\* The container is an allocator of connections: whoever waits, is notified,
\* fills or disconnects, a connection is opened only when it is nowhere,
\* handed to one thread at a time, closed only when nobody uses it, and never
\* handed out again once it was dropped.
THEOREM PoolImplementsAllocator == PoolSpec => ImplementsAllocator
<1>1. PoolInit => Allocator!AllocInit
  BY InitRefines
<1>2. IInv /\ [PoolNext]_poolVars => [Allocator!AllocNext]_(Allocator!allocVars)
  BY StepRefines
<1>. QED BY <1>1, <1>2, PoolInvariant, PTL DEF PoolSpec, ImplementsAllocator, Allocator!AllocSpec

-----------------------------------------------------------------------------
(* The commands.  The only calls that drop a connection are those after a  *)
(* redirection: that they hold one of a host, and not of a slot, is        *)
(* HostPhaseInv.                                                           *)

\* The phases after a redirection.
HostPhase == {"ask", "moved", "resend", "give"}

\* A thread that follows a redirection is outside the container or in the
\* pool of a host; the owner constructs and disconnects between commands.
HostPhaseInv ==
    /\ \A t \in Threads : cmd[t] \in HostPhase => pc[t] = "out" \/ key[t] \in Hosts
    /\ ~ready => cmd[Owner] = "idle"

CommandInv ==
    /\ IInv
    /\ cmd \in [Threads -> Phase]
    /\ reply \in [Threads -> Reply]
    /\ HostPhaseInv
    /\ BaseConnectionsReturn

-----------------------------------------------------------------------------
(* A command uses the container as it may be used                          *)

\* Every step of a command is one of the container, or does not touch it.
LEMMA StepUsesPool ==
    ASSUME [CommandNext]_commandVars
    PROVE  [PoolNext]_poolVars
<1> USE ThreadsAssumption
<1>1. CASE UNCHANGED commandVars
  BY <1>1 DEF commandVars
<1>2. ASSUME ~crashed, Construct \/ Stop \/ Disconnect
      PROVE  [PoolNext]_poolVars
  BY <1>2 DEF Construct, InitReady, InitInsert, Stop, Disconnect, PoolNext, OwnerStep
<1>3. ASSUME ~crashed, NEW t \in Threads, CommandStep(t)
      PROVE  [PoolNext]_poolVars
  <2>1. CASE Query(t) \/ ResendMoved(t)
    BY <2>1 DEF Query, ResendMoved
  <2>2. CASE GiveBackBase(t) \/ GiveBackHost(t)
    BY <1>3, <2>2 DEF GiveBackBase, GiveBackHost, PoolNext, PoolStep
  <2>3. CASE Check(t)
    BY <1>3, <2>3 DEF Check, PoolNext
  <2>4. CASE \E h \in Hosts : Redirect(t, h)
    BY <1>3, <2>4 DEF Redirect, PoolNext, PoolStep
  <2>5. CASE HostBroken(t) \/ Asking(t) \/ Resend(t)
    BY <1>3, <2>5 DEF HostBroken, Asking, Resend, PoolNext, PoolStep
  <2>6. CASE InContainer(t) \/ Connect(t) \/ ConnectFails(t)
    BY <1>3, <2>6 DEF InContainer, Connect, ConnectFails, PoolNext, PoolStep
  <2>. QED BY <1>3, <2>1, <2>2, <2>3, <2>4, <2>5, <2>6 DEF CommandStep
<1>4. ASSUME ~crashed, NEW t \in Threads,
             \/ \E s \in Slots : Begin(t, s)
             \/ BeginNotReady(t) \/ WakeSpuriously(t) \/ ContainerCrash(t)
      PROVE  [PoolNext]_poolVars
  BY <1>4 DEF Begin, BeginNotReady, WakeSpuriously, ContainerCrash, PoolNext, PoolStep
<1>. QED BY <1>1, <1>2, <1>3, <1>4 DEF CommandNext

\* HiredisCommand and Cluster release only what they hold, once and to the
\* pool it came from, and take no second connection before.
THEOREM CommandUsesPool == CommandSpec => PoolSpec
<1>1. CommandInit => PoolInit
  BY DEF CommandInit
<1>2. [CommandNext]_commandVars => [PoolNext]_poolVars
  BY StepUsesPool
<1>. QED BY <1>1, <1>2, PTL DEF CommandSpec, PoolSpec

-----------------------------------------------------------------------------
(* The connections of a slot's pool come back                              *)

\* A step of thread t keeps HostPhaseInv if t is outside the container, in a
\* host's pool or in no redirection afterwards, and moves nobody else.
LEMMA HostPhaseKept ==
    ASSUME HostPhaseInv, NEW t \in Threads,
           \A u \in Threads \ {t} :
             /\ cmd'[u] = cmd[u]
             /\ pc'[u] = "out" \/ key'[u] = key[u]
             /\ pc[u] = "out" => pc'[u] = "out",
           cmd'[t] \in HostPhase => pc'[t] = "out" \/ key'[t] \in Hosts,
           ~ready' => ~ready, t = Owner /\ ~ready => cmd'[t] = "idle"
    PROVE  HostPhaseInv'
BY ThreadsAssumption DEF HostPhaseInv

\* The owner's steps outside a command.
LEMMA OwnerKeepsPhases ==
    ASSUME CommandInv, Construct \/ Stop \/ Disconnect
    PROVE  HostPhaseInv'
<1> USE DEF CommandInv, IInv, TypeOK
<1>1. CASE Stop \/ InitReady
  BY <1>1 DEF Stop, InitReady, HostPhaseInv, HostPhase, poolVars
<1>2. CASE Disconnect \/ \E s \in Slots : InitInsert(s)
  <2>1. cmd[Owner] = "idle" /\ UNCHANGED <<cmd, ready>>
    BY <1>2 DEF Disconnect, InitInsert, HostPhaseInv, cmdVars
  <2>2. ASSUME NEW u \in Threads \ {Owner}
        PROVE  key'[u] = key[u] /\ (pc[u] = "out" => pc'[u] = "out")
    <3>1. CASE DrainNext
      BY <3>1, ThreadsAssumption DEF DrainNext, Inside, Waiting, Awake, Notifying
    <3>2. CASE DisconnectNodes \/ DisconnectHosts
      BY <3>2, ThreadsAssumption DEF DisconnectNodes, DisconnectHosts, DrainFrom
    <3>3. CASE DrainPull \/ DrainRetest \/ \E s \in Slots : InsertSlots(s)
      BY <3>3, ThreadsAssumption DEF DrainPull, DrainRetest, InsertSlots
    <3>. QED BY <1>2, <3>1, <3>2, <3>3 DEF Disconnect, InitInsert
  <2>. QED BY <2>1, <2>2, HostPhaseKept, ThreadsAssumption DEF HostPhase
<1>. QED BY <1>1, <1>2 DEF Construct

\* The steps of a command.
LEMMA CommandKeepsPhases ==
    ASSUME CommandInv, NEW t \in Threads,
           \/ \E s \in Slots : Begin(t, s)
           \/ BeginNotReady(t) \/ CommandStep(t) \/ WakeSpuriously(t)
           \/ ContainerCrash(t)
    PROVE  HostPhaseInv'
<1>0. /\ pc \in [Threads -> ThreadState] /\ key \in [Threads -> Keys \cup {NoKey}]
      /\ cmd \in [Threads -> Phase] /\ HostPhaseInv
  BY DEF CommandInv, IInv, TypeOK
<1>1. CASE UNCHANGED <<cmd, pc, key, ready>>
  BY <1>1 DEF CommandInv, HostPhaseInv
<1>2. ASSUME NEW k \in Keys, Pull(t, k), UNCHANGED <<cmd, ready>>,
             cmd[t] \in HostPhase => k \in Hosts
      PROVE  HostPhaseInv'
  BY <1>0, <1>2, HostPhaseKept DEF Pull, HostPhaseInv
<1>3. ASSUME cmd' = [cmd EXCEPT ![t] = "idle"] \/ cmd' = [cmd EXCEPT ![t] = "check"],
             cmd'[t] = "check" => cmd[t] # "idle",
             \A u \in Threads \ {t} : pc'[u] = pc[u] /\ key'[u] = key[u],
             UNCHANGED ready
      PROVE  HostPhaseInv'
  BY <1>0, <1>3, HostPhaseKept DEF HostPhase, HostPhaseInv
<1>4. CASE \E s \in Slots : Begin(t, s)
  <2>1. PICK s \in Slots : Begin(t, s)
    BY <1>4
  <2>2. cmd' = [cmd EXCEPT ![t] = "base"] /\ ready /\ ready' = ready /\ Pull(t, s)
    BY <2>1 DEF Begin, Goto, GetConnection
  <2>. QED BY <1>0, <2>2, HostPhaseKept DEF Pull, HostPhase
<1>5. CASE BeginNotReady(t)
  BY <1>0, <1>3, <1>5 DEF BeginNotReady, Throw, poolVars
<1>6. CASE Query(t) \/ ContainerCrash(t)
  BY <1>1, <1>6 DEF Query, ContainerCrash, Crash, poolVars, cmdVars
<1>7. CASE GiveBackBase(t) \/ GiveBackHost(t)
  BY <1>0, <1>3, <1>7 DEF GiveBackBase, GiveBackHost, Goto, Release
<1>8. CASE Check(t)
  <2>1. /\ pc[t] = "out" /\ cmd[t] # "idle" /\ UNCHANGED <<pc, key, ready>>
        /\ \A u \in Threads \ {t} : cmd'[u] = cmd[u]
    BY <1>0, <1>8 DEF Check, Goto, Throw, CallerCrash, poolVars
  <2>. QED BY <1>0, <2>1, HostPhaseKept DEF HostPhaseInv
<1>9. CASE \E h \in Hosts : Redirect(t, h)
  <2>1. PICK h \in Hosts : Redirect(t, h)
    BY <1>9
  <2>2. CASE InsertKnownHost(t, h)
    BY <1>2, <2>1, <2>2 DEF InsertKnownHost, Redirect, cmdVars, Keys
  <2>3. CASE InsertNewHost(t, h)
    <3>1. /\ key' = [key EXCEPT ![t] = h] /\ pc' = [pc EXCEPT ![t] = "fill"]
          /\ UNCHANGED <<cmd, ready>>
      BY <2>1, <2>3 DEF InsertNewHost, Redirect, cmdVars
    <3>. QED BY <1>0, <3>1, HostPhaseKept DEF HostPhaseInv
  <2>. QED BY <2>1, <2>2, <2>3 DEF Redirect
<1>10. CASE HostBroken(t) \/ Asking(t) \/ Resend(t) \/ ResendMoved(t)
  <2>1. CASE Drop(t) /\ Throw(t) /\ UNCHANGED ready
    BY <1>0, <1>3, <2>1 DEF Drop, Throw
  <2>2. /\ Goto(t, "resend") \/ Goto(t, "give")
        /\ UNCHANGED <<poolVars, ready>> /\ cmd[t] \in HostPhase
        => HostPhaseInv'
    <3>. SUFFICES ASSUME Goto(t, "resend") \/ Goto(t, "give"),
                         UNCHANGED <<poolVars, ready>>, cmd[t] \in HostPhase
                  PROVE  HostPhaseInv'
      OBVIOUS
    <3>. QED BY <1>0, HostPhaseKept DEF Goto, poolVars, HostPhaseInv, HostPhase
  <2>3. CallerCrash /\ UNCHANGED <<cmd, ready>> => HostPhaseInv'
    BY <1>0 DEF CallerCrash, HostPhaseInv
  <2>. QED BY <1>10, <2>1, <2>2, <2>3
           DEF HostBroken, Asking, Resend, ResendMoved, HostPhase
<1>11. CASE InContainer(t)
  <2>. USE DEF InContainer, cmdVars
  <2>1. CASE Retest(t)
    <3>1. key[t] \in Keys /\ pc[t] = "woken"
      BY <2>1 DEF CommandInv, IInv, PlaceInv, Retest
    <3>. QED BY <1>0, <1>2, <1>11, <2>1, <3>1 DEF Retest, HostPhaseInv
  <2>2. CASE Notify(t)
    <3>1. /\ pc'[t] = "out" /\ UNCHANGED <<cmd, ready>>
          /\ \A u \in Threads \ {t} :
               key'[u] = key[u] /\ (pc[u] = "out" => pc'[u] = "out")
      BY <1>0, <1>11, <2>2 DEF Notify, Waiting
    <3>. QED BY <1>0, <3>1, HostPhaseKept DEF HostPhaseInv
  <2>3. CASE FillDone(t)
    <3>1. CASE key[t] \in Hosts /\ Pull(t, key[t])
      BY <1>2, <1>11, <2>3, <3>1 DEF FillDone, Keys
    <3>2. CASE pc' = [pc EXCEPT ![t] = "out"] /\ key' = [key EXCEPT ![t] = NoKey]
      BY <1>0, <1>11, <3>2, HostPhaseKept DEF HostPhaseInv
    <3>. QED BY <2>3, <3>1, <3>2 DEF FillDone
  <2>. QED BY <1>11, <2>1, <2>2, <2>3
<1>12. CASE Connect(t)
  BY <1>1, <1>12 DEF Connect, FillConnect
<1>13. CASE ConnectFails(t)
  BY <1>0, <1>3, <1>13 DEF ConnectFails, FillFail, Throw
<1>14. CASE WakeSpuriously(t)
  <2>1. /\ UNCHANGED <<cmd, key, ready>> /\ pc[t] # "out"
        /\ \A u \in Threads \ {t} : pc'[u] = pc[u]
    BY <1>0, <1>14 DEF WakeSpuriously, SpuriousWake, cmdVars
  <2>. QED BY <1>0, <2>1, HostPhaseKept DEF HostPhaseInv
<1>. QED BY <1>4, <1>5, <1>6, <1>7, <1>8, <1>9, <1>10, <1>11, <1>12, <1>13, <1>14
         DEF CommandStep

\* What a read yields is a reply, or the failure that it leaves behind.
LEMMA ReceivedReplies ==
    ASSUME NEW c, NEW answers \in SUBSET NodeReply, NEW r \in Received(c, answers)
    PROVE  r \in Reply
BY DEF Received, NodeReply, Reply, Failure

\* The program counters and replies of the commands keep their types.
LEMMA CommandTypes ==
    ASSUME CommandInv, [CommandNext]_commandVars
    PROVE  cmd' \in [Threads -> Phase] /\ reply' \in [Threads -> Reply]
<1>0. cmd \in [Threads -> Phase] /\ reply \in [Threads -> Reply]
  BY DEF CommandInv
<1>1. CASE UNCHANGED <<cmd, reply>>
  BY <1>0, <1>1
<1>2. ASSUME Construct \/ Stop \/ Disconnect PROVE UNCHANGED <<cmd, reply>>
  BY <1>2 DEF Construct, InitReady, InitInsert, Stop, Disconnect, cmdVars
<1>3. ASSUME NEW t \in Threads, NEW p \in Phase, NEW r \in Reply,
             cmd' = [cmd EXCEPT ![t] = p] \/ cmd' = cmd,
             reply' = [reply EXCEPT ![t] = r] \/ reply' = reply
      PROVE  cmd' \in [Threads -> Phase] /\ reply' \in [Threads -> Reply]
  BY <1>0, <1>3
<1>4. ASSUME NEW t \in Threads,
             \/ \E s \in Slots : Begin(t, s)
             \/ BeginNotReady(t) \/ CommandStep(t) \/ WakeSpuriously(t)
             \/ ContainerCrash(t)
      PROVE  cmd' \in [Threads -> Phase] /\ reply' \in [Threads -> Reply]
  <2>1. CASE (\E s \in Slots : Begin(t, s)) \/ BeginNotReady(t)
    BY <1>3, <2>1 DEF Begin, BeginNotReady, Goto, Throw, Phase, Reply
  <2>2. CASE Query(t) \/ ResendMoved(t) \/ Resend(t)
    <3>1. PICK r \in Reply : reply' = [reply EXCEPT ![t] = r] \/ reply' = reply
      BY <2>2, ReceivedReplies, RepliesAssumption
         DEF Query, ResendMoved, Resend, Throw, Reply
    <3>2. PICK p \in Phase : cmd' = [cmd EXCEPT ![t] = p] \/ cmd' = cmd
      BY <2>2 DEF Query, ResendMoved, Resend, Goto, Throw, Phase
    <3>. QED BY <1>3, <3>1, <3>2
  <2>3. CASE Asking(t) \/ HostBroken(t) \/ ConnectFails(t)
    BY <1>3, <2>3 DEF Asking, HostBroken, ConnectFails, Goto, Throw, Phase, Reply
  <2>4. CASE GiveBackBase(t) \/ GiveBackHost(t)
    BY <1>3, <2>4 DEF GiveBackBase, GiveBackHost, Goto, Phase, Reply
  <2>5. CASE Check(t)
    <3>1. PICK p \in Phase : cmd' = [cmd EXCEPT ![t] = p] \/ cmd' = cmd
      BY <2>5 DEF Check, Goto, Throw, Phase
    <3>2. PICK r \in Reply : reply' = [reply EXCEPT ![t] = r] \/ reply' = reply
      BY <2>5 DEF Check, Throw, Reply
    <3>. QED BY <1>3, <3>1, <3>2
  <2>6. CASE \/ \E h \in Hosts : Redirect(t, h)
             \/ InContainer(t) \/ Connect(t) \/ WakeSpuriously(t) \/ ContainerCrash(t)
    BY <1>1, <2>6 DEF Redirect, InContainer, Connect, WakeSpuriously, ContainerCrash, cmdVars
  <2>. QED BY <1>4, <2>1, <2>2, <2>3, <2>4, <2>5, <2>6 DEF CommandStep
<1>5. CASE UNCHANGED commandVars
  BY <1>1, <1>5 DEF commandVars, cmdVars
<1>. QED BY <1>1, <1>2, <1>4, <1>5 DEF CommandNext

\* Which steps lose a connection: it is one of a host, and the command throws.
LEMMA LeakStep ==
    ASSUME CommandInv, [CommandNext]_commandVars
    PROVE  \/ leaked' = leaked
           \/ \E t \in Threads : /\ cmd[t] \in HostPhase /\ reply'[t] = "thrown"
                                 /\ cmd' = [cmd EXCEPT ![t] = "idle"]
                                 /\ held[t][1] \in Hosts
                                 /\ leaked' = leaked \cup {held[t]}
<1>1. CASE UNCHANGED commandVars
  BY <1>1 DEF commandVars, poolVars
<1>2. ASSUME Construct \/ Stop \/ Disconnect PROVE leaked' = leaked
  BY <1>2 DEF Construct, InitReady, InitInsert, Stop, Disconnect, InsertSlots,
              DisconnectNodes, DisconnectHosts, DrainPull, DrainRetest, DrainNext, poolVars
<1>3. ASSUME NEW t \in Threads,
             \/ \E s \in Slots : Begin(t, s)
             \/ BeginNotReady(t) \/ WakeSpuriously(t) \/ ContainerCrash(t)
      PROVE  leaked' = leaked
  BY <1>3 DEF Begin, BeginNotReady, WakeSpuriously, ContainerCrash, GetConnection,
              SpuriousWake, Crash, poolVars
<1>4. ASSUME NEW t \in Threads, HostBroken(t) \/ Asking(t) \/ Resend(t)
      PROVE  \/ leaked' = leaked
             \/ /\ cmd[t] \in HostPhase /\ Drop(t) /\ Throw(t)
  BY <1>4 DEF HostBroken, Asking, Resend, CallerCrash, HostPhase, poolVars
<1>5. ASSUME NEW t \in Threads, cmd[t] \in HostPhase, Drop(t), Throw(t)
      PROVE  /\ cmd[t] \in HostPhase /\ reply'[t] = "thrown"
             /\ cmd' = [cmd EXCEPT ![t] = "idle"]
             /\ held[t][1] \in Hosts
             /\ leaked' = leaked \cup {held[t]}
  <2>1. pc[t] = "use" /\ leaked' = leaked \cup {held[t]}
    BY <1>5 DEF Drop
  <2>2. held[t][1] = key[t] /\ key[t] \in Hosts
    BY <1>5, <2>1 DEF CommandInv, IInv, PlaceInv, HostPhaseInv
  <2>. QED BY <1>5, <2>1, <2>2 DEF Throw, CommandInv
<1>6. ASSUME NEW t \in Threads, CommandStep(t), ~(HostBroken(t) \/ Asking(t) \/ Resend(t))
      PROVE  leaked' = leaked
  <2>1. CASE Query(t) \/ ResendMoved(t) \/ Check(t)
    BY <2>1 DEF Query, ResendMoved, Check, CallerCrash, poolVars
  <2>2. CASE GiveBackBase(t) \/ GiveBackHost(t) \/ \E h \in Hosts : Redirect(t, h)
    BY <2>2 DEF GiveBackBase, GiveBackHost, Release, Redirect, InsertKnownHost, InsertNewHost
  <2>3. CASE InContainer(t) \/ Connect(t) \/ ConnectFails(t)
    BY <2>3 DEF InContainer, Retest, Notify, FillDone, Connect, FillConnect,
                ConnectFails, FillFail
  <2>. QED BY <1>6, <2>1, <2>2, <2>3 DEF CommandStep
<1>. QED BY <1>1, <1>2, <1>3, <1>4, <1>5, <1>6 DEF CommandNext

\* CommandInv is inductive.
LEMMA CommandInvStep ==
    ASSUME CommandInv, [CommandNext]_commandVars
    PROVE  CommandInv'
<1>1. IInv'
  BY StepUsesPool, NextIInv DEF CommandInv
<1>2. cmd' \in [Threads -> Phase] /\ reply' \in [Threads -> Reply]
  BY CommandTypes
<1>3. HostPhaseInv'
  <2>1. CASE UNCHANGED commandVars
    BY <2>1 DEF commandVars, poolVars, cmdVars, CommandInv, HostPhaseInv
  <2>. QED BY <2>1, OwnerKeepsPhases, CommandKeepsPhases DEF CommandNext
<1>4. BaseConnectionsReturn'
  BY LeakStep DEF CommandInv, BaseConnectionsReturn
<1>. QED BY <1>1, <1>2, <1>3, <1>4 DEF CommandInv

LEMMA InitCommandInv == CommandInit => CommandInv
<1>. SUFFICES ASSUME CommandInit PROVE CommandInv
  OBVIOUS
<1>1. IInv
  BY InitIInv DEF CommandInit
<1>. QED BY <1>1, ThreadsAssumption DEF CommandInit, PoolInit, CommandInv, HostPhaseInv, HostPhase,
                        BaseConnectionsReturn, Phase, Reply

\* The invariant of the commands holds in every reachable state.
THEOREM CommandInvariant == CommandSpec => []CommandInv
<1>1. CommandInit => CommandInv
  BY InitCommandInv
<1>2. CommandInv /\ [CommandNext]_commandVars => CommandInv'
  BY CommandInvStep
<1>. QED BY <1>1, <1>2, PTL DEF CommandSpec

\* Whatever the nodes answer and whatever fails, process() gives every
\* connection of a slot's pool back.
THEOREM SlotConnectionsSafe == CommandSpec => []BaseConnectionsReturn
<1>1. CommandInv => BaseConnectionsReturn
  BY DEF CommandInv
<1>. QED BY <1>1, CommandInvariant, PTL

-----------------------------------------------------------------------------
(* A command that ends with a reply leaves nothing behind                  *)

\* The step that ends a command without an exception: the reply was looked
\* at after its connection was given back, or the host's is given back now.
LEMMA EndingStep ==
    ASSUME CommandInv, [CommandNext]_commandVars, NEW t \in Threads,
           cmd[t] # "idle", cmd'[t] = "idle", reply'[t] # "thrown"
    PROVE  Check(t) \/ GiveBackHost(t)
<1>0. cmd \in [Threads -> Phase] /\ reply \in [Threads -> Reply]
  BY DEF CommandInv
<1>1. PICK u \in Threads :
        \/ \E s \in Slots : Begin(u, s)
        \/ BeginNotReady(u) \/ CommandStep(u)
  BY DEF CommandNext, Construct, InitReady, InitInsert, Stop, Disconnect, commandVars,
         cmdVars, WakeSpuriously, ContainerCrash
<1>2. cmd' # cmd
  OBVIOUS
<1>3. CASE (\E s \in Slots : Begin(u, s)) \/ BeginNotReady(u)
  BY <1>0, <1>3 DEF Begin, BeginNotReady, Goto, Throw
<1>4. CASE Query(u) \/ Connect(u) \/ InContainer(u) \/ \E h \in Hosts : Redirect(u, h)
  BY <1>2, <1>4 DEF Query, Connect, InContainer, Redirect, cmdVars
<1>5. CASE HostBroken(u) \/ Asking(u) \/ Resend(u) \/ ResendMoved(u) \/ ConnectFails(u)
  BY <1>0, <1>5 DEF HostBroken, Asking, Resend, ResendMoved, ConnectFails, Goto, Throw
<1>6. CASE GiveBackBase(u)
  BY <1>0, <1>6 DEF GiveBackBase, Goto
<1>7. CASE Check(u) \/ GiveBackHost(u)
  BY <1>0, <1>7 DEF Check, GiveBackHost, Goto, Throw
<1>. QED BY <1>1, <1>3, <1>4, <1>5, <1>6, <1>7 DEF CommandStep

\* A command that ends with a reply holds no connection and has lost none.
THEOREM NothingLeftBehind == CommandSpec => ReturnsEmptyHanded
<1>1. ASSUME CommandInv, [CommandNext]_commandVars, NEW t \in Threads,
             cmd[t] # "idle", cmd'[t] = "idle", reply'[t] # "thrown"
      PROVE  held'[t] = NoConnection /\ leaked' = leaked
  <2>1. Check(t) \/ GiveBackHost(t)
    BY <1>1, EndingStep
  <2>2. CASE Check(t)
    <3>1. pc[t] = "out" /\ UNCHANGED <<held, leaked>>
      BY <2>2 DEF Check, CallerCrash, poolVars
    <3>. QED BY <1>1, <3>1 DEF CommandInv, IInv, PlaceInv
  <2>3. CASE GiveBackHost(t)
    BY <1>1, <2>3 DEF GiveBackHost, Release, CommandInv, IInv, TypeOK
  <2>. QED BY <2>1, <2>2, <2>3
<1>2. CommandInv /\ [CommandNext]_commandVars =>
        [\A t \in Threads :
           cmd[t] # "idle" /\ cmd'[t] = "idle" /\ reply'[t] # "thrown" =>
             held'[t] = NoConnection /\ leaked' = leaked]_commandVars
  BY <1>1
<1>. QED BY <1>2, CommandInvariant, PTL DEF CommandSpec, ReturnsEmptyHanded

-----------------------------------------------------------------------------
(* The maps of the container only grow while nobody disconnects            *)

PoolsGrow == pool' = pool \/ \E k \in Keys : pool' = [pool EXCEPT ![k] = "live"]

\* Constructing the cluster and sending commands deletes no pool.
LEMMA OnlyDisconnectDeletes ==
    ASSUME NEW t \in Threads,
           \/ Construct \/ CommandStep(t) \/ WakeSpuriously(t)
           \/ \E s \in Slots : Begin(t, s)
    PROVE  PoolsGrow /\ (ready' = ready \/ InitReady)
<1> USE DEF PoolsGrow, Keys
<1>1. CASE InitReady
  BY <1>1 DEF InitReady, poolVars
<1>2. CASE \E s \in Slots : InitInsert(s)
  BY <1>2 DEF InitInsert, InsertSlots, cmdVars
<1>3. CASE (\E s \in Slots : Begin(t, s)) \/ WakeSpuriously(t)
  BY <1>3 DEF Begin, GetConnection, WakeSpuriously, SpuriousWake, cmdVars
<1>4. CASE Query(t) \/ Check(t) \/ ResendMoved(t)
  BY <1>4 DEF Query, Check, ResendMoved, CallerCrash, poolVars
<1>5. CASE GiveBackBase(t) \/ GiveBackHost(t)
  BY <1>5 DEF GiveBackBase, GiveBackHost, Release
<1>6. CASE \E h \in Hosts : Redirect(t, h)
  BY <1>6 DEF Redirect, InsertKnownHost, InsertNewHost, cmdVars
<1>7. CASE HostBroken(t) \/ Asking(t) \/ Resend(t)
  BY <1>7 DEF HostBroken, Asking, Resend, CallerCrash, Drop, poolVars
<1>8. CASE InContainer(t)
  BY <1>8 DEF InContainer, Retest, Notify, FillDone, cmdVars
<1>9. CASE Connect(t) \/ ConnectFails(t)
  BY <1>9 DEF Connect, ConnectFails, FillConnect, FillFail
<1>. QED BY <1>1, <1>2, <1>3, <1>4, <1>5, <1>6, <1>7, <1>8, <1>9 DEF Construct, CommandStep

\* A thread finds what it dereferences while the pools of all ranges are there
\* and no map has an entry that is null or was forgotten.
LEMMA EntriesFound ==
    ASSUME IInv, Slots # {}, \A s \in Slots : pool[s] = "live",
           \A k \in Keys : pool[k] \in {"none", "live"},
           NEW t \in Threads
    PROVE  ~NullEntry(t)
<1>1. InMap(Slots) # {}
  BY DEF InMap
<1>2. ASSUME pc[t] = "use" PROVE pool[key[t]] = "live"
  <2>1. key[t] \in Keys /\ t \in Holders(key[t])
    BY <1>2 DEF IInv, PlaceInv, Holders
  <2>. QED BY <2>1 DEF IInv, DeletedPoolsUnused
<1>. QED BY <1>1, <1>2 DEF NullEntry

-----------------------------------------------------------------------------
(* Whom a sleeper waits for.  The connections that fillPool opened do not  *)
(* vanish: while connects succeed, each of a pool's connections is in its  *)
(* queue, with a thread, pulled by disconnect or dropped.                  *)

Anywhere(c) == c \in Free \/ c \in drained \cup leaked \/ \E t \in Threads : held[t] = c

Filling(k) == \E t \in Threads : pc[t] = "fill" /\ key[t] = k

\* A pool is full as a whole, and disconnect sleeps only for what it lacks.
FullInv ==
    /\ \A k \in Keys : pool[k] \in {"live", "orphan"} =>
         Filling(k) \/ \A i \in 1..PoolSize : Anywhere(<<k, i>>)
    /\ pc[Owner] \in {"drainWait", "drainWoken"} => ~AllPulled

\* The steps of the container but the failure of a connect.
Connected ==
    \/ OwnerStep \/ CallerCrash
    \/ \E t \in Threads :
         \/ Retest(t) \/ SpuriousWake(t) \/ Release(t) \/ Notify(t) \/ Drop(t)
         \/ \E s \in Slots : GetConnection(t, s)
         \/ \E h \in Hosts : InsertKnownHost(t, h) \/ InsertNewHost(t, h)
         \/ FillConnect(t) \/ FillDone(t) \/ Crash(t)

LEMMA StaysConnected ==
    ASSUME [CommandNext]_commandVars, ~ConnectMayFail
    PROVE  Connected \/ UNCHANGED poolVars
<1> USE ThreadsAssumption
<1>1. CASE UNCHANGED commandVars
  BY <1>1 DEF commandVars
<1>2. CASE Construct \/ Stop \/ Disconnect
  BY <1>2 DEF Construct, InitReady, InitInsert, Stop, Disconnect, Connected, OwnerStep
<1>3. ASSUME NEW t \in Threads, CommandStep(t)
      PROVE  Connected \/ UNCHANGED poolVars
  <2>1. CASE Query(t) \/ ResendMoved(t)
    BY <2>1 DEF Query, ResendMoved
  <2>2. CASE GiveBackBase(t) \/ GiveBackHost(t)
    BY <2>2 DEF GiveBackBase, GiveBackHost, Connected
  <2>3. CASE Check(t)
    BY <2>3 DEF Check, Connected
  <2>4. CASE \E h \in Hosts : Redirect(t, h)
    BY <2>4 DEF Redirect, Connected
  <2>5. CASE HostBroken(t) \/ Asking(t) \/ Resend(t)
    BY <2>5 DEF HostBroken, Asking, Resend, Connected
  <2>6. CASE InContainer(t) \/ Connect(t) \/ ConnectFails(t)
    BY <2>6 DEF InContainer, Connect, ConnectFails, Connected
  <2>. QED BY <1>3, <2>1, <2>2, <2>3, <2>4, <2>5, <2>6 DEF CommandStep
<1>4. ASSUME NEW t \in Threads,
             \/ \E s \in Slots : Begin(t, s)
             \/ BeginNotReady(t) \/ WakeSpuriously(t) \/ ContainerCrash(t)
      PROVE  Connected \/ UNCHANGED poolVars
  BY <1>4 DEF Begin, BeginNotReady, WakeSpuriously, ContainerCrash, Connected
<1>. QED BY <1>1, <1>2, <1>3, <1>4 DEF CommandNext

\* What a pull takes is with the thread.
LEMMA PulledIsSomewhere ==
    ASSUME IInv, NEW t \in Threads, NEW k \in Keys, held[t] = NoConnection,
           Pull(t, k), UNCHANGED <<drained, leaked>>,
           NEW c \in Connection, Anywhere(c)
    PROVE  Anywhere(c)'
<1>0. held \in [Threads -> Connection \cup {NoConnection}] /\ c # NoConnection
  BY NoConnectionAssumption DEF IInv, TypeOK
<1>1. CASE queue[k] # <<>>
  <2>1. queue' = [queue EXCEPT ![k] = Tail(@)] /\ held' = [held EXCEPT ![t] = Head(queue[k])]
    BY <1>1 DEF Pull
  <2>2. Free' = Free \ {Head(queue[k])}
    BY <1>1, <2>1, PoppedIsTaken
  <2>3. held'[t] = Head(queue[k]) /\ \A u \in Threads : held[u] = c => held'[u] = c
    BY <1>0, <2>1
  <2>. QED BY <2>2, <2>3 DEF Anywhere
<1>2. CASE queue[k] = <<>>
  BY <1>2, QueueKept DEF Pull, Anywhere
<1>. QED BY <1>1, <1>2

\* What is released is in the queue.
LEMMA ReleasedIsSomewhere ==
    ASSUME IInv, NEW t \in Threads, Release(t), NEW c \in Connection, Anywhere(c)
    PROVE  Anywhere(c)'
<1>1. /\ key[t] \in Keys /\ held[t] # NoConnection /\ held[t] \in Connection
      /\ held \in [Threads -> Connection \cup {NoConnection}]
  BY DEF IInv, PlaceInv, TypeOK, Release
<1>2. Free' = Free \cup {held[t]}
  BY <1>1, PushedIsFree DEF Release, IInv
<1>3. \A u \in Threads : u = t \/ held'[u] = held[u]
  BY <1>1 DEF Release
<1>. QED BY <1>2, <1>3 DEF Anywhere, Release

\* What is dropped is leaked.
LEMMA DroppedIsSomewhere ==
    ASSUME IInv, NEW t \in Threads, Drop(t), NEW c \in Connection, Anywhere(c)
    PROVE  Anywhere(c)'
<1>1. held \in [Threads -> Connection \cup {NoConnection}] /\ Free' = Free
  BY QueueKept DEF IInv, TypeOK, Drop
<1>2. \A u \in Threads : u = t \/ held'[u] = held[u]
  BY <1>1 DEF Drop
<1>. QED BY <1>1, <1>2 DEF Anywhere, Drop

\* What is opened is free, and nothing else moves.
LEMMA OpenedIsSomewhere ==
    ASSUME IInv, NEW t \in Threads, FillConnect(t), NEW c \in Connection, Anywhere(c)
    PROVE  Anywhere(c)'
<1> DEFINE k == key[t]
           d == <<k, Len(queue[k]) + 1>>
<1>1. k \in Keys /\ queue[k] \in Seq(Connection) /\ Len(queue[k]) \in Nat /\ Len(queue[k]) < PoolSize
  BY DEF IInv, PlaceInv, TypeOK, FillConnect, Draining
<1>2. d \in Connection
  BY <1>1, PoolSizeAssumption DEF Connection
<1>3. queue' = [queue EXCEPT ![k] = Append(@, d)] /\ UNCHANGED <<held, drained, leaked>>
  BY <1>1 DEF FillConnect, IInv, TypeOK
<1>4. Free' = Free \cup {d}
  BY <1>1, <1>2, <1>3, PushedIsFree DEF IInv
<1>. QED BY <1>3, <1>4 DEF Anywhere

\* What disconnect pulls is drained.
LEMMA DrainedIsSomewhere ==
    ASSUME IInv, DrainPull, NEW c \in Connection, Anywhere(c)
    PROVE  Anywhere(c)'
<1> DEFINE k == key[Owner]
<1>1. k \in Keys
  BY ThreadsAssumption DEF IInv, PlaceInv, DrainPull
<1>2. CASE queue[k] # <<>>
  <2>1. /\ queue' = [queue EXCEPT ![k] = Tail(@)] /\ UNCHANGED <<held, leaked>>
        /\ drained' = drained \cup {Head(queue[k])}
    BY <1>2 DEF DrainPull
  <2>2. Free' = Free \ {Head(queue[k])}
    BY <1>1, <1>2, <2>1, PoppedIsTaken
  <2>. QED BY <2>1, <2>2 DEF Anywhere
<1>3. CASE queue[k] = <<>>
  BY <1>3, QueueKept DEF DrainPull, Anywhere
<1>. QED BY <1>2, <1>3

\* A pool that is filled stays full if its connections are somewhere.
LEMMA FullKept ==
    ASSUME FullInv,
           \A k \in Keys : pool'[k] \in {"live", "orphan"} =>
               pool[k] \in {"live", "orphan"} \/ Filling(k)',
           \A k \in Keys : Filling(k) =>
               Filling(k)' \/ \A i \in 1..PoolSize : Anywhere(<<k, i>>)',
           \A k \in Keys : pool'[k] \in {"live", "orphan"} =>
               \A i \in 1..PoolSize : Anywhere(<<k, i>>) => Anywhere(<<k, i>>)',
           pc'[Owner] \in {"drainWait", "drainWoken"} => ~AllPulled'
    PROVE  FullInv'
<1>. SUFFICES ASSUME NEW k \in Keys, pool'[k] \in {"live", "orphan"}
              PROVE  Filling(k)' \/ \A i \in 1..PoolSize : Anywhere(<<k, i>>)'
  BY DEF FullInv
<1>1. CASE Filling(k) \/ Filling(k)'
  BY <1>1
<1>2. CASE \A i \in 1..PoolSize : Anywhere(<<k, i>>)
  BY <1>2
<1>. QED BY <1>1, <1>2 DEF FullInv

\* A step that moves no connection and adds no pool.
LEMMA FullUntouched ==
    ASSUME FullInv, UNCHANGED <<pool, queue, held, drained, leaked>>,
           \A k \in Keys : Filling(k) => Filling(k)',
           pc'[Owner] \in {"drainWait", "drainWoken"} => ~AllPulled'
    PROVE  FullInv'
<1>1. \A c : Anywhere(c) => Anywhere(c)'
  BY QueueKept DEF Anywhere
<1>. QED BY <1>1, FullKept

\* The threads.
LEMMA ThreadsKeepFull ==
    ASSUME IInv, FullInv, NEW t \in Threads,
           \/ Retest(t) \/ SpuriousWake(t) \/ Release(t) \/ Notify(t) \/ Drop(t)
           \/ \E s \in Slots : GetConnection(t, s)
           \/ \E h \in Hosts : InsertKnownHost(t, h) \/ InsertNewHost(t, h)
           \/ FillConnect(t) \/ FillDone(t) \/ Crash(t)
    PROVE  FullInv'
<1>0. /\ pc \in [Threads -> ThreadState] /\ key \in [Threads -> Keys \cup {NoKey}]
      /\ pool \in [Keys -> PoolState] /\ Owner \in Threads
      /\ held \in [Threads -> Connection \cup {NoConnection}]
      /\ queue \in [Keys -> Seq(Connection)]
      /\ (pc[t] = "use" <=> held[t] # NoConnection)
      /\ (pc[t] \notin {"out", "between"} => key[t] \in Keys)
  BY ThreadsAssumption DEF IInv, TypeOK, PlaceInv
<1>1. \A k \in Keys, i \in 1..PoolSize : <<k, i>> \in Connection
  BY DEF Connection
<1>2. pc[Owner] \in {"drainWait", "drainWoken"} => ~AllPulled
  BY DEF FullInv
<1>3. ASSUME UNCHANGED drained,
             \A u \in Threads \ {t} :
               /\ key'[u] = key[u]
               /\ pc'[u] = pc[u] \/ pc[u] \in {"wait", "drainWait"},
             pc[t] # "fill" \/ (pc'[t] = "fill" /\ key'[t] = key[t]),
             pc'[t] \notin {"drainWait", "drainWoken"} \/ pc[t] \in {"drainWait", "drainWoken"},
             \A u \in Threads \ {t} :
               pc'[u] \in {"drainWait", "drainWoken"} => pc[u] \in {"drainWait", "drainWoken"}
      PROVE  /\ \A k \in Keys : Filling(k) => Filling(k)'
             /\ pc'[Owner] \in {"drainWait", "drainWoken"} => ~AllPulled'
  <2>1. ASSUME NEW k \in Keys, NEW u \in Threads, pc[u] = "fill", key[u] = k
        PROVE  pc'[u] = "fill" /\ key'[u] = k
    BY <1>3, <2>1
  <2>2. AllPulled' = AllPulled
    BY <1>3 DEF AllPulled
  <2>. QED BY <1>0, <1>2, <1>3, <2>1, <2>2 DEF Filling
<1>4. CASE SpuriousWake(t) \/ Notify(t) \/ Crash(t)
  <2>1. UNCHANGED <<pool, queue, held, drained, leaked>>
    BY <1>4 DEF SpuriousWake, Notify, Crash
  <2>2. /\ \A k \in Keys : Filling(k) => Filling(k)'
        /\ pc'[Owner] \in {"drainWait", "drainWoken"} => ~AllPulled'
    <3>1. CASE SpuriousWake(t)
      BY <1>0, <1>3, <3>1 DEF SpuriousWake
    <3>2. CASE Notify(t)
      <4>1. \A u \in Threads \ {t} :
              /\ key'[u] = key[u]
              /\ \/ pc'[u] = pc[u]
                 \/ pc[u] = "wait" /\ pc'[u] = "woken"
                 \/ pc[u] = "drainWait" /\ pc'[u] = "drainWoken"
        BY <1>0, <3>2 DEF Notify, Waiting
      <4>2. pc[t] = "notify" /\ pc'[t] = "out"
        BY <1>0, <3>2 DEF Notify, Waiting
      <4>. QED BY <1>3, <2>1, <4>1, <4>2
    <3>3. CASE Crash(t)
      BY <1>3, <3>3 DEF Crash
    <3>. QED BY <1>4, <3>1, <3>2, <3>3
  <2>. QED BY <2>1, <2>2, FullUntouched
<1>5. CASE Release(t) \/ Drop(t) \/ FillConnect(t)
  <2>1. \A c \in Connection : Anywhere(c) => Anywhere(c)'
    BY <1>5, ReleasedIsSomewhere, DroppedIsSomewhere, OpenedIsSomewhere
  <2>2. UNCHANGED <<pool, drained>>
    BY <1>5 DEF Release, Drop, FillConnect
  <2>3. /\ \A k \in Keys : Filling(k) => Filling(k)'
        /\ pc'[Owner] \in {"drainWait", "drainWoken"} => ~AllPulled'
    BY <1>0, <1>3, <1>5 DEF Release, Drop, FillConnect
  <2>. QED BY <1>1, <2>1, <2>2, <2>3, FullKept
<1>6. ASSUME NEW k \in Keys, Pull(t, k), pc[t] \in {"out", "woken"},
             UNCHANGED <<pool, drained, leaked>>
      PROVE  FullInv'
  <2>1. \A c \in Connection : Anywhere(c) => Anywhere(c)'
    BY <1>0, <1>6, PulledIsSomewhere
  <2>2. /\ \A j \in Keys : Filling(j) => Filling(j)'
        /\ pc'[Owner] \in {"drainWait", "drainWoken"} => ~AllPulled'
    BY <1>0, <1>3, <1>6 DEF Pull
  <2>. QED BY <1>1, <1>6, <2>1, <2>2, FullKept
<1>7. CASE Retest(t)
  BY <1>0, <1>6, <1>7 DEF Retest
<1>8. CASE (\E s \in Slots : GetConnection(t, s)) \/ \E h \in Hosts : InsertKnownHost(t, h)
  BY <1>6, <1>8 DEF GetConnection, InsertKnownHost, Keys
<1>9. ASSUME NEW h \in Hosts, InsertNewHost(t, h) PROVE FullInv'
  <2>1. UNCHANGED <<queue, held, drained, leaked>> /\ pool' = [pool EXCEPT ![h] = "live"]
    BY <1>9 DEF InsertNewHost
  <2>2. \A c : Anywhere(c) => Anywhere(c)'
    BY <2>1, QueueKept DEF Anywhere
  <2>3. Filling(h)'
    BY <1>0, <1>9 DEF InsertNewHost, Filling, Keys
  <2>4. /\ \A k \in Keys : Filling(k) => Filling(k)'
        /\ pc'[Owner] \in {"drainWait", "drainWoken"} => ~AllPulled'
    BY <1>0, <1>3, <1>9 DEF InsertNewHost
  <2>5. \A k \in Keys : pool'[k] = pool[k] \/ k = h
    BY <1>0, <2>1
  <2>. QED BY <2>2, <2>3, <2>4, <2>5, FullKept
<1>10. CASE FillDone(t)
  <2> DEFINE j == key[t]
  <2>1. /\ pc[t] = "fill" /\ j \in Keys /\ Len(queue[j]) = PoolSize
        /\ held[t] = NoConnection /\ UNCHANGED <<pool, drained, leaked>>
    BY <1>0, <1>10 DEF FillDone
  <2>2. ASSUME NEW i \in 1..PoolSize PROVE Anywhere(<<j, i>>)
    <3>1. queue[j][i] = <<j, i>>
      BY <2>1 DEF IInv, FillInv
    <3>2. <<j, i>> \in Free
      BY <2>1, <3>1 DEF Free
    <3>. QED BY <3>2 DEF Anywhere
  <2>3. \A c \in Connection : Anywhere(c) => Anywhere(c)'
    <3>1. CASE Pull(t, j)
      BY <2>1, <3>1, PulledIsSomewhere
    <3>2. CASE UNCHANGED <<queue, held>>
      BY <2>1, <3>2, QueueKept DEF Anywhere
    <3>. QED BY <1>10, <3>1, <3>2 DEF FillDone
  <2>4. /\ pc'[t] \in {"out", "use", "wait"}
        /\ \A u \in Threads \ {t} : pc'[u] = pc[u] /\ key'[u] = key[u]
    BY <1>0, <1>10, <2>1 DEF FillDone, Pull
  <2>5. \A k \in Keys : Filling(k) => Filling(k)' \/ \A i \in 1..PoolSize : Anywhere(<<k, i>>)'
    <3>. SUFFICES ASSUME NEW k \in Keys, NEW u \in Threads, pc[u] = "fill", key[u] = k
                  PROVE  Filling(k)' \/ \A i \in 1..PoolSize : Anywhere(<<k, i>>)'
      BY DEF Filling
    <3>1. CASE u = t
      BY <1>1, <2>2, <2>3, <3>1
    <3>2. CASE u # t
      BY <2>4, <3>2 DEF Filling
    <3>. QED BY <3>1, <3>2
  <2>6. pc'[Owner] \in {"drainWait", "drainWoken"} => ~AllPulled'
    BY <1>0, <1>2, <2>1, <2>4 DEF AllPulled
  <2>. QED BY <1>1, <2>1, <2>3, <2>5, <2>6, FullKept
<1>. QED BY <1>4, <1>5, <1>7, <1>8, <1>9, <1>10

\* The owner: what disconnect has pulled it forgets with the pool.
LEMMA OwnerKeepsFull ==
    ASSUME IInv, FullInv, OwnerStep
    PROVE  FullInv'
<1>0. /\ pc \in [Threads -> ThreadState] /\ key \in [Threads -> Keys \cup {NoKey}]
      /\ pool \in [Keys -> PoolState] /\ Owner \in Threads /\ Slots \subseteq Keys
      /\ (pc[Owner] \notin {"out", "between"} => key[Owner] \in Keys)
  BY ThreadsAssumption DEF IInv, TypeOK, PlaceInv, Keys
<1>1. \A k \in Keys, i \in 1..PoolSize : <<k, i>> \in Connection
  BY DEF Connection
<1>2. pc[Owner] \in {"drainWait", "drainWoken"} => ~AllPulled
  BY DEF FullInv
<1>3. ASSUME pc[Owner] # "fill",
             \A u \in Threads \ {Owner} : pc[u] = "fill" => pc'[u] = "fill" /\ key'[u] = key[u]
      PROVE  \A k \in Keys : Filling(k) => Filling(k)'
  BY <1>3 DEF Filling
<1>4. ASSUME NEW s \in Slots, InsertSlots(s) PROVE FullInv'
  <2>1. UNCHANGED <<queue, held, drained, leaked>> /\ pool' = [pool EXCEPT ![s] = "live"]
    BY <1>4 DEF InsertSlots
  <2>2. \A c : Anywhere(c) => Anywhere(c)'
    BY <2>1, QueueKept DEF Anywhere
  <2>3. Filling(s)' /\ pc'[Owner] = "fill"
    BY <1>0, <1>4 DEF InsertSlots, Filling
  <2>4. \A k \in Keys : Filling(k) => Filling(k)'
    BY <1>0, <1>3, <1>4 DEF InsertSlots
  <2>5. \A k \in Keys : pool'[k] = pool[k] \/ k = s
    BY <1>0, <2>1
  <2>. QED BY <2>2, <2>3, <2>4, <2>5, FullKept
<1>5. CASE DisconnectNodes \/ DisconnectHosts
  <2>1. drained = {}
    BY <1>5 DEF IInv, DrainInv, Draining, DisconnectNodes, DisconnectHosts
  <2>2. UNCHANGED <<pool, queue, held, drained, leaked>>
    BY <1>5, <2>1 DEF DisconnectNodes, DisconnectHosts, DrainFrom
  <2>3. pc'[Owner] \in {"drain", "between", "out"}
    BY <1>0, <1>5 DEF DisconnectNodes, DisconnectHosts, DrainFrom
  <2>4. \A k \in Keys : Filling(k) => Filling(k)'
    BY <1>0, <1>3, <1>5 DEF DisconnectNodes, DisconnectHosts, DrainFrom
  <2>. QED BY <2>2, <2>3, <2>4, FullUntouched
<1>6. CASE DrainRetest
  <2>1. UNCHANGED <<pool, queue, held, drained, leaked>> /\ pc'[Owner] = "drain"
    BY <1>0, <1>6 DEF DrainRetest
  <2>2. \A k \in Keys : Filling(k) => Filling(k)'
    BY <1>0, <1>3, <1>6 DEF DrainRetest
  <2>. QED BY <2>1, <2>2, FullUntouched
<1>7. CASE DrainPull
  <2>1. \A c \in Connection : Anywhere(c) => Anywhere(c)'
    BY <1>7, DrainedIsSomewhere
  <2>2. \A k \in Keys : Filling(k) => Filling(k)'
    BY <1>0, <1>3, <1>7 DEF DrainPull
  <2>3. pc'[Owner] \in {"drainWait", "drainWoken"} => ~AllPulled'
    BY <1>0, <1>7 DEF DrainPull, AllPulled
  <2>4. pool' = pool
    BY <1>7 DEF DrainPull
  <2>. QED BY <1>1, <2>1, <2>2, <2>3, <2>4, FullKept
<1>8. CASE DrainNext
  <2> DEFINE d == key[Owner]
  <2>1. /\ pc[Owner] = "drain" /\ d \in Keys /\ drained' = {}
        /\ UNCHANGED <<queue, held, leaked>>
    BY <1>0, <1>8 DEF DrainNext
  <2>2. /\ pool'[d] \notin {"live", "orphan"}
        /\ \A k \in Keys : pool'[k] \in {"live", "orphan"} => pool[k] \in {"live", "orphan"}
    <3>1. d \in MapOf(d)
      BY <2>1 DEF MapOf, Keys
    <3>. QED BY <1>0, <1>8, <2>1, <3>1 DEF DrainNext
  <2>3. /\ pc'[Owner] \in {"drain", "between", "out"}
        /\ \A u \in Threads \ {Owner} : pc[u] = "fill" => pc'[u] = "fill" /\ key'[u] = key[u]
    BY <1>0, <1>8 DEF DrainNext, Inside, Waiting, Awake, Notifying
  <2>4. \A k \in Keys : Filling(k) => Filling(k)'
    BY <1>3, <2>1, <2>3
  <2>5. ASSUME NEW k \in Keys, k # d, NEW i \in 1..PoolSize, Anywhere(<<k, i>>)
        PROVE  Anywhere(<<k, i>>)'
    <3>1. <<k, i>> \notin drained
      BY <2>5 DEF IInv, DrainInv
    <3>. QED BY <2>1, <2>5, <3>1, QueueKept DEF Anywhere
  <2>. QED BY <2>2, <2>3, <2>4, <2>5, FullKept
<1>. QED BY <1>4, <1>5, <1>6, <1>7, <1>8 DEF OwnerStep

LEMMA FullStep ==
    ASSUME IInv, FullInv, Connected \/ UNCHANGED poolVars
    PROVE  FullInv'
<1>1. CASE CallerCrash \/ UNCHANGED poolVars
  <2>1. UNCHANGED <<pool, queue, held, drained, leaked, pc, key>>
    BY <1>1 DEF CallerCrash, poolVars
  <2>. QED BY <2>1, FullUntouched DEF FullInv, Filling, AllPulled
<1>. QED BY <1>1, OwnerKeepsFull, ThreadsKeepFull DEF Connected

\* The programs that send commands may also die in code of their own.
LEMMA FullInvStep ==
    ASSUME CommandInv, WaitInv, FullInv, ~ConnectMayFail,
           [CommandNext]_commandVars \/ CallerCrash
    PROVE  WaitInv' /\ FullInv'
<1>1. CASE CallerCrash
  <2>1. WaitInv'
    BY <1>1 DEF CallerCrash, WaitInv
  <2>. QED BY <1>1, <2>1, FullStep DEF CommandInv, Connected
<1>2. CASE [CommandNext]_commandVars
  <2>1. WaitInv'
    BY <1>2, StepUsesPool, WaitInvStep DEF CommandInv
  <2>. QED BY <1>2, <2>1, StaysConnected, FullStep DEF CommandInv
<1>. QED BY <1>1, <1>2

LEMMA InitFullInv == CommandInit => WaitInv /\ FullInv
BY ThreadsAssumption DEF CommandInit, PoolInit, WaitInv, InsidePool, FullInv

\* Disconnect has pulled all connections of a pool that are nowhere else, so
\* it does not sleep for more.
LEMMA DrainedWholly ==
    ASSUME IInv, NEW k \in Keys, \A i \in 1..PoolSize : <<k, i>> \in drained
    PROVE  /\ AllPulled
           /\ pc[Owner] \in Draining /\ key[Owner] = k
<1> DEFINE f == [i \in 1..PoolSize |-> <<k, i>>]
<1>1. <<k, 1>> \in drained
  BY PoolSizeAssumption
<1>2. pc[Owner] \in Draining /\ key[Owner] = k /\ drained \subseteq {k} \X (1..PoolSize)
  BY <1>1 DEF IInv, TypeOK, DrainInv, Connection
<1>3. f \in Bijection(1..PoolSize, drained)
  <2>1. f \in Injection(1..PoolSize, drained)
    BY DEF Injection, IsInjective
  <2>2. \A c \in drained : \E i \in 1..PoolSize : c = <<k, i>>
    BY <1>2
  <2>3. f \in Surjection(1..PoolSize, drained)
    BY <2>2 DEF Surjection
  <2>. QED BY <2>1, <2>3 DEF Bijection
<1>4. ExistsBijection(1..PoolSize, drained)
  BY <1>3 DEF ExistsBijection
<1>5. IsFiniteSet(1..PoolSize) /\ Cardinality(1..PoolSize) = PoolSize
  BY FS_Interval, PoolSizeAssumption
<1>6. Cardinality(drained) = PoolSize
  BY <1>4, <1>5, FS_Bijection
<1>. QED BY <1>2, <1>6 DEF AllPulled

\* Where a sleeper's connections are: with a thread of the same pool, or with
\* a disconnect that is about to delete it.
LEMMA SleeperHasCompany ==
    ASSUME IInv, WaitInv, FullInv, NEW k \in Keys, Waiting(k) # {},
           \A c \in leaked : c[1] # k, queue[k] = <<>>, Holders(k) = {}
    PROVE  Awake(k) # {}
<1>0. /\ Owner \in Threads /\ pc \in [Threads -> ThreadState]
      /\ \A i \in 1..PoolSize : <<k, i>> \in Connection /\ <<k, i>> # NoConnection
  BY ThreadsAssumption, NoConnectionAssumption DEF IInv, TypeOK, Connection
<1>1. PICK t \in Threads : pc[t] \in {"wait", "drainWait"} /\ key[t] = k
  BY DEF Waiting
<1>2. pool[k] \in {"live", "orphan"}
  BY <1>1 DEF WaitInv, InsidePool, IInv, PlaceInv, Draining
<1>3. ~Filling(k)
  BY <1>1 DEF Filling, WaitInv, InsidePool, Draining
<1>4. \A i \in 1..PoolSize : <<k, i>> \in drained
  <2>. TAKE i \in 1..PoolSize
  <2>1. Anywhere(<<k, i>>)
    BY <1>2, <1>3 DEF FullInv
  <2>2. <<k, i>> \notin Free
    BY DEF IInv, ConnectionsAccounted, Free
  <2>3. \A u \in Threads : held[u] # <<k, i>>
    <3>1. ASSUME NEW u \in Threads, held[u] = <<k, i>> PROVE u \in Holders(k)
      <4>1. held[u][1] = k
        BY <3>1
      <4>. QED BY <1>0, <3>1, <4>1 DEF Holders
    <3>. QED BY <3>1
  <2>. QED BY <2>1, <2>2, <2>3 DEF Anywhere
<1>5. AllPulled /\ pc[Owner] \in Draining /\ key[Owner] = k
  BY <1>4, DrainedWholly
<1>6. pc[Owner] = "drain"
  BY <1>5 DEF FullInv, Draining
<1>. QED BY <1>0, <1>5, <1>6 DEF Awake

LEMMA SleepersAreRight ==
    ASSUME CommandInv, WaitInv, FullInv
    PROVE  SleepersWaitForSomebody
BY SleeperHasCompany DEF CommandInv, SleepersWaitForSomebody

\* "here we wait for other threads for release their connections": while
\* connects succeed, a thread sleeps on an empty pool only if a connection of
\* it was dropped, is held, or somebody is awake in the pool to take it.
THEOREM SleepersWaitRightly == CommandSpec => []SleepersWaitForSomebody
<1>1. CASE ConnectMayFail
  <2>1. CommandInv => SleepersWaitForSomebody
    BY <1>1 DEF SleepersWaitForSomebody
  <2>. QED BY <2>1, CommandInvariant, PTL
<1>2. CASE ~ConnectMayFail
  <2>1. CommandInit => CommandInv /\ WaitInv /\ FullInv
    BY InitCommandInv, InitFullInv
  <2>2. /\ CommandInv /\ WaitInv /\ FullInv
        /\ [CommandNext]_commandVars
        => CommandInv' /\ WaitInv' /\ FullInv'
    BY <1>2, FullInvStep, CommandInvStep
  <2>3. CommandInv /\ WaitInv /\ FullInv => SleepersWaitForSomebody
    BY SleepersAreRight
  <2>. QED BY <2>1, <2>2, <2>3, PTL DEF CommandSpec
<1>. QED BY <1>1, <1>2

-----------------------------------------------------------------------------
(* Types                                                                   *)

\* A command is sent again after ASKING on the connection that was used for it.
TypedInv ==
    /\ broken \in SUBSET Connection
    /\ ready \in BOOLEAN
    /\ moved \in BOOLEAN
    /\ \A t \in Threads : cmd[t] = "resend" => pc[t] = "use"

\* A step of thread t moves no other one from "use", and t itself only when it
\* is sent nothing again.
LEMMA ResendKept ==
    ASSUME CommandInv, TypedInv, NEW t \in Threads,
           \/ \E s \in Slots : Begin(t, s)
           \/ BeginNotReady(t) \/ CommandStep(t) \/ WakeSpuriously(t)
           \/ ContainerCrash(t)
    PROVE  \A u \in Threads : cmd'[u] = "resend" => pc'[u] = "use"
<1>0. /\ pc \in [Threads -> ThreadState] /\ cmd \in [Threads -> Phase]
      /\ \A u \in Threads : cmd[u] = "resend" => pc[u] = "use"
  BY DEF CommandInv, IInv, TypeOK, TypedInv
<1>1. CASE \E s \in Slots : Begin(t, s)
  BY <1>0, <1>1 DEF Begin, Goto, GetConnection, Pull
<1>2. CASE BeginNotReady(t) \/ Query(t) \/ Check(t) \/ ResendMoved(t)
  BY <1>0, <1>2 DEF BeginNotReady, Query, Check, ResendMoved, Goto, Throw, CallerCrash, poolVars
<1>3. CASE GiveBackBase(t) \/ GiveBackHost(t)
  BY <1>0, <1>3 DEF GiveBackBase, GiveBackHost, Goto, Release
<1>4. CASE \E h \in Hosts : Redirect(t, h)
  BY <1>0, <1>4 DEF Redirect, InsertKnownHost, InsertNewHost, Pull, cmdVars
<1>5. CASE HostBroken(t) \/ Asking(t) \/ Resend(t)
  BY <1>0, <1>5 DEF HostBroken, Asking, Resend, CallerCrash, Goto, Throw, Drop, poolVars
<1>6. CASE InContainer(t)
  BY <1>0, <1>6 DEF InContainer, Retest, Notify, FillDone, Pull, Waiting, cmdVars
<1>7. CASE Connect(t) \/ ConnectFails(t)
  BY <1>0, <1>7 DEF Connect, ConnectFails, FillConnect, FillFail, Throw
<1>8. CASE WakeSpuriously(t) \/ ContainerCrash(t)
  BY <1>0, <1>8 DEF WakeSpuriously, ContainerCrash, SpuriousWake, Crash, cmdVars
<1>. QED BY <1>1, <1>2, <1>3, <1>4, <1>5, <1>6, <1>7, <1>8 DEF CommandStep

LEMMA TypedStep ==
    ASSUME CommandInv, TypedInv, [CommandNext]_commandVars
    PROVE  TypedInv'
<1>0. /\ broken \in SUBSET Connection /\ ready \in BOOLEAN /\ moved \in BOOLEAN
      /\ pc \in [Threads -> ThreadState] /\ Owner \in Threads
      /\ held \in [Threads -> Connection \cup {NoConnection}]
  BY ThreadsAssumption DEF CommandInv, IInv, TypeOK, TypedInv
<1>1. CASE UNCHANGED commandVars
  BY <1>1 DEF commandVars, cmdVars, poolVars, TypedInv
<1>2. CASE Construct \/ Stop \/ Disconnect
  <2>1. UNCHANGED <<cmd, broken, moved>> /\ ready' \in BOOLEAN
    BY <1>0, <1>2 DEF Construct, InitReady, InitInsert, Stop, Disconnect, cmdVars
  <2>2. \A u \in Threads : pc[u] = "use" => pc'[u] = "use"
    <3>1. CASE InitReady \/ Stop
      BY <3>1 DEF InitReady, Stop, poolVars
    <3>2. CASE \E s \in Slots : InitInsert(s)
      BY <1>0, <3>2 DEF InitInsert, InsertSlots
    <3>3. CASE DisconnectNodes \/ DisconnectHosts \/ DrainPull \/ DrainRetest
      BY <1>0, <3>3 DEF DisconnectNodes, DisconnectHosts, DrainFrom, DrainPull, DrainRetest
    <3>4. CASE DrainNext
      BY <1>0, <3>4 DEF DrainNext, Inside, Waiting, Awake, Notifying
    <3>. QED BY <1>2, <3>1, <3>2, <3>3, <3>4 DEF Construct, Disconnect
  <2>. QED BY <2>1, <2>2 DEF TypedInv
<1>3. ASSUME NEW t \in Threads,
             \/ \E s \in Slots : Begin(t, s)
             \/ BeginNotReady(t) \/ CommandStep(t) \/ WakeSpuriously(t)
             \/ ContainerCrash(t)
      PROVE  TypedInv'
  <2>1. \A r : pc[t] = "use" /\ MarkBroken(held[t], r) => broken' \in SUBSET Connection
    BY <1>0 DEF MarkBroken, CommandInv, IInv, PlaceInv
  <2>2. ready' \in BOOLEAN /\ moved' \in BOOLEAN
    BY <1>0, <1>3
       DEF Begin, BeginNotReady, WakeSpuriously, ContainerCrash, CommandStep, Query,
           GiveBackBase, Check, Redirect, HostBroken, Asking, Resend, ResendMoved,
           GiveBackHost, InContainer, Connect, ConnectFails, cmdVars
  <2>3. broken' \in SUBSET Connection
    <3>1. CASE Query(t) \/ Asking(t) \/ ResendMoved(t)
      BY <2>1, <3>1 DEF Query, Asking, ResendMoved
    <3>2. CASE Resend(t)
      BY <2>1, <3>2 DEF Resend, TypedInv
    <3>3. CASE Connect(t)
      BY <1>0, <3>3 DEF Connect
    <3>. QED BY <1>0, <1>3, <3>1, <3>2, <3>3
             DEF Begin, BeginNotReady, WakeSpuriously, ContainerCrash, CommandStep,
                 GiveBackBase, Check, Redirect, HostBroken, GiveBackHost, InContainer,
                 ConnectFails, cmdVars
  <2>. QED BY <1>3, <2>2, <2>3, ResendKept DEF TypedInv
<1>. QED BY <1>1, <1>2, <1>3 DEF CommandNext

LEMMA InitTyped == CommandInit => TypedInv
BY DEF CommandInit, TypedInv

\* HiredisCommand and Cluster keep their types: in particular every connection
\* that is marked as broken is one of a pool, also after a redirection.
THEOREM CommandTypeCorrect == CommandSpec => []CommandTypeOK
<1>1. CommandInit => TypedInv
  BY InitTyped
<1>2. CommandInv /\ TypedInv /\ [CommandNext]_commandVars => TypedInv'
  BY TypedStep
<1>3. CommandInv /\ TypedInv => CommandTypeOK
  BY DEF CommandInv, IInv, TypedInv, CommandTypeOK
<1>. QED BY <1>1, <1>2, <1>3, CommandInvariant, PTL DEF CommandSpec
=============================================================================
