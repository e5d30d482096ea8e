-------------------------- MODULE RedisServiceProofs --------------------------
(***************************************************************************)
(* For any number of workers, ranges, hosts and connections, and whatever  *)
(* fails: behind lockRedis one worker at a time is in the container, and   *)
(* the pool of a slot always has a connection for it.                      *)
(*                                                                         *)
(* A worker that takes a connection of a slot owns lockRedis, so nobody    *)
(* else holds one; since a slot's pool misses a connection only while it   *)
(* is held (SlotQueueInv), its queue is not empty then, even for a pool of *)
(* one connection.                                                         *)
(***************************************************************************)
EXTENDS RedisService, ClusterCommandProofs

\* lockRedis has the owner that is in an operation, and commands are sent
\* only in operations, which come when the cluster is ready.
LockRedisInv ==
    \A t \in Workers :
      /\ worker[t] = "operation" => lockRedis = t
      /\ pc[t] # "out" \/ cmd[t] # "idle" => worker[t] = "operation"
      /\ ~ready => worker[t] = "idle"

\* The owner of the cluster constructs it and does nothing else.
OwnerInv ==
    /\ cmd[Owner] = "idle" /\ pc[Owner] \in {"out", "fill"}
    /\ pc[Owner] = "fill" => key[Owner] \in Slots
    /\ ready => pc[Owner] = "out"

\* Workers fill and wait for the pools of hosts only.
SlotPlaceInv ==
    \A t \in Workers : pc[t] \in {"fill", "wait", "woken"} => key[t] \in Hosts

\* A connection is missing from a slot's pool only while somebody holds it.
SlotQueueInv ==
    ready => \A s \in Slots :
               Len(queue[s]) = IF Holders(s) = {} THEN PoolSize ELSE PoolSize - 1

ServiceInv ==
    /\ CommandInv
    /\ worker \in [Workers -> WorkerState]
    /\ LockRedisInv
    /\ OwnerInv
    /\ SlotPlaceInv
    /\ SlotQueueInv

-----------------------------------------------------------------------------
(* An operation is a sequence of commands                                  *)

\* The steps of a thread that sends commands.
SenderStep(t) ==
    \/ \E s \in Slots : Begin(t, s)
    \/ CommandStep(t) \/ WakeSpuriously(t)

\* Every step of the service is one of the cluster, does not touch it, or is
\* the death of the process.
LEMMA ServiceKeepsCommandInv ==
    ASSUME CommandInv, [ServiceNext]_redisServiceVars
    PROVE  CommandInv'
<1> USE ThreadsAssumption DEF Workers
<1>1. CASE UNCHANGED redisServiceVars
  BY <1>1, CommandInvStep DEF redisServiceVars
<1>2. ASSUME ~crashed, CreateCluster PROVE CommandInv'
  BY <1>2, CommandInvStep DEF CreateCluster, CommandNext, CommandStep
<1>3. ASSUME ~crashed, NEW t \in Workers, Request(t) \/ LockRedis(t) \/ Unlock(t)
      PROVE  CommandInv'
  BY <1>3, CommandInvStep DEF Request, LockRedis, Unlock
<1>4. ASSUME ~crashed, NEW t \in Workers,
             SendCommand(t) \/ OperationCommand(t) \/ WakeSpuriously(t)
      PROVE  CommandInv'
  <2>1. CommandNext
    BY <1>4 DEF SendCommand, OperationCommand, CommandNext
  <2>. QED BY <2>1, CommandInvStep
<1>5. ASSUME NEW t \in Workers, BadReply(t) PROVE CommandInv'
  <2>1. IInv'
    BY <1>5, StutterStep DEF BadReply, CallerCrash, CommandInv
  <2>2. UNCHANGED <<cmd, reply, ready, pc, key, leaked>>
    BY <1>5 DEF BadReply, CallerCrash, cmdVars
  <2>. QED BY <2>1, <2>2 DEF CommandInv, HostPhaseInv, BaseConnectionsReturn
<1>. QED BY <1>1, <1>2, <1>3, <1>4, <1>5 DEF ServiceNext, WorkerStep

-----------------------------------------------------------------------------
(* What one worker's step does to the pools of the slots                   *)

\* No thread but t is in a command or in the container.
Alone(t) ==
    \A u \in Threads \ {t} :
      pc[u] = "out" /\ cmd[u] = "idle" /\ held[u] = NoConnection

\* The pools of the slots have what they had, and so have their users.
SlotsUntouched ==
    \A s \in Slots : queue'[s] = queue[s] /\ Holders(s)' = Holders(s)

\* A worker alone in a command is the only one when the cluster is ready.
LEMMA OperationIsAlone ==
    ASSUME ServiceInv, NEW t \in Workers, worker[t] = "operation"
    PROVE  ready /\ Alone(t)
<1>1. ready /\ lockRedis = t
  BY DEF ServiceInv, LockRedisInv
<1>2. ASSUME NEW u \in Threads \ {t} PROVE pc[u] = "out" /\ cmd[u] = "idle"
  <2>1. CASE u = Owner
    BY <1>1, <2>1 DEF ServiceInv, OwnerInv
  <2>2. CASE u # Owner
    BY <1>1, <2>2 DEF ServiceInv, LockRedisInv, Workers
  <2>. QED BY <2>1, <2>2
<1>3. \A u \in Threads \ {t} : held[u] = NoConnection
  BY <1>2 DEF ServiceInv, CommandInv, IInv, PlaceInv
<1>. QED BY <1>1, <1>2, <1>3 DEF Alone

\* Others are not moved by the step of a worker that is alone.
LEMMA StaysAlone ==
    ASSUME CommandInv, NEW t \in Threads, Alone(t), SenderStep(t)
    PROVE  Alone(t)' /\ ready' = ready
<1> USE DEF Alone
<1>0. /\ pc \in [Threads -> ThreadState] /\ cmd \in [Threads -> Phase]
      /\ held \in [Threads -> Connection \cup {NoConnection}]
  BY DEF CommandInv, IInv, TypeOK
<1>1. CASE \E s \in Slots : Begin(t, s)
  BY <1>0, <1>1 DEF Begin, Goto, GetConnection, Pull
<1>2. CASE Query(t) \/ Check(t) \/ ResendMoved(t) \/ WakeSpuriously(t)
  BY <1>0, <1>2 DEF Query, Check, ResendMoved, WakeSpuriously, SpuriousWake, Goto,
                    Throw, CallerCrash, poolVars, cmdVars
<1>3. CASE GiveBackBase(t) \/ GiveBackHost(t)
  BY <1>0, <1>3 DEF GiveBackBase, GiveBackHost, Goto, Release
<1>4. CASE \E h \in Hosts : Redirect(t, h)
  BY <1>0, <1>4 DEF Redirect, InsertKnownHost, InsertNewHost, Pull, cmdVars
<1>5. CASE HostBroken(t) \/ Asking(t) \/ Resend(t)
  BY <1>0, <1>5 DEF HostBroken, Asking, Resend, CallerCrash, Goto, Throw, Drop, poolVars
<1>6. CASE InContainer(t)
  <2>1. CASE Retest(t)
    BY <1>0, <1>6, <2>1 DEF InContainer, Retest, Pull, cmdVars
  <2>2. CASE Notify(t)
    BY <1>0, <1>6, <2>2 DEF InContainer, Notify, Waiting, cmdVars
  <2>3. CASE FillDone(t)
    BY <1>0, <1>6, <2>3 DEF InContainer, FillDone, Pull, cmdVars
  <2>. QED BY <1>6, <2>1, <2>2, <2>3 DEF InContainer
<1>7. CASE Connect(t) \/ ConnectFails(t)
  BY <1>0, <1>7 DEF Connect, ConnectFails, FillConnect, FillFail, Throw
<1>. QED BY <1>1, <1>2, <1>3, <1>4, <1>5, <1>6, <1>7 DEF SenderStep, CommandStep

\* Taking a connection of a host does not touch the slots.
LEMMA PullHost ==
    ASSUME IInv, NEW t \in Threads, held[t] = NoConnection,
           NEW h \in Hosts, Pull(t, h)
    PROVE  /\ SlotsUntouched
           /\ key'[t] \in Hosts
<1>0. /\ key \in [Threads -> Keys \cup {NoKey}]
      /\ held \in [Threads -> Connection \cup {NoConnection}]
      /\ queue \in [Keys -> Seq(Connection)] /\ h \in Keys /\ h \notin Slots
  BY KeysAssumption DEF IInv, TypeOK, Keys
<1>1. key'[t] = h
  BY <1>0 DEF Pull
<1>2. CASE queue[h] # <<>>
  <2>1. Head(queue[h]) = queue[h][1] /\ 1 \in 1..Len(queue[h])
    BY <1>0, <1>2, TailFacts
  <2>2. Head(queue[h])[1] = h
    BY <1>0, <2>1 DEF IInv, ConnectionsAccounted
  <2>3. /\ queue' = [queue EXCEPT ![h] = Tail(@)]
        /\ held' = [held EXCEPT ![t] = Head(queue[h])]
    BY <1>2 DEF Pull
  <2>4. \A s \in Slots : queue'[s] = queue[s]
    BY <1>0, <2>3
  <2>5. \A s \in Slots, u \in Threads :
          (held'[u] # NoConnection /\ held'[u][1] = s) <=> (held[u] # NoConnection /\ held[u][1] = s)
    BY <1>0, <2>2, <2>3
  <2>. QED BY <1>1, <2>4, <2>5 DEF SlotsUntouched, Holders
<1>3. CASE queue[h] = <<>>
  BY <1>1, <1>3 DEF Pull, SlotsUntouched, Holders
<1>. QED BY <1>2, <1>3

\* A worker that is alone finds a connection in the pool of its slot.
LEMMA BeginTakes ==
    ASSUME ServiceInv, NEW t \in Threads, Alone(t), NEW s \in Slots, Begin(t, s)
    PROVE  pc'[t] = "use" /\ SlotQueueInv'
<1>0. /\ pc \in [Threads -> ThreadState]
      /\ held \in [Threads -> Connection \cup {NoConnection}]
      /\ queue \in [Keys -> Seq(Connection)] /\ s \in Keys /\ Slots \subseteq Keys
  BY DEF ServiceInv, CommandInv, IInv, TypeOK, Keys
<1>1. pc[t] = "out" /\ ready /\ Pull(t, s)
  BY DEF Begin, GetConnection
<1>2. \A u \in Threads : held[u] = NoConnection
  BY <1>1 DEF Alone, ServiceInv, CommandInv, IInv, PlaceInv
<1>3. \A r \in Slots : Len(queue[r]) = PoolSize
  BY <1>1, <1>2 DEF ServiceInv, SlotQueueInv, Holders
<1>4. queue[s] # <<>>
  BY <1>3, PoolSizeAssumption
<1>5. /\ queue' = [queue EXCEPT ![s] = Tail(@)]
      /\ held' = [held EXCEPT ![t] = Head(queue[s])]
      /\ pc' = [pc EXCEPT ![t] = "use"]
  BY <1>1, <1>4 DEF Pull
<1>6. /\ Head(queue[s]) = queue[s][1] /\ 1 \in 1..Len(queue[s])
      /\ Head(queue[s]) \in Connection /\ Len(Tail(queue[s])) = Len(queue[s]) - 1
  BY <1>0, <1>4, TailFacts
<1>7. Head(queue[s])[1] = s /\ Head(queue[s]) # NoConnection
  BY <1>0, <1>6, NoConnectionAssumption DEF ServiceInv, CommandInv, IInv, ConnectionsAccounted
<1>8. Holders(s)' # {} /\ \A r \in Slots \ {s} : Holders(r)' = {}
  BY <1>0, <1>2, <1>5, <1>7 DEF Holders
<1>9. Len(queue'[s]) = PoolSize - 1 /\ \A r \in Slots \ {s} : Len(queue'[r]) = PoolSize
  BY <1>0, <1>3, <1>5, <1>6
<1>. QED BY <1>0, <1>5, <1>8, <1>9 DEF SlotQueueInv

\* The connection that a worker gives back was the one its pool missed.
LEMMA ReleaseGivesBack ==
    ASSUME ServiceInv, ready, NEW t \in Threads, Alone(t), Release(t)
    PROVE  SlotQueueInv'
<1>0. /\ held \in [Threads -> Connection \cup {NoConnection}]
      /\ queue \in [Keys -> Seq(Connection)] /\ Slots \subseteq Keys
  BY DEF ServiceInv, CommandInv, IInv, TypeOK, Keys
<1>1. /\ key[t] \in Keys /\ held[t] # NoConnection /\ held[t] \in Connection
      /\ held[t][1] = key[t]
  BY <1>0 DEF Release, ServiceInv, CommandInv, IInv, PlaceInv
<1>2. /\ queue' = [queue EXCEPT ![key[t]] = Append(@, held[t])]
      /\ held' = [held EXCEPT ![t] = NoConnection]
  BY DEF Release
<1>3. \A u \in Threads : held'[u] = NoConnection
  BY <1>0, <1>2 DEF Alone
<1>4. \A s \in Slots : Holders(s)' = {}
  BY <1>3 DEF Holders
<1>5. ASSUME NEW s \in Slots PROVE Len(queue'[s]) = PoolSize
  <2>1. CASE s = key[t]
    <3>1. Holders(s) # {}
      BY <1>1, <2>1 DEF Holders
    <3>2. Len(queue[s]) = PoolSize - 1
      BY <3>1 DEF ServiceInv, SlotQueueInv
    <3>3. Len(Append(queue[s], held[t])) = Len(queue[s]) + 1
      BY <1>0, <1>1, AppendFacts
    <3>. QED BY <1>0, <1>2, <2>1, <3>2, <3>3, PoolSizeAssumption
  <2>2. CASE s # key[t]
    <3>1. Holders(s) = {}
      BY <1>1, <2>2 DEF Alone, Holders
    <3>2. Len(queue[s]) = PoolSize
      BY <3>1 DEF ServiceInv, SlotQueueInv
    <3>. QED BY <1>0, <1>2, <2>2, <3>2
  <2>. QED BY <2>1, <2>2
<1>. QED BY <1>4, <1>5 DEF SlotQueueInv

\* Where nothing happens to the slots, nothing is missing afterwards.
LEMMA SlotQueueKept ==
    ASSUME SlotQueueInv, SlotsUntouched, ready' = ready
    PROVE  SlotQueueInv'
BY DEF SlotQueueInv, SlotsUntouched

\* A worker that is alone leaves the pools of the slots as they should be and
\* never fills them or waits for them.
LEMMA SenderKeepsSlots ==
    ASSUME ServiceInv, ready, NEW t \in Workers, Alone(t), SenderStep(t)
    PROVE  /\ SlotQueueInv'
           /\ pc'[t] \in {"fill", "wait", "woken"} => key'[t] \in Hosts
<1>0. /\ pc \in [Threads -> ThreadState] /\ key \in [Threads -> Keys \cup {NoKey}]
      /\ held \in [Threads -> Connection \cup {NoConnection}]
      /\ queue \in [Keys -> Seq(Connection)] /\ Slots \subseteq Keys
      /\ Hosts \subseteq Keys /\ Hosts \cap Slots = {}
      /\ IInv /\ SlotQueueInv /\ t \in Threads /\ ready' = ready
      /\ pc[t] \in {"fill", "wait", "woken"} => key[t] \in Hosts
      /\ pc[t] = "use" <=> held[t] # NoConnection
  BY StaysAlone, KeysAssumption
     DEF ServiceInv, CommandInv, IInv, TypeOK, PlaceInv, Keys, Workers, SlotPlaceInv
<1>1. ASSUME NEW h \in Hosts, held[t] = NoConnection, Pull(t, h)
      PROVE  SlotQueueInv' /\ key'[t] \in Hosts
  BY <1>0, <1>1, PullHost, SlotQueueKept
<1>2. ASSUME UNCHANGED <<queue, held>> PROVE SlotQueueInv'
  BY <1>0, <1>2, SlotQueueKept DEF SlotsUntouched, Holders
<1>3. CASE \E s \in Slots : Begin(t, s)
  BY <1>0, <1>3, BeginTakes
<1>4. CASE Query(t) \/ Check(t) \/ ResendMoved(t)
  BY <1>0, <1>2, <1>4 DEF Query, Check, ResendMoved, CallerCrash, poolVars
<1>5. CASE GiveBackBase(t) \/ GiveBackHost(t)
  <2>1. Release(t)
    BY <1>5 DEF GiveBackBase, GiveBackHost
  <2>2. pc'[t] = "notify"
    BY <1>0, <2>1 DEF Release
  <2>. QED BY <1>0, <2>1, <2>2, ReleaseGivesBack
<1>6. CASE \E h \in Hosts : Redirect(t, h)
  <2>1. PICK h \in Hosts : InsertKnownHost(t, h) \/ InsertNewHost(t, h)
    BY <1>6 DEF Redirect
  <2>2. CASE InsertKnownHost(t, h)
    <3>1. held[t] = NoConnection /\ Pull(t, h)
      BY <1>0, <2>2 DEF InsertKnownHost
    <3>. QED BY <1>1, <3>1
  <2>3. CASE InsertNewHost(t, h)
    BY <1>0, <1>2, <2>3 DEF InsertNewHost
  <2>. QED BY <2>1, <2>2, <2>3
<1>7. CASE HostBroken(t) \/ Asking(t) \/ Resend(t)
  <2>1. CASE UNCHANGED poolVars
    BY <1>0, <1>2, <2>1 DEF poolVars
  <2>2. CASE Drop(t) /\ cmd[t] \in HostPhase
    <3>1. /\ pc[t] = "use" /\ UNCHANGED queue
          /\ pc' = [pc EXCEPT ![t] = "out"] /\ held' = [held EXCEPT ![t] = NoConnection]
      BY <2>2 DEF Drop
    <3>2. held[t][1] \in Hosts
      BY <1>0, <2>2, <3>1 DEF ServiceInv, CommandInv, HostPhaseInv, IInv, PlaceInv
    <3>3. \A s \in Slots, u \in Threads :
            (held'[u] # NoConnection /\ held'[u][1] = s)
              <=> (held[u] # NoConnection /\ held[u][1] = s)
      BY <1>0, <3>1, <3>2
    <3>4. SlotsUntouched
      BY <3>1, <3>3 DEF SlotsUntouched, Holders
    <3>. QED BY <1>0, <3>1, <3>4, SlotQueueKept
  <2>3. CASE CallerCrash
    BY <1>0, <1>2, <2>3 DEF CallerCrash
  <2>. QED BY <1>7, <2>1, <2>2, <2>3 DEF HostBroken, Asking, Resend, HostPhase
<1>8. CASE InContainer(t)
  <2>1. CASE Retest(t) \/ FillDone(t)
    <3>1. pc[t] \in {"woken", "fill"} /\ held[t] = NoConnection /\ key[t] \in Hosts
      BY <1>0, <2>1 DEF Retest, FillDone
    <3>2. Pull(t, key[t])
      BY <1>0, <2>1, <3>1 DEF Retest, FillDone
    <3>. QED BY <1>1, <3>1, <3>2
  <2>2. CASE Notify(t)
    <3>1. pc'[t] = "out" /\ UNCHANGED <<queue, held>>
      BY <1>0, <2>2 DEF Notify, Waiting
    <3>. QED BY <1>2, <3>1
  <2>. QED BY <1>8, <2>1, <2>2 DEF InContainer
<1>9. CASE Connect(t)
  <2>1. /\ pc[t] = "fill" /\ UNCHANGED <<pc, key, held>>
        /\ \A k \in Keys \ {key[t]} : queue'[k] = queue[k]
    BY <1>0, <1>9 DEF Connect, FillConnect
  <2>2. SlotsUntouched
    BY <1>0, <2>1 DEF SlotsUntouched, Holders
  <2>. QED BY <1>0, <2>1, <2>2, SlotQueueKept
<1>10. CASE ConnectFails(t)
  <2>1. pc'[t] = "out" /\ UNCHANGED <<queue, held>>
    BY <1>0, <1>10 DEF ConnectFails, FillFail
  <2>. QED BY <1>2, <2>1
<1>11. CASE WakeSpuriously(t)
  <2>1. /\ UNCHANGED <<queue, held, key>> /\ pc[t] \in {"wait", "drainWait"}
        /\ pc' = [pc EXCEPT ![t] = IF @ = "wait" THEN "woken" ELSE "drainWoken"]
    BY <1>11 DEF WakeSpuriously, SpuriousWake
  <2>. QED BY <1>0, <1>2, <2>1
<1>. QED BY <1>3, <1>4, <1>5, <1>6, <1>7, <1>8, <1>9, <1>10, <1>11 DEF SenderStep, CommandStep
-----------------------------------------------------------------------------
(* The invariant of the service                                            *)

\* Constructing the cluster: no worker has anything to do with it yet.
LEMMA CreateStep ==
    ASSUME ServiceInv, CreateCluster
    PROVE  LockRedisInv' /\ OwnerInv' /\ SlotPlaceInv' /\ SlotQueueInv'
<1>0. /\ pc \in [Threads -> ThreadState] /\ key \in [Threads -> Keys \cup {NoKey}]
      /\ cmd \in [Threads -> Phase] /\ Owner \in Threads
      /\ UNCHANGED <<lockRedis, worker>>
      /\ cmd[Owner] = "idle" /\ pc[Owner] \in {"out", "fill"}
      /\ pc[Owner] = "fill" => key[Owner] \in Slots
      /\ ready => pc[Owner] = "out"
      /\ Hosts \cap Slots = {}
  BY ThreadsAssumption, KeysAssumption
     DEF ServiceInv, CommandInv, IInv, TypeOK, OwnerInv, CreateCluster, serviceVars
<1>1. ~ready
  BY <1>0 DEF CreateCluster, Construct, InitReady, InitInsert, Connect, ConnectFails, FillConnect,
         FillFail, InContainer, Retest, Notify, FillDone
<1>2. \A t \in Workers : worker[t] = "idle" /\ pc[t] = "out" /\ cmd[t] = "idle"
  BY <1>1 DEF ServiceInv, LockRedisInv
<1>3. ASSUME \A t \in Workers : pc'[t] = "out" /\ cmd'[t] = "idle",
             ready' = ready, cmd'[Owner] = "idle", pc'[Owner] \in {"out", "fill"},
             pc'[Owner] = "fill" => key'[Owner] \in Slots
      PROVE  LockRedisInv' /\ OwnerInv' /\ SlotPlaceInv' /\ SlotQueueInv'
  BY <1>0, <1>1, <1>2, <1>3 DEF LockRedisInv, OwnerInv, SlotPlaceInv, SlotQueueInv
<1>4. CASE InitReady
  <2>1. \A s \in Slots : Len(queue[s]) = PoolSize
    BY <1>4 DEF InitReady
  <2>2. \A t \in Threads : pc[t] = "out"
    BY <1>2, <1>4 DEF InitReady, Workers
  <2>3. \A t \in Threads : held[t] = NoConnection
    BY <2>2 DEF ServiceInv, CommandInv, IInv, PlaceInv
  <2>4. UNCHANGED <<queue, pc, key, held, cmd>> /\ pc[Owner] = "out"
    BY <1>4 DEF InitReady, poolVars
  <2>5. SlotQueueInv'
    BY <2>1, <2>3, <2>4 DEF SlotQueueInv, Holders
  <2>. QED BY <1>0, <1>2, <2>4, <2>5 DEF LockRedisInv, OwnerInv, SlotPlaceInv
<1>5. CASE \E s \in Slots : InitInsert(s)
  <2>1. PICK s \in Slots : InitInsert(s)
    BY <1>5
  <2>2. /\ pc' = [pc EXCEPT ![Owner] = "fill"] /\ key' = [key EXCEPT ![Owner] = s]
        /\ UNCHANGED <<cmd, ready>>
    BY <2>1 DEF InitInsert, InsertSlots, cmdVars
  <2>. QED BY <1>0, <1>2, <1>3, <2>2 DEF Workers
<1>6. CASE Connect(Owner)
  <2>1. UNCHANGED <<pc, key, cmd, ready>>
    BY <1>6 DEF Connect, FillConnect
  <2>. QED BY <1>0, <1>2, <1>3, <2>1
<1>7. CASE ConnectFails(Owner)
  <2>1. /\ pc' = [pc EXCEPT ![Owner] = "out"] /\ cmd' = [cmd EXCEPT ![Owner] = "idle"]
        /\ UNCHANGED ready
    BY <1>7 DEF ConnectFails, FillFail, Throw
  <2>. QED BY <1>0, <1>2, <1>3, <2>1 DEF Workers
<1>8. CASE InContainer(Owner)
  <2>1. FillDone(Owner) /\ UNCHANGED <<cmd, ready>>
    BY <1>0, <1>8 DEF InContainer, Retest, Notify, cmdVars
  <2>2. pc' = [pc EXCEPT ![Owner] = "out"]
    BY <1>0, <2>1 DEF FillDone
  <2>. QED BY <1>0, <1>2, <1>3, <2>1, <2>2 DEF Workers
<1>. QED BY <1>4, <1>5, <1>6, <1>7, <1>8 DEF CreateCluster, Construct

\* The command of an operation: its worker is alone before and after.
LEMMA SenderKeepsInv ==
    ASSUME ServiceInv, NEW t \in Workers, worker[t] = "operation", SenderStep(t),
           UNCHANGED <<lockRedis, worker>>
    PROVE  LockRedisInv' /\ OwnerInv' /\ SlotPlaceInv' /\ SlotQueueInv'
<1>1. ready /\ Alone(t) /\ lockRedis = t
  BY OperationIsAlone DEF ServiceInv, LockRedisInv
<1>2. Alone(t)' /\ ready' = ready
  BY <1>1, StaysAlone DEF ServiceInv, Workers
<1>3. /\ SlotQueueInv'
      /\ pc'[t] \in {"fill", "wait", "woken"} => key'[t] \in Hosts
  BY <1>1, SenderKeepsSlots
<1>4. \A u \in Threads \ {t} : pc'[u] = "out" /\ cmd'[u] = "idle"
  BY <1>2 DEF Alone
<1>5. LockRedisInv'
  BY <1>1, <1>2, <1>4 DEF LockRedisInv, ServiceInv, Workers
<1>6. OwnerInv'
  BY <1>4, ThreadsAssumption DEF OwnerInv, Workers
<1>7. SlotPlaceInv'
  BY <1>3, <1>4 DEF SlotPlaceInv, Workers
<1>. QED BY <1>3, <1>5, <1>6, <1>7

\* The steps that only move a worker.
LEMMA WorkerMoves ==
    ASSUME ServiceInv, NEW t \in Workers,
           Request(t) \/ LockRedis(t) \/ Unlock(t) \/ BadReply(t)
    PROVE  LockRedisInv' /\ OwnerInv' /\ SlotPlaceInv' /\ SlotQueueInv'
<1>0. worker \in [Workers -> WorkerState] /\ LockRedisInv
  BY DEF ServiceInv
<1>1. UNCHANGED <<pc, key, cmd, held, queue, ready>>
  BY DEF Request, LockRedis, Unlock, BadReply, CallerCrash, commandVars, poolVars, cmdVars
<1>2. OwnerInv' /\ SlotPlaceInv' /\ SlotQueueInv'
  BY <1>1 DEF ServiceInv, OwnerInv, SlotPlaceInv, SlotQueueInv, Holders
<1>3. CASE Request(t)
  BY <1>0, <1>1, <1>2, <1>3 DEF Request, LockRedisInv
<1>4. CASE LockRedis(t)
  <2>1. lockRedis \notin Workers /\ ready
    BY <1>0, <1>4, ThreadsAssumption DEF LockRedis, LockRedisInv, Workers
  <2>2. worker' = [worker EXCEPT ![t] = "operation"] /\ lockRedis' = t
    BY <1>4 DEF LockRedis
  <2>. QED BY <1>0, <1>1, <1>2, <2>1, <2>2 DEF LockRedisInv
<1>5. CASE Unlock(t)
  <2>1. /\ pc[t] = "out" /\ cmd[t] = "idle" /\ worker[t] = "operation"
        /\ worker' = [worker EXCEPT ![t] = "idle"]
    BY <1>5 DEF Unlock, Between
  <2>2. \A u \in Workers \ {t} : worker[u] # "operation"
    BY <1>0, <2>1 DEF LockRedisInv
  <2>. QED BY <1>0, <1>1, <1>2, <2>1, <2>2 DEF LockRedisInv
<1>6. CASE BadReply(t)
  BY <1>0, <1>1, <1>2, <1>6 DEF BadReply, serviceVars, LockRedisInv
<1>. QED BY <1>2, <1>3, <1>4, <1>5, <1>6

\* ServiceInv is inductive.
LEMMA ServiceInvStep ==
    ASSUME ServiceInv, [ServiceNext]_redisServiceVars
    PROVE  ServiceInv'
<1>1. CommandInv'
  BY ServiceKeepsCommandInv DEF ServiceInv
<1>2. worker' \in [Workers -> WorkerState]
  <2>1. worker \in [Workers -> WorkerState]
    BY DEF ServiceInv
  <2>2. \/ worker' = worker
        \/ \E t \in Workers, w \in WorkerState : worker' = [worker EXCEPT ![t] = w]
    BY DEF ServiceNext, CreateCluster, WorkerStep, Request, LockRedis, SendCommand,
           OperationCommand, BadReply, Unlock, serviceVars, redisServiceVars, WorkerState
  <2>. QED BY <2>1, <2>2
<1>3. LockRedisInv' /\ OwnerInv' /\ SlotPlaceInv' /\ SlotQueueInv'
  <2>1. CASE UNCHANGED redisServiceVars
    BY <2>1 DEF redisServiceVars, commandVars, poolVars, cmdVars, serviceVars, ServiceInv,
                LockRedisInv, OwnerInv, SlotPlaceInv, SlotQueueInv, Holders
  <2>2. CASE CreateCluster
    BY <2>2, CreateStep
  <2>3. ASSUME NEW t \in Workers, SendCommand(t) \/ OperationCommand(t)
        PROVE  LockRedisInv' /\ OwnerInv' /\ SlotPlaceInv' /\ SlotQueueInv'
    <3>1. /\ worker[t] = "operation" /\ SenderStep(t)
          /\ UNCHANGED <<lockRedis, worker>>
      BY <2>3 DEF SendCommand, OperationCommand, Between, SenderStep
    <3>. QED BY <3>1, SenderKeepsInv
  <2>4. ASSUME NEW t \in Workers, WakeSpuriously(t), UNCHANGED serviceVars
        PROVE  LockRedisInv' /\ OwnerInv' /\ SlotPlaceInv' /\ SlotQueueInv'
    <3>1. worker[t] = "operation"
      BY <2>4 DEF WakeSpuriously, SpuriousWake, ServiceInv, LockRedisInv
    <3>2. SenderStep(t) /\ UNCHANGED <<lockRedis, worker>>
      BY <2>4 DEF SenderStep, serviceVars
    <3>. QED BY <3>1, <3>2, SenderKeepsInv
  <2>. QED BY <2>1, <2>2, <2>3, <2>4, WorkerMoves DEF ServiceNext, WorkerStep
<1>. QED BY <1>1, <1>2, <1>3 DEF ServiceInv

\* The invariant of the workers holds in every reachable state.
THEOREM ServiceInvariant == ServiceSpec => []ServiceInv
<1>1. ServiceInit => ServiceInv
  <2>. SUFFICES ASSUME ServiceInit PROVE ServiceInv
    OBVIOUS
  <2>1. CommandInit /\ ~ready /\ cmd[Owner] = "idle" /\ pc[Owner] = "out"
        /\ \A t \in Workers : cmd[t] = "idle" /\ pc[t] = "out" /\ worker[t] = "idle"
    BY ThreadsAssumption DEF ServiceInit, CommandInit, PoolInit, Workers
  <2>2. CommandInv
    <3>1. IInv
      BY <2>1, InitIInv DEF CommandInit
    <3>. QED BY <2>1, <3>1 DEF CommandInit, PoolInit, CommandInv, HostPhaseInv, HostPhase,
                               BaseConnectionsReturn, Phase, Reply
  <2>. QED BY <2>1, <2>2 DEF ServiceInit, ServiceInv, LockRedisInv, OwnerInv, SlotPlaceInv,
                             SlotQueueInv, WorkerState
<1>2. ServiceInv /\ [ServiceNext]_redisServiceVars => ServiceInv'
  BY ServiceInvStep
<1>. QED BY <1>1, <1>2, PTL DEF ServiceSpec

\* Behind lockRedis the pools see one thread at a time, however many workers
\* the server has.
THEOREM OneWorkerSafe == ServiceSpec => []OneWorkerAtATime
<1>1. ServiceInv => OneWorkerAtATime
  <2>. SUFFICES ASSUME ServiceInv, NEW t \in Workers, pc[t] # "out" \/ held[t] # NoConnection
                PROVE  lockRedis = t
    BY DEF OneWorkerAtATime
  <2>1. pc[t] # "out"
    BY DEF ServiceInv, CommandInv, IInv, PlaceInv, Workers
  <2>. QED BY <2>1 DEF ServiceInv, LockRedisInv
<1>. QED BY <1>1, ServiceInvariant, PTL

\* Whatever failed before, a worker finds a connection in the pool of its
\* slot: all PoolSize of them are there or in the hands of the one worker.
THEOREM SlotPoolsFull == ServiceSpec => []SlotPoolNeverDry
<1>1. ServiceInv => SlotPoolNeverDry
  <2>. SUFFICES ASSUME ServiceInv, ready, NEW s \in Slots
                PROVE  /\ Waiting(s) = {}
                       /\ Len(queue[s]) + Cardinality(Holders(s)) = PoolSize
    BY DEF SlotPoolNeverDry
  <2>1. Waiting(s) = {}
    <3>. SUFFICES ASSUME NEW t \in Waiting(s) PROVE FALSE
      OBVIOUS
    <3>1. t \in Threads /\ key[t] = s /\ pc[t] \in {"wait", "drainWait"}
      BY DEF Waiting
    <3>2. t \in Workers
      BY <3>1 DEF ServiceInv, OwnerInv, Workers
    <3>3. pc[t] = "wait"
      BY <3>1, <3>2 DEF ServiceInv, CommandInv, IInv, LockInv, Draining, Workers
    <3>4. s \in Hosts
      BY <3>1, <3>2, <3>3 DEF ServiceInv, SlotPlaceInv
    <3>. QED BY <3>4, KeysAssumption
  <2>2. CASE Holders(s) = {}
    BY <2>1, <2>2, FS_EmptySet, PoolSizeAssumption DEF ServiceInv, SlotQueueInv
  <2>3. CASE Holders(s) # {}
    <3>1. PICK t \in Threads : held[t] # NoConnection /\ t \in Holders(s)
      BY <2>3 DEF Holders
    <3>2. pc[t] = "use"
      BY <3>1 DEF ServiceInv, CommandInv, IInv, PlaceInv
    <3>3. t \in Workers
      BY <3>2 DEF ServiceInv, OwnerInv, Workers
    <3>4. worker[t] = "operation"
      BY <3>2, <3>3 DEF ServiceInv, LockRedisInv
    <3>5. \A u \in Threads \ {t} : held[u] = NoConnection
      BY <3>3, <3>4, OperationIsAlone DEF Alone
    <3>6. Holders(s) = {t}
      BY <3>1, <3>5 DEF Holders
    <3>7. Cardinality(Holders(s)) = 1
      BY <3>6, FS_Singleton
    <3>8. Len(queue[s]) = PoolSize - 1
      BY <2>3 DEF ServiceInv, SlotQueueInv
    <3>. QED BY <2>1, <3>7, <3>8, PoolSizeAssumption
  <2>. QED BY <2>1, <2>2, <2>3
<1>. QED BY <1>1, ServiceInvariant, PTL

-----------------------------------------------------------------------------
(* The workers are users of the container, whatever an operation sends     *)

\* A step of the service is one of the cluster, or the death of the process.
LEMMA ServiceStepSendsCommands ==
    ASSUME [ServiceNext]_redisServiceVars
    PROVE  [CommandNext]_commandVars \/ (~crashed /\ CallerCrash)
<1> USE ThreadsAssumption DEF Workers
<1>1. CASE UNCHANGED commandVars
  BY <1>1 DEF commandVars
<1>2. ASSUME ~crashed, CreateCluster PROVE CommandNext
  BY <1>2 DEF CreateCluster, CommandNext, CommandStep
<1>3. ASSUME ~crashed, NEW t \in Workers,
             SendCommand(t) \/ OperationCommand(t) \/ WakeSpuriously(t)
      PROVE  CommandNext
  BY <1>3 DEF SendCommand, OperationCommand, CommandNext
<1>4. ASSUME NEW t \in Workers, Request(t) \/ LockRedis(t) \/ Unlock(t)
      PROVE  UNCHANGED commandVars
  BY <1>4 DEF Request, LockRedis, Unlock
<1>5. ASSUME ~crashed, NEW t \in Workers, BadReply(t) PROVE CallerCrash
  BY <1>5 DEF BadReply
<1>. QED BY <1>1, <1>2, <1>3, <1>4, <1>5 DEF ServiceNext, WorkerStep, redisServiceVars

\* So it is one of the container, or does not touch it.
LEMMA ServiceStepUsesPool ==
    ASSUME [ServiceNext]_redisServiceVars
    PROVE  [PoolNext]_poolVars
BY ServiceStepSendsCommands, StepUsesPool DEF PoolNext

\* The server uses its container as it may be used: a worker gives back what
\* it holds, once and to its pool, and takes no second connection before.
THEOREM ServiceUsesPool == ServiceSpec => PoolSpec
<1>1. ServiceInit => PoolInit
  BY DEF ServiceInit, CommandInit
<1>2. [ServiceNext]_redisServiceVars => [PoolNext]_poolVars
  BY ServiceStepUsesPool
<1>. QED BY <1>1, <1>2, PTL DEF ServiceSpec, PoolSpec

\* So all that was shown of the container holds in the server: no two workers
\* have one connection, and the pools are an allocator of connections.
THEOREM ServiceConnectionsSafe ==
    ServiceSpec => []ConnectionsAccounted /\ []LeakBlocksDisconnect /\ ImplementsAllocator
BY ServiceUsesPool, ConnectionsSafe, LeakSafe, PoolImplementsAllocator, PTL

\* An operation whose command failed has not kept a connection of a slot, and
\* one that got its reply has kept none at all: the next operation finds the
\* pools as this one found them.
THEOREM OperationsReturn ==
    ServiceSpec => []BaseConnectionsReturn /\ ReturnsEmptyHanded
<1>1. ASSUME CommandInv, [ServiceNext]_redisServiceVars, NEW t \in Threads,
             cmd[t] # "idle", cmd'[t] = "idle", reply'[t] # "thrown"
      PROVE  held'[t] = NoConnection /\ leaked' = leaked
  <2>1. CommandNext
    BY <1>1, ThreadsAssumption
       DEF ServiceNext, WorkerStep, CreateCluster, Request, LockRedis, SendCommand,
           OperationCommand, BadReply, Unlock, CommandNext, CommandStep, Workers,
           redisServiceVars, commandVars, cmdVars
  <2>2. Check(t) \/ GiveBackHost(t)
    BY <1>1, <2>1, EndingStep
  <2>3. CASE Check(t)
    <3>1. pc[t] = "out" /\ UNCHANGED <<held, leaked>>
      BY <2>3 DEF Check, CallerCrash, poolVars
    <3>. QED BY <1>1, <3>1 DEF CommandInv, IInv, PlaceInv
  <2>4. CASE GiveBackHost(t)
    BY <1>1, <2>4 DEF GiveBackHost, Release, CommandInv, IInv, TypeOK
  <2>. QED BY <2>2, <2>3, <2>4
<1>2. CommandInv /\ [ServiceNext]_redisServiceVars =>
        [\A t \in Threads :
           cmd[t] # "idle" /\ cmd'[t] = "idle" /\ reply'[t] # "thrown" =>
             held'[t] = NoConnection /\ leaked' = leaked]_commandVars
  BY <1>1
<1>3. ServiceInv => CommandInv /\ BaseConnectionsReturn
  BY DEF ServiceInv, CommandInv
<1>. QED BY <1>2, <1>3, ServiceInvariant, PTL DEF ServiceSpec, ReturnsEmptyHanded

-----------------------------------------------------------------------------
(* No null pointer                                                         *)

\* The maps have no entry that is null, and a pool for every range once the
\* cluster is ready.
MapsInv ==
    /\ \A k \in Keys : pool[k] \in {"none", "live"}
    /\ ready => \A s \in Slots : pool[s] = "live"

LEMMA MapsInvStep ==
    ASSUME ServiceInv, MapsInv, [ServiceNext]_redisServiceVars
    PROVE  MapsInv'
<1>0. pool \in [Keys -> PoolState] /\ Slots \subseteq Keys
  BY DEF ServiceInv, CommandInv, IInv, TypeOK, Keys
<1>1. CASE UNCHANGED <<pool, ready>>
  BY <1>1 DEF MapsInv
<1>2. CASE InitReady
  BY <1>2 DEF InitReady, poolVars, MapsInv
<1>3. CASE PoolsGrow /\ ready' = ready
  BY <1>0, <1>3 DEF PoolsGrow, MapsInv
<1>4. \/ PoolsGrow /\ (ready' = ready \/ InitReady)
      \/ UNCHANGED <<pool, ready>>
  <2>1. CASE CreateCluster
    BY <2>1, ThreadsAssumption, OnlyDisconnectDeletes DEF CreateCluster, CommandStep
  <2>2. ASSUME NEW t \in Workers, SendCommand(t) \/ OperationCommand(t) \/ WakeSpuriously(t)
        PROVE  PoolsGrow /\ (ready' = ready \/ InitReady)
    BY <2>2, OnlyDisconnectDeletes DEF SendCommand, OperationCommand, Workers
  <2>3. ASSUME NEW t \in Workers, Request(t) \/ LockRedis(t) \/ Unlock(t) \/ BadReply(t)
        PROVE  UNCHANGED <<pool, ready>>
    BY <2>3 DEF Request, LockRedis, Unlock, BadReply, CallerCrash, commandVars, poolVars, cmdVars
  <2>4. CASE UNCHANGED redisServiceVars
    BY <2>4 DEF redisServiceVars, commandVars, poolVars, cmdVars
  <2>. QED BY <2>1, <2>2, <2>3, <2>4 DEF ServiceNext, WorkerStep
<1>. QED BY <1>1, <1>2, <1>3, <1>4

\* No worker dereferences a null or missing pool, although getConnection and
\* releaseConnection look at none before they use it: the constructor has
\* filled one for every range, an exception of fillPool leaves the pool in its
\* map, and nothing deletes one.  So no action of RedisService is ContainerCrash.
WorkersFindTheirPools == ready => \A t \in Workers : ~NullEntry(t)

\* The container hands a worker no null pointer, for any number of workers,
\* ranges and hosts and whatever connects fail, if the reply to CLUSTER SLOTS
\* names a range (with none, the first command dies in getConnection).
THEOREM ServiceFindsItsPools ==
    ASSUME Slots # {}
    PROVE  ServiceSpec => []WorkersFindTheirPools
<1>1. ServiceInit => MapsInv
  BY DEF ServiceInit, CommandInit, PoolInit, MapsInv
<1>2. ServiceInv /\ MapsInv /\ [ServiceNext]_redisServiceVars => MapsInv'
  BY MapsInvStep
<1>3. ServiceInv /\ MapsInv => WorkersFindTheirPools
  BY EntriesFound DEF ServiceInv, CommandInv, MapsInv, WorkersFindTheirPools, Workers
<1>. QED BY <1>1, <1>2, <1>3, ServiceInvariant, PTL DEF ServiceSpec

-----------------------------------------------------------------------------
(* Why a worker sleeps                                                     *)

\* A worker sleeps on an empty pool.
SleepInv == \A t \in Workers : pc[t] = "wait" => queue[key[t]] = <<>>

LEMMA SleepInvStep ==
    ASSUME ServiceInv, SleepInv, [ServiceNext]_redisServiceVars
    PROVE  SleepInv'
<1>0. /\ pc \in [Threads -> ThreadState] /\ key \in [Threads -> Keys \cup {NoKey}]
      /\ queue \in [Keys -> Seq(Connection)] /\ Workers \subseteq Threads
      /\ \A t \in Threads : pc[t] = "wait" => key[t] \in Keys
  BY DEF ServiceInv, CommandInv, IInv, TypeOK, PlaceInv, Workers
<1>1. CASE UNCHANGED <<pc, key, queue>>
  BY <1>1 DEF SleepInv
<1>2. ASSUME NEW t \in Workers, worker[t] = "operation", SenderStep(t)
      PROVE  SleepInv'
  <2>1. Alone(t)' /\ t \in Threads
    BY <1>0, <1>2, OperationIsAlone, StaysAlone DEF ServiceInv
  <2>2. ASSUME pc'[t] = "wait" PROVE queue'[key'[t]] = <<>>
    <3>1. ASSUME NEW k \in Keys, Pull(t, k) PROVE queue'[key'[t]] = <<>>
      BY <1>0, <2>1, <2>2, <3>1 DEF Pull
    <3>2. CASE \E s \in Slots : Begin(t, s)
      BY <3>1, <3>2 DEF Begin, GetConnection, Keys
    <3>3. CASE UNCHANGED <<pc, key, queue>>
      BY <1>2, <2>2, <3>3 DEF SleepInv
    <3>4. CASE Query(t) \/ Check(t) \/ ResendMoved(t)
      BY <3>3, <3>4 DEF Query, Check, ResendMoved, CallerCrash, poolVars
    <3>5. CASE GiveBackBase(t) \/ GiveBackHost(t) \/ WakeSpuriously(t)
      BY <1>0, <2>1, <2>2, <3>5
         DEF GiveBackBase, GiveBackHost, Release, WakeSpuriously, SpuriousWake
    <3>6. CASE \E h \in Hosts : Redirect(t, h)
      BY <1>0, <2>1, <2>2, <3>1, <3>6 DEF Redirect, InsertKnownHost, InsertNewHost, Keys
    <3>7. CASE HostBroken(t) \/ Asking(t) \/ Resend(t)
      BY <1>0, <2>1, <2>2, <3>3, <3>7 DEF HostBroken, Asking, Resend, CallerCrash, Drop, poolVars
    <3>8. CASE InContainer(t)
      <4>1. CASE Retest(t)
        <5>1. key[t] \in Keys
          BY <2>1, <4>1 DEF Retest, ServiceInv, CommandInv, IInv, PlaceInv
        <5>. QED BY <3>1, <4>1, <5>1 DEF Retest
      <4>2. CASE Notify(t)
        BY <1>0, <2>1, <2>2, <4>2 DEF Notify, Waiting
      <4>3. CASE FillDone(t)
        BY <1>0, <2>1, <2>2, <3>1, <4>3 DEF FillDone, Keys
      <4>. QED BY <3>8, <4>1, <4>2, <4>3 DEF InContainer
    <3>9. CASE Connect(t) \/ ConnectFails(t)
      BY <1>0, <2>1, <2>2, <3>9 DEF Connect, ConnectFails, FillConnect, FillFail
    <3>. QED BY <1>2, <3>2, <3>4, <3>5, <3>6, <3>7, <3>8, <3>9 DEF SenderStep, CommandStep
  <2>. QED BY <1>0, <2>1, <2>2 DEF SleepInv, Alone
<1>3. CASE CreateCluster
  <2>1. \A t \in Workers : pc[t] = "out" /\ pc'[t] = pc[t]
    <3>1. ~ready /\ pc[Owner] \in {"out", "fill"}
      BY <1>3 DEF ServiceInv, OwnerInv, CreateCluster, Construct, InitReady, InitInsert, Connect,
             ConnectFails, FillConnect, FillFail, InContainer, Retest, Notify, FillDone
    <3>2. \A t \in Workers : pc[t] = "out"
      BY <3>1 DEF ServiceInv, LockRedisInv
    <3>3. CASE Construct
      BY <1>0, <3>2, <3>3 DEF Construct, InitReady, InitInsert, InsertSlots, poolVars, Workers
    <3>4. CASE InContainer(Owner)
      BY <1>0, <3>1, <3>2, <3>4 DEF InContainer, Retest, Notify, FillDone, Pull, Workers
    <3>5. CASE Connect(Owner) \/ ConnectFails(Owner)
      BY <1>0, <3>2, <3>5 DEF Connect, ConnectFails, FillConnect, FillFail, Workers
    <3>. QED BY <1>3, <3>2, <3>3, <3>4, <3>5 DEF CreateCluster
  <2>. QED BY <2>1 DEF SleepInv
<1>4. ASSUME NEW t \in Workers, Request(t) \/ LockRedis(t) \/ Unlock(t) \/ BadReply(t)
      PROVE  UNCHANGED <<pc, key, queue>>
  BY <1>4 DEF Request, LockRedis, Unlock, BadReply, CallerCrash, commandVars, poolVars
<1>5. ASSUME NEW t \in Workers, SendCommand(t) \/ OperationCommand(t)
      PROVE  worker[t] = "operation" /\ SenderStep(t)
  BY <1>5 DEF SendCommand, OperationCommand, Between, SenderStep
<1>6. ASSUME NEW t \in Workers, WakeSpuriously(t)
      PROVE  worker[t] = "operation" /\ SenderStep(t)
  BY <1>6 DEF WakeSpuriously, SpuriousWake, SenderStep, ServiceInv, LockRedisInv
<1>7. CASE UNCHANGED redisServiceVars
  BY <1>1, <1>7 DEF redisServiceVars, commandVars, poolVars
<1>. QED BY <1>1, <1>2, <1>3, <1>4, <1>5, <1>6, <1>7 DEF ServiceNext, WorkerStep

\* All connections of the pool of a host were dropped.
AllDropped(h) == \A i \in 1..PoolSize : <<h, i>> \in leaked

\* A worker that sleeps is alone, so nobody has a connection of its pool, and
\* none is in the queue or with disconnect: they are all lost.
LEMMA SleeperHasLostAll ==
    ASSUME ServiceInv, WaitInv, FullInv, SleepInv,
           NEW t \in Workers, pc[t] = "wait"
    PROVE  key[t] \in Hosts /\ AllDropped(key[t])
<1> DEFINE h == key[t]
<1>0. /\ t \in Threads /\ h \in Hosts /\ h \in Keys /\ worker[t] = "operation"
      /\ Owner \in Threads /\ Owner # t
  BY ThreadsAssumption DEF Workers, Keys, ServiceInv, SlotPlaceInv, LockRedisInv
<1>1. Alone(t)
  BY <1>0, OperationIsAlone
<1>2. pool[h] \in {"live", "orphan"} /\ ~Filling(h)
  BY <1>0, <1>1 DEF WaitInv, InsidePool, Filling, Alone
<1>3. queue[h] = <<>> /\ drained = {}
  <2>1. pc[Owner] = "out"
    BY <1>0, <1>1 DEF Alone
  <2>. QED BY <2>1 DEF SleepInv, ServiceInv, CommandInv, IInv, DrainInv, Draining
<1>4. \A u \in Threads : held[u] = NoConnection
  BY <1>0, <1>1 DEF Alone, ServiceInv, CommandInv, IInv, PlaceInv
<1>5. ASSUME NEW i \in 1..PoolSize PROVE <<h, i>> \in leaked
  <2>1. Anywhere(<<h, i>>)
    BY <1>0, <1>2 DEF FullInv
  <2>2. <<h, i>> \notin Free
    BY <1>0, <1>3 DEF ServiceInv, CommandInv, IInv, ConnectionsAccounted, Free
  <2>3. <<h, i>> # NoConnection
    BY <1>0, NoConnectionAssumption DEF Connection
  <2>. QED BY <1>3, <1>4, <2>1, <2>2, <2>3 DEF Anywhere
<1>. QED BY <1>0, <1>5 DEF AllDropped

\* What can stop the server while connects succeed: a worker sleeps only for a
\* connection of a host, and only when a redirection has dropped every one of
\* that host's, never because of other workers, nodes or ranges.
THEOREM WorkersSleepForLostConnections ==
    ASSUME ~ConnectMayFail
    PROVE  ServiceSpec =>
             [](\A t \in Workers : pc[t] = "wait" => key[t] \in Hosts /\ AllDropped(key[t]))
<1>1. ServiceInit => WaitInv /\ FullInv /\ SleepInv
  BY InitFullInv DEF ServiceInit, CommandInit, PoolInit, SleepInv, Workers
<1>2. ServiceInv /\ SleepInv /\ [ServiceNext]_redisServiceVars => SleepInv'
  BY SleepInvStep
<1>3. ServiceInv /\ WaitInv /\ FullInv /\ [ServiceNext]_redisServiceVars => WaitInv' /\ FullInv'
  BY ServiceStepSendsCommands, FullInvStep DEF ServiceInv
<1>4. ServiceInv /\ WaitInv /\ FullInv /\ SleepInv =>
        \A t \in Workers : pc[t] = "wait" => key[t] \in Hosts /\ AllDropped(key[t])
  BY SleeperHasLostAll
<1>. QED BY <1>1, <1>2, <1>3, <1>4, ServiceInvariant, PTL DEF ServiceSpec

-----------------------------------------------------------------------------
(* Types                                                                   *)

ServiceTypedInv ==
    /\ TypedInv
    /\ lockRedis \in Workers \cup {NoThread}
    /\ left \in [Workers -> 0..MaxCommands]
    /\ served \in [Workers -> 0..MaxRequests]
    /\ \A t \in Workers : worker[t] # "idle" => served[t] < MaxRequests

LEMMA ServiceTypedStep ==
    ASSUME ServiceInv, ServiceTypedInv, [ServiceNext]_redisServiceVars
    PROVE  ServiceTypedInv'
<1>0. /\ lockRedis \in Workers \cup {NoThread} /\ worker \in [Workers -> WorkerState]
      /\ left \in [Workers -> 0..MaxCommands] /\ served \in [Workers -> 0..MaxRequests]
      /\ \A t \in Workers : worker[t] # "idle" => served[t] < MaxRequests
      /\ MaxCommands \in Nat /\ MaxRequests \in Nat
  BY BoundsAssumption DEF ServiceInv, ServiceTypedInv
<1>1. TypedInv'
  <2> USE ThreadsAssumption DEF Workers, ServiceInv, ServiceTypedInv
  <2>1. CASE UNCHANGED commandVars
    BY <2>1, TypedStep
  <2>2. CASE CommandNext
    BY <2>2, TypedStep
  <2>3. ASSUME NEW t \in Workers, BadReply(t) PROVE TypedInv'
    BY <2>3 DEF BadReply, CallerCrash, cmdVars, TypedInv
  <2>4. CASE ~crashed /\ CreateCluster
    BY <2>2, <2>4 DEF CreateCluster, CommandNext, CommandStep
  <2>5. ASSUME ~crashed, NEW t \in Workers,
               SendCommand(t) \/ OperationCommand(t) \/ WakeSpuriously(t)
        PROVE  TypedInv'
    BY <2>2, <2>5 DEF SendCommand, OperationCommand, CommandNext
  <2>6. ASSUME NEW t \in Workers, Request(t) \/ LockRedis(t) \/ Unlock(t) PROVE TypedInv'
    BY <2>1, <2>6 DEF Request, LockRedis, Unlock
  <2>. QED BY <2>1, <2>3, <2>4, <2>5, <2>6 DEF ServiceNext, WorkerStep, redisServiceVars
<1>2. CASE UNCHANGED serviceVars
  BY <1>0, <1>1, <1>2 DEF serviceVars, ServiceTypedInv
<1>3. ASSUME NEW t \in Workers, Request(t) \/ LockRedis(t)
      PROVE  ServiceTypedInv'
  <2>1. served' = served /\ served[t] < MaxRequests
    BY <1>0, <1>3 DEF Request, LockRedis
  <2>2. lockRedis' \in Workers \cup {NoThread} /\ left' \in [Workers -> 0..MaxCommands]
    BY <1>0, <1>3 DEF Request, LockRedis
  <2>3. \A u \in Workers : worker'[u] # "idle" => served'[u] < MaxRequests
    BY <1>0, <1>3, <2>1 DEF Request, LockRedis
  <2>. QED BY <1>0, <1>1, <2>1, <2>2, <2>3 DEF ServiceTypedInv
<1>4. ASSUME NEW t \in Workers, SendCommand(t) \/ OperationCommand(t)
      PROVE  ServiceTypedInv'
  <2>1. UNCHANGED <<lockRedis, worker, served>>
    BY <1>4 DEF SendCommand, OperationCommand
  <2>2. left' \in [Workers -> 0..MaxCommands]
    <3>1. CASE SendCommand(t)
      <4>1. left[t] \in 0..MaxCommands /\ left[t] > 0
            /\ left' = [left EXCEPT ![t] = left[t] - 1]
        BY <1>0, <3>1 DEF SendCommand
      <4>2. left[t] - 1 \in 0..MaxCommands
        BY <1>0, <4>1
      <4>. QED BY <1>0, <4>1, <4>2
    <3>2. CASE OperationCommand(t)
      <4>1. 0 \in 0..MaxCommands
        BY <1>0
      <4>. QED BY <1>0, <3>2, <4>1 DEF OperationCommand
    <3>. QED BY <1>4, <3>1, <3>2
  <2>. QED BY <1>0, <1>1, <2>1, <2>2 DEF ServiceTypedInv
<1>5. ASSUME NEW t \in Workers, Unlock(t)
      PROVE  ServiceTypedInv'
  <2>1. /\ lockRedis' = NoThread /\ left' = left /\ worker[t] = "operation"
        /\ worker' = [worker EXCEPT ![t] = "idle"]
        /\ served' = [served EXCEPT ![t] = served[t] + 1]
    BY <1>5 DEF Unlock, Between
  <2>2. served[t] + 1 \in 0..MaxRequests
    BY <1>0, <2>1
  <2>3. served' \in [Workers -> 0..MaxRequests]
    BY <1>0, <2>1, <2>2
  <2>4. \A u \in Workers : worker'[u] # "idle" => served'[u] < MaxRequests
    BY <1>0, <2>1
  <2>. QED BY <1>0, <1>1, <2>1, <2>3, <2>4 DEF ServiceTypedInv
<1>. QED BY <1>2, <1>3, <1>4, <1>5
         DEF ServiceNext, CreateCluster, WorkerStep, BadReply, redisServiceVars

\* The workers keep their types: the bounds on commands and requests hold, and
\* the owner of lockRedis is a worker or nobody.
THEOREM ServiceTypeCorrect == ServiceSpec => []ServiceTypeOK
<1>1. ServiceInit => ServiceTypedInv
  <2>. SUFFICES ASSUME ServiceInit PROVE ServiceTypedInv
    OBVIOUS
  <2>1. TypedInv
    BY InitTyped DEF ServiceInit
  <2>2. 0 \in 0..MaxCommands /\ 0 \in 0..MaxRequests
    BY BoundsAssumption
  <2>. QED BY <2>1, <2>2 DEF ServiceInit, ServiceTypedInv
<1>2. ServiceInv /\ ServiceTypedInv /\ [ServiceNext]_redisServiceVars => ServiceTypedInv'
  BY ServiceTypedStep
<1>3. ServiceInv /\ ServiceTypedInv => ServiceTypeOK
  BY DEF ServiceInv, ServiceTypedInv, CommandInv, IInv, TypedInv, CommandTypeOK, ServiceTypeOK
<1>. QED BY <1>1, <1>2, <1>3, ServiceInvariant, PTL DEF ServiceSpec
=============================================================================
