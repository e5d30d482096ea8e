-------------------------- MODULE CommandPoolProofs --------------------------
(***************************************************************************)
(* For any number of command threads, ranges, hosts and connections, and   *)
(* whatever fails: when processCommandPool has deleted the cluster, every  *)
(* pool was deleted, every connection freed, every thread counted, and     *)
(* nobody was inside a pool that was deleted.                              *)
(*                                                                         *)
(* The join is what this rests on: while the owner deletes, all command    *)
(* threads have ended (JoinInv), so no pool is inserted behind the         *)
(* iterator of disconnect, which therefore passes all of them (PassedInv). *)
(***************************************************************************)
EXTENDS CommandPool, ClusterCommandProofs

Counted == {t \in Commanders : thread[t] = "counted"}

\* A thread that has no command is outside the container, and the main thread
\* creates before the first one starts and deletes after the last one ended.
JoinInv ==
    \A t \in Commanders :
      /\ thread[t] # "command" => pc[t] = "out" /\ cmd[t] = "idle"
      /\ main = "create" => thread[t] = "unborn"
      /\ main \in {"delete", "deleted"} => thread[t] = "counted"

\* Where the main thread is in the cluster.
MainInv ==
    /\ cmd[Owner] = "idle"
    /\ main = "create" => /\ ~ready /\ pc[Owner] \in {"out", "fill"}
                          /\ pc[Owner] = "fill" => key[Owner] \in Slots
    /\ main # "create" => ready
    /\ main \in {"run", "deleted"} => pc[Owner] = "out"
    /\ main = "delete" => pc[Owner] \in Draining \cup {"out", "between"}

\* What the iterators of disconnect have passed is deleted, first the pools of
\* the slots, then those of the hosts.
PassedInv ==
    /\ \A k \in Keys : pool[k] # "orphan"
    /\ pc[Owner] \in Draining =>
         \A j \in MapOf(key[Owner]) : j < key[Owner] => pool[j] # "live"
    /\ pc[Owner] = "between" \/ (pc[Owner] \in Draining /\ key[Owner] \in Hosts) =>
         \A s \in Slots : pool[s] = "none"
    /\ main = "deleted" => \A k \in Keys : pool[k] = "none"

CommandPoolInv ==
    /\ CommandInv
    /\ TypedInv
    /\ main \in MainState
    /\ thread \in [Commanders -> CommandThreadState]
    /\ JoinInv
    /\ MainInv
    /\ PassedInv
    /\ NobodyInDeletedPool
    /\ cnt = Cardinality(Counted)

-----------------------------------------------------------------------------
(* A step of the program is one of the cluster, or the death of the process *)

LEMMA PoolKeepsCommandInv ==
    ASSUME CommandPoolInv, [CommandPoolNext]_commandPoolVars
    PROVE  CommandInv' /\ TypedInv'
<1> USE ThreadsAssumption DEF Commanders
<1>0. CommandInv /\ TypedInv
  BY DEF CommandPoolInv
<1>1. CASE UNCHANGED commandVars
  BY <1>0, <1>1, CommandInvStep, TypedStep
<1>2. CASE CommandNext
  BY <1>0, <1>2, CommandInvStep, TypedStep
<1>3. CASE ~crashed /\ (Create \/ Delete)
  BY <1>2, <1>3 DEF Create, Delete, CommandNext, CommandStep
<1>4. ASSUME ~crashed, NEW t \in Commanders, Spawn(t) \/ Command(t) PROVE CommandNext
  BY <1>4 DEF Spawn, Command, CommandNext
<1>5. ASSUME ~crashed, NEW t \in Threads, WakeSpuriously(t) PROVE CommandNext
  BY <1>5 DEF CommandNext
<1>6. ASSUME NEW t \in Commanders, Abort(t) PROVE CommandInv' /\ TypedInv'
  <2>1. UNCHANGED <<cmd, reply, broken, ready, moved, pc, key, leaked>>
    BY <1>6 DEF Abort, CallerCrash, cmdVars
  <2>2. IInv'
    BY <1>0, <1>6, StutterStep DEF Abort, CallerCrash, CommandInv
  <2>. QED BY <1>0, <2>1, <2>2 DEF CommandInv, HostPhaseInv, BaseConnectionsReturn, TypedInv
<1>7. ASSUME NEW t \in Commanders, Count(t) \/ Join PROVE UNCHANGED commandVars
  BY <1>7 DEF Count, Join
<1>8. CASE Join
  BY <1>1, <1>8 DEF Join
<1>. QED BY <1>1, <1>2, <1>3, <1>4, <1>5, <1>6, <1>7, <1>8
         DEF CommandPoolNext, commandPoolVars

-----------------------------------------------------------------------------
(* The main thread                                                         *)

\* createCluster: only the owner moves, and pools of slots enter the map.
LEMMA CreateStep ==
    ASSUME CommandPoolInv, Create
    PROVE  JoinInv' /\ MainInv' /\ PassedInv' /\ NobodyInDeletedPool'
<1>0. /\ pc \in [Threads -> ThreadState] /\ key \in [Threads -> Keys \cup {NoKey}]
      /\ cmd \in [Threads -> Phase] /\ pool \in [Keys -> PoolState] /\ Owner \in Threads
      /\ main = "create" /\ ~ready /\ cmd[Owner] = "idle" /\ pc[Owner] \in {"out", "fill"}
      /\ pc[Owner] = "fill" => key[Owner] \in Slots
      /\ \A t \in Commanders : thread[t] = "unborn" /\ pc[t] = "out" /\ cmd[t] = "idle"
      /\ \A k \in Keys : pool[k] # "orphan"
      /\ thread' = thread /\ (main' = IF ready' THEN "run" ELSE main)
      /\ Slots \cap Hosts = {} /\ ready \in BOOLEAN
  BY ThreadsAssumption, KeysAssumption
     DEF CommandPoolInv, CommandInv, TypedInv, IInv, TypeOK, JoinInv, MainInv, PassedInv, Create
<1>1. ASSUME \A t \in Commanders : pc'[t] = "out" /\ cmd'[t] = "idle",
             cmd'[Owner] = "idle", pc'[Owner] \in {"out", "fill"},
             ready' => pc'[Owner] = "out", ready' \in BOOLEAN,
             pc'[Owner] = "fill" => key'[Owner] \in Slots,
             \A k \in Keys : pool'[k] # "orphan"
      PROVE  JoinInv' /\ MainInv' /\ PassedInv' /\ NobodyInDeletedPool'
  <2>1. JoinInv' /\ MainInv'
    BY <1>0, <1>1 DEF JoinInv, MainInv
  <2>2. main' # "deleted" /\ pc'[Owner] \notin Draining \cup {"between"}
    BY <1>0, <1>1 DEF Draining
  <2>3. PassedInv'
    BY <1>1, <2>2 DEF PassedInv
  <2>4. \A t \in Threads : pc'[t] # "dangling"
    BY <1>1 DEF Commanders
  <2>. QED BY <2>1, <2>3, <2>4 DEF NobodyInDeletedPool
<1>2. CASE InitReady
  BY <1>0, <1>1, <1>2 DEF InitReady, poolVars
<1>3. CASE \E s \in Slots : InitInsert(s)
  <2>1. PICK s \in Slots : InitInsert(s)
    BY <1>3
  <2>2. /\ pc' = [pc EXCEPT ![Owner] = "fill"] /\ key' = [key EXCEPT ![Owner] = s]
        /\ pool' = [pool EXCEPT ![s] = "live"] /\ UNCHANGED <<cmd, ready>>
    BY <2>1 DEF InitInsert, InsertSlots, cmdVars
  <2>. QED BY <1>0, <1>1, <2>2 DEF Commanders
<1>4. CASE Connect(Owner)
  BY <1>0, <1>1, <1>4 DEF Connect, FillConnect
<1>5. CASE ConnectFails(Owner)
  BY <1>0, <1>1, <1>5 DEF ConnectFails, FillFail, Throw, Commanders
<1>6. CASE InContainer(Owner)
  <2>1. FillDone(Owner) /\ UNCHANGED <<cmd, ready, pool>>
    BY <1>0, <1>6 DEF InContainer, Retest, Notify, FillDone, cmdVars
  <2>2. pc' = [pc EXCEPT ![Owner] = "out"]
    BY <1>0, <2>1 DEF FillDone
  <2>. QED BY <1>0, <1>1, <2>1, <2>2 DEF Commanders
<1>. QED BY <1>2, <1>3, <1>4, <1>5, <1>6 DEF Create, Construct

\* While the owner deletes, nobody else is in the container.
LEMMA DeletesAlone ==
    ASSUME CommandPoolInv, main = "delete"
    PROVE  /\ \A t \in Threads \ {Owner} : pc[t] = "out" /\ cmd[t] = "idle"
           /\ \A t \in Commanders : thread[t] = "counted"
           /\ pc \in [Threads -> ThreadState] /\ key \in [Threads -> Keys \cup {NoKey}]
           /\ pool \in [Keys -> PoolState] /\ Owner \in Threads
           /\ ready /\ cmd[Owner] = "idle" /\ pc[Owner] \in Draining \cup {"out", "between"}
           /\ pc[Owner] \in Draining => key[Owner] \in Keys
           /\ pc[Owner] \notin Draining => \A k \in Keys : pool[k] # "null"
           /\ Slots \subseteq Nat /\ Hosts \subseteq Nat /\ Slots \cap Hosts = {}
<1>1. \A t \in Commanders : thread[t] = "counted" /\ pc[t] = "out" /\ cmd[t] = "idle"
  BY DEF CommandPoolInv, JoinInv
<1>2. pc[Owner] \in Draining => key[Owner] \in Keys
  BY ThreadsAssumption DEF CommandPoolInv, CommandInv, IInv, PlaceInv, Draining
<1>. QED BY <1>1, <1>2, ThreadsAssumption, KeysAssumption
         DEF CommandPoolInv, CommandInv, IInv, TypeOK, NullInv, MainInv, Commanders

\* disconnect starts with one of the maps.
LEMMA DeleteStarts ==
    ASSUME CommandPoolInv, main = "delete", DisconnectNodes \/ DisconnectHosts,
           main' = IF pc'[Owner] = "out" THEN "deleted" ELSE main
    PROVE  /\ PassedInv'
           /\ pc'[Owner] \in Draining \cup {"out", "between"}
           /\ \A t \in Threads \ {Owner} : pc'[t] = pc[t]
<1>0. /\ pc \in [Threads -> ThreadState] /\ key \in [Threads -> Keys \cup {NoKey}]
      /\ Owner \in Threads /\ pool' = pool /\ pc[Owner] \notin Draining
      /\ pool \in [Keys -> PoolState]
      /\ \A k \in Keys : pool[k] \notin {"null", "orphan"}
      /\ Slots \subseteq Nat /\ Hosts \subseteq Nat /\ Slots \cap Hosts = {}
  BY DeletesAlone
     DEF DisconnectNodes, DisconnectHosts, CommandPoolInv, PassedInv, Draining
<1>1. ASSUME NEW M \in {Slots, Hosts}, NEW k \in Smallest(InMap(M)), DrainFrom(k),
             M = Hosts => \A s \in Slots : pool[s] = "none"
      PROVE  /\ PassedInv' /\ pc'[Owner] = "drain"
             /\ \A t \in Threads \ {Owner} : pc'[t] = pc[t]
  <2>1. /\ k \in M /\ k \in Keys /\ pc' = [pc EXCEPT ![Owner] = "drain"]
        /\ key' = [key EXCEPT ![Owner] = k] /\ \A j \in InMap(M) : k <= j
    BY <1>1 DEF Smallest, InMap, DrainFrom, Keys
  <2>2. MapOf(k) = M
    BY <1>0, <2>1 DEF MapOf
  <2>3. \A j \in M : j < k => pool[j] # "live"
    BY <1>0, <2>1 DEF InMap, Keys
  <2>4. k \in Hosts => M = Hosts
    BY <1>0, <2>1
  <2>5. key'[Owner] = k /\ pc'[Owner] = "drain" /\ main' = "delete"
    BY <1>0, <2>1
  <2>. QED BY <1>0, <1>1, <2>1, <2>2, <2>3, <2>4, <2>5 DEF PassedInv, Draining
<1>2. CASE \E k \in Smallest(InMap(Slots)) : DisconnectNodes /\ DrainFrom(k)
  BY <1>0, <1>1, <1>2 DEF Draining
<1>3. CASE DisconnectNodes /\ InMap(Slots) = {} /\ pc' = [pc EXCEPT ![Owner] = "between"]
  <2>1. \A s \in Slots : pool[s] = "none"
    BY <1>0, <1>3 DEF InMap, Keys, PoolState
  <2>2. pc'[Owner] = "between" /\ main' = "delete"
    BY <1>0, <1>3
  <2>. QED BY <1>0, <1>3, <2>1, <2>2 DEF PassedInv, Draining
<1>4. ASSUME DisconnectHosts PROVE \A s \in Slots : pool[s] = "none"
  BY <1>4 DEF DisconnectHosts, CommandPoolInv, PassedInv
<1>5. CASE \E k \in Smallest(InMap(Hosts)) : DisconnectHosts /\ DrainFrom(k)
  BY <1>0, <1>1, <1>4, <1>5 DEF Draining
<1>6. CASE DisconnectHosts /\ InMap(Hosts) = {} /\ pc' = [pc EXCEPT ![Owner] = "out"]
  <2>1. \A k \in Keys : pool[k] = "none"
    BY <1>0, <1>4, <1>6 DEF InMap, Keys, PoolState
  <2>2. pc'[Owner] = "out"
    BY <1>0, <1>6
  <2>. QED BY <1>0, <1>6, <2>1, <2>2 DEF PassedInv, Draining
<1>. QED BY <1>2, <1>3, <1>5, <1>6 DEF DisconnectNodes, DisconnectHosts

\* It pulls connections, or sleeps until one comes back.
LEMMA DeletePulls ==
    ASSUME CommandPoolInv, main = "delete", DrainPull \/ DrainRetest,
           main' = IF pc'[Owner] = "out" THEN "deleted" ELSE main
    PROVE  /\ PassedInv'
           /\ pc'[Owner] \in Draining \cup {"out", "between"}
           /\ \A t \in Threads \ {Owner} : pc'[t] = pc[t]
<1>0. pc \in [Threads -> ThreadState] /\ Owner \in Threads
  BY DeletesAlone
<1>1. /\ UNCHANGED <<pool, key>> /\ pc[Owner] \in Draining
      /\ \/ pc' = pc
         \/ \E p \in Draining : pc' = [pc EXCEPT ![Owner] = p]
  BY DEF DrainPull, DrainRetest, Draining
<1>2. pc'[Owner] \in Draining /\ \A t \in Threads \ {Owner} : pc'[t] = pc[t]
  BY <1>0, <1>1
<1>3. main' = "delete"
  BY <1>2 DEF Draining
<1>4. PassedInv'
  BY <1>1, <1>2, <1>3 DEF CommandPoolInv, PassedInv, Draining
<1>. QED BY <1>2, <1>4

\* A pool is deleted: nobody is inside, and the iterator moves on or has
\* passed all.
LEMMA DeleteMovesOn ==
    ASSUME CommandPoolInv, main = "delete", DrainNext,
           main' = IF pc'[Owner] = "out" THEN "deleted" ELSE main
    PROVE  /\ PassedInv'
           /\ pc'[Owner] \in Draining \cup {"out", "between"}
           /\ \A t \in Threads \ {Owner} : pc'[t] = pc[t]
<1> DEFINE k == key[Owner]
           M == MapOf(k)
           later == {j \in InMap(M) : j > k}
<1>0. /\ pc \in [Threads -> ThreadState] /\ key \in [Threads -> Keys \cup {NoKey}]
      /\ pool \in [Keys -> PoolState] /\ Owner \in Threads
      /\ Slots \subseteq Nat /\ Hosts \subseteq Nat /\ Slots \cap Hosts = {}
      /\ pc[Owner] = "drain" /\ k \in Keys
  BY DeletesAlone DEF DrainNext, Draining
<1>1. /\ \A j \in Keys : pool[j] # "orphan"
      /\ \A j \in M : j < k => pool[j] # "live"
      /\ k \in Hosts => \A s \in Slots : pool[s] = "none"
  BY <1>0 DEF CommandPoolInv, PassedInv, Draining
<1>2. /\ k \in M /\ M \subseteq Keys /\ M \subseteq Nat
      /\ (M = Slots /\ k \in Slots) \/ (M = Hosts /\ k \in Hosts /\ k \notin Slots)
  BY <1>0 DEF MapOf, Keys
<1>3. \A t \in Threads \ {Owner} : t \notin Inside(k)
  BY DeletesAlone DEF Inside, Waiting, Awake, Notifying
<1>4. \A stage :
        LET p == [t \in Threads |->
                    IF t = Owner THEN stage
                    ELSE IF t # Owner /\ t \in Inside(k) THEN "dangling" ELSE pc[t]]
        IN  p[Owner] = stage /\ \A t \in Threads \ {Owner} : p[t] = pc[t]
  BY <1>0, <1>3
<1>5. CASE later # {}
  <2>1. PICK j \in Smallest(later) : /\ pool' = [pool EXCEPT ![k] = "null"]
                                     /\ key' = [key EXCEPT ![Owner] = j]
    BY <1>5 DEF DrainNext
  <2>2. pc'[Owner] = "drain" /\ \A t \in Threads \ {Owner} : pc'[t] = pc[t]
    BY <1>4, <1>5 DEF DrainNext
  <2>3. j \in M /\ j \in Keys /\ j > k /\ \A i \in later : j <= i
    BY <1>2, <2>1 DEF Smallest, InMap
  <2>4. MapOf(j) = M /\ (j \in Hosts => k \in Hosts)
    BY <1>0, <1>2, <2>3 DEF MapOf
  <2>5. \A i \in M : i < j => pool'[i] # "live"
    <3>1. SUFFICES ASSUME NEW i \in M, i < j, i # k PROVE pool[i] # "live"
      BY <1>0, <1>2, <2>1
    <3>2. CASE i < k
      BY <1>1, <3>2
    <3>3. CASE i > k
      BY <1>2, <2>3, <3>1, <3>3 DEF InMap
    <3>. QED BY <1>2, <3>1, <3>2, <3>3
  <2>6. key'[Owner] = j /\ \A i \in Keys : i # k => pool'[i] = pool[i]
    BY <1>0, <2>1
  <2>7. pool'[k] = "null" /\ main' = "delete"
    BY <1>0, <2>1, <2>2
  <2>8. \A s \in Slots : j \in Hosts => s # k
    BY <1>0, <2>4
  <2>. QED BY <1>1, <2>2, <2>4, <2>5, <2>6, <2>7, <2>8 DEF PassedInv, Draining, Keys
<1>6. CASE later = {}
  <2>1. pool' = [j \in Keys |-> IF j \notin M THEN pool[j]
                                ELSE IF j = k \/ pool[j] = "null" THEN "none"
                                ELSE IF pool[j] = "live" THEN "orphan" ELSE pool[j]]
    BY <1>6 DEF DrainNext, Smallest
  <2>2. /\ pc'[Owner] = IF M = Slots THEN "between" ELSE "out"
        /\ \A t \in Threads \ {Owner} : pc'[t] = pc[t]
    BY <1>4, <1>6 DEF DrainNext, Smallest
  <2>3. \A j \in M : j # k => pool[j] # "live"
    <3>. SUFFICES ASSUME NEW j \in M, j # k, pool[j] = "live" PROVE FALSE
      OBVIOUS
    <3>1. ~(j < k)
      BY <1>1
    <3>2. j > k /\ j \in InMap(M)
      BY <1>2, <3>1 DEF InMap
    <3>. QED BY <1>6, <3>2
  <2>4. \A j \in M : pool'[j] = "none"
    BY <1>0, <1>1, <1>2, <2>1, <2>3 DEF PoolState
  <2>5. \A j \in Keys : j \notin M => pool'[j] = pool[j]
    BY <2>1
  <2>6. CASE M = Slots
    BY <1>1, <2>2, <2>4, <2>5, <2>6 DEF PassedInv, Draining
  <2>7. CASE M # Slots
    <3>1. M = Hosts /\ \A j \in Keys : pool'[j] = "none"
      BY <1>0, <1>1, <1>2, <2>4, <2>5, <2>7 DEF Keys
    <3>. QED BY <2>2, <2>7, <3>1 DEF PassedInv, Draining
  <2>. QED BY <2>2, <2>6, <2>7
<1>. QED BY <1>5, <1>6

\* The cluster is deleted.
LEMMA DeleteStep ==
    ASSUME CommandPoolInv, Delete
    PROVE  JoinInv' /\ MainInv' /\ PassedInv' /\ NobodyInDeletedPool'
<1>0. /\ main = "delete" /\ thread' = thread
      /\ main' = IF pc'[Owner] = "out" THEN "deleted" ELSE main
  BY DEF Delete
<1>1. Disconnect
  BY <1>0, DeletesAlone
     DEF Delete, InContainer, Retest, Notify, FillDone, Draining
<1>2. /\ PassedInv'
      /\ pc'[Owner] \in Draining \cup {"out", "between"}
      /\ \A t \in Threads \ {Owner} : pc'[t] = pc[t]
  BY <1>0, <1>1, DeleteStarts, DeletePulls, DeleteMovesOn DEF Disconnect
<1>3. UNCHANGED <<cmd, ready>>
  BY <1>1 DEF Disconnect, cmdVars
<1>4. JoinInv' /\ MainInv'
  BY <1>0, <1>2, <1>3, DeletesAlone DEF JoinInv, MainInv, Commanders
<1>5. NobodyInDeletedPool'
  <2>1. pc'[Owner] # "dangling"
    BY <1>2 DEF Draining
  <2>2. \A t \in Threads \ {Owner} : pc'[t] = "out"
    BY <1>0, <1>2, DeletesAlone
  <2>. QED BY <2>1, <2>2 DEF NobodyInDeletedPool
<1>. QED BY <1>2, <1>4, <1>5

-----------------------------------------------------------------------------
(* The command threads                                                     *)

\* A command step of thread t: the others stay outside if they are, nobody is
\* left in a deleted pool, and the only pools that change are new ones.
LEMMA ThreadMoves ==
    ASSUME CommandPoolInv, NEW t \in Threads,
           CommandStep(t) \/ WakeSpuriously(t) \/ \E s \in Slots : Begin(t, s)
    PROVE  /\ \A u \in Threads \ {t} :
                cmd'[u] = cmd[u] /\ (pc[u] = "out" => pc'[u] = "out")
           /\ \A u \in Threads : pc'[u] # "dangling"
           /\ ready' = ready
           /\ \A k \in Keys : pool'[k] = pool[k] \/ pool'[k] = "live"
<1>0. /\ pc \in [Threads -> ThreadState] /\ pool \in [Keys -> PoolState]
      /\ cmd \in [Threads -> Phase] /\ \A u \in Threads : pc[u] # "dangling"
  BY DEF CommandPoolInv, CommandInv, IInv, TypeOK, NobodyInDeletedPool
<1> USE DEF Goto, Throw, cmdVars
<1>1. CASE \E s \in Slots : Begin(t, s)
  BY <1>0, <1>1 DEF Begin, GetConnection, Pull
<1>2. CASE Query(t) \/ ResendMoved(t)
  BY <1>0, <1>2 DEF Query, ResendMoved, poolVars
<1>3. CASE Check(t)
  BY <1>0, <1>3 DEF Check, CallerCrash, poolVars
<1>4. CASE GiveBackBase(t) \/ GiveBackHost(t)
  BY <1>0, <1>4 DEF GiveBackBase, GiveBackHost, Release
<1>5. CASE \E h \in Hosts : Redirect(t, h)
  BY <1>0, <1>5 DEF Redirect, InsertKnownHost, InsertNewHost, Pull
<1>6. CASE HostBroken(t) \/ Asking(t) \/ Resend(t)
  BY <1>0, <1>6 DEF HostBroken, Asking, Resend, CallerCrash, Drop, poolVars
<1>7. CASE InContainer(t)
  BY <1>0, <1>7 DEF InContainer, Retest, Notify, FillDone, Pull, Waiting
<1>8. CASE Connect(t) \/ ConnectFails(t)
  BY <1>0, <1>8 DEF Connect, ConnectFails, FillConnect, FillFail
<1>9. CASE WakeSpuriously(t)
  BY <1>0, <1>9 DEF WakeSpuriously, SpuriousWake
<1>. QED BY <1>1, <1>2, <1>3, <1>4, <1>5, <1>6, <1>7, <1>8, <1>9 DEF CommandStep

\* Only a thread that is started, or has a command, moves while the cluster is
\* used.
LEMMA CommanderStep ==
    ASSUME CommandPoolInv, NEW t \in Commanders, Spawn(t) \/ Command(t)
    PROVE  /\ JoinInv' /\ MainInv' /\ PassedInv' /\ NobodyInDeletedPool'
           /\ thread' \in [Commanders -> CommandThreadState]
           /\ Counted' = Counted
<1>0. /\ thread \in [Commanders -> CommandThreadState] /\ t \in Threads /\ t # Owner
      /\ main \in MainState /\ JoinInv /\ MainInv /\ PassedInv
  BY DEF CommandPoolInv, Commanders
<1>1. CommandStep(t) \/ \E s \in Slots : Begin(t, s)
  BY DEF Spawn, Command
<1>2. main = "run" /\ main' = main
  <2>1. CASE Spawn(t)
    BY <2>1 DEF Spawn
  <2>2. CASE Command(t)
    BY <1>0, <2>2 DEF Command, JoinInv, MainState, mainVars
  <2>. QED BY <2>1, <2>2
<1>3. /\ thread[t] # "counted" /\ thread'[t] = "command"
      /\ \A u \in Commanders \ {t} : thread'[u] = thread[u]
      /\ thread' \in [Commanders -> CommandThreadState]
  BY <1>0 DEF Spawn, Command, mainVars, CommandThreadState
<1>4. /\ \A u \in Threads \ {t} :
           cmd'[u] = cmd[u] /\ (pc[u] = "out" => pc'[u] = "out")
      /\ \A u \in Threads : pc'[u] # "dangling"
      /\ ready' = ready
      /\ \A k \in Keys : pool'[k] = pool[k] \/ pool'[k] = "live"
  BY <1>0, <1>1, ThreadMoves
<1>5. Owner \in Threads \ {t}
  BY <1>0, ThreadsAssumption
<1>6. JoinInv'
  BY <1>0, <1>2, <1>3, <1>4 DEF JoinInv, Commanders
<1>7. MainInv'
  BY <1>0, <1>2, <1>4, <1>5 DEF MainInv
<1>8. PassedInv'
  <2>1. pc'[Owner] = "out"
    BY <1>0, <1>2, <1>4, <1>5 DEF MainInv
  <2>. QED BY <1>0, <1>2, <1>4, <2>1 DEF PassedInv, Draining
<1>9. Counted' = Counted
  BY <1>3 DEF Counted
<1>. QED BY <1>3, <1>4, <1>6, <1>7, <1>8, <1>9 DEF NobodyInDeletedPool

\* A thread that wakes up without a notification.
LEMMA SpuriousWakeStep ==
    ASSUME CommandPoolInv, NEW t \in Threads, WakeSpuriously(t), UNCHANGED mainVars
    PROVE  JoinInv' /\ MainInv' /\ PassedInv' /\ NobodyInDeletedPool'
<1>0. /\ pc \in [Threads -> ThreadState] /\ Owner \in Threads
      /\ JoinInv /\ MainInv /\ PassedInv /\ NobodyInDeletedPool
      /\ UNCHANGED <<main, thread, cnt, cmd, ready, pool, key>>
  BY ThreadsAssumption
     DEF CommandPoolInv, CommandInv, IInv, TypeOK, WakeSpuriously, SpuriousWake,
         cmdVars, mainVars
<1>1. /\ pc[t] \in {"wait", "drainWait"}
      /\ pc' = [pc EXCEPT ![t] = IF @ = "wait" THEN "woken" ELSE "drainWoken"]
  BY DEF WakeSpuriously, SpuriousWake
<1>2. \A u \in Threads : \/ pc'[u] = pc[u]
                         \/ pc[u] = "wait" /\ pc'[u] = "woken"
                         \/ pc[u] = "drainWait" /\ pc'[u] = "drainWoken"
  BY <1>0, <1>1
<1>3. JoinInv'
  BY <1>0, <1>2 DEF JoinInv, Commanders
<1>4. MainInv'
  BY <1>0, <1>2 DEF MainInv, Draining
<1>5. PassedInv'
  BY <1>0, <1>2 DEF PassedInv, Draining
<1>6. NobodyInDeletedPool'
  BY <1>0, <1>2 DEF NobodyInDeletedPool
<1>. QED BY <1>3, <1>4, <1>5, <1>6

\* A thread whose command returned "OK" counts, and ends.
LEMMA CountStep ==
    ASSUME CommandPoolInv, NEW t \in Commanders, Count(t), IsFiniteSet(Threads)
    PROVE  CommandPoolInv'
<1>0. /\ thread \in [Commanders -> CommandThreadState] /\ thread[t] = "command"
      /\ main' = main /\ UNCHANGED commandVars
      /\ thread' = [thread EXCEPT ![t] = "counted"] /\ cnt' = cnt + 1
      /\ pc[t] = "out" /\ cmd[t] = "idle"
  BY DEF CommandPoolInv, Count
<1>1. CommandInv' /\ TypedInv'
  BY PoolKeepsCommandInv, <1>0, CommandInvStep, TypedStep DEF CommandPoolInv
<1>2. UNCHANGED <<pc, key, pool, cmd, ready>>
  BY <1>0 DEF commandVars, poolVars, cmdVars
<1>3. MainInv' /\ PassedInv' /\ NobodyInDeletedPool'
  BY <1>0, <1>2 DEF CommandPoolInv, MainInv, PassedInv, NobodyInDeletedPool
<1>4. thread' \in [Commanders -> CommandThreadState] /\ main' \in MainState
  BY <1>0 DEF CommandPoolInv, CommandThreadState
<1>5. JoinInv'
  BY <1>0, <1>2 DEF CommandPoolInv, JoinInv
<1>6. Counted' = Counted \cup {t} /\ t \notin Counted
  BY <1>0 DEF Counted
<1>7. IsFiniteSet(Counted)
  BY FS_Subset DEF Counted, Commanders
<1>8. cnt' = Cardinality(Counted')
  BY <1>0, <1>6, <1>7, FS_AddElement DEF CommandPoolInv
<1>. QED BY <1>1, <1>3, <1>4, <1>5, <1>8 DEF CommandPoolInv

\* The process dies: nothing else changes.
LEMMA AbortStep ==
    ASSUME CommandPoolInv, [CommandPoolNext]_commandPoolVars, NEW t \in Commanders, Abort(t)
    PROVE  CommandPoolInv'
<1>1. UNCHANGED <<pc, key, pool, cmd, ready, main, thread, cnt>>
  BY DEF Abort, CallerCrash, cmdVars, mainVars
<1>. QED BY <1>1, PoolKeepsCommandInv
         DEF CommandPoolInv, JoinInv, MainInv, PassedInv, NobodyInDeletedPool, Counted

\* The last join: every thread is outside the container for good.
LEMMA JoinStep ==
    ASSUME CommandPoolInv, [CommandPoolNext]_commandPoolVars, Join
    PROVE  CommandPoolInv'
<1>1. /\ main = "run" /\ main' = "delete" /\ thread' = thread /\ cnt' = cnt
      /\ \A t \in Commanders : thread[t] = "counted"
      /\ UNCHANGED <<pc, key, pool, cmd, ready>>
  BY DEF Join, commandVars, poolVars, cmdVars
<1>2. JoinInv' /\ MainInv' /\ main' \in MainState
  BY <1>1 DEF CommandPoolInv, JoinInv, MainInv, MainState
<1>3. PassedInv'
  BY <1>1 DEF CommandPoolInv, PassedInv
<1>4. Counted' = Counted /\ NobodyInDeletedPool'
  BY <1>1 DEF CommandPoolInv, NobodyInDeletedPool, Counted
<1>. QED BY <1>1, <1>2, <1>3, <1>4, PoolKeepsCommandInv DEF CommandPoolInv

LEMMA CommandPoolInvStep ==
    ASSUME CommandPoolInv, [CommandPoolNext]_commandPoolVars, IsFiniteSet(Threads)
    PROVE  CommandPoolInv'
<1>1. CASE UNCHANGED commandPoolVars
  BY <1>1, PoolKeepsCommandInv
     DEF commandPoolVars, commandVars, poolVars, cmdVars, mainVars,
         CommandPoolInv, JoinInv, MainInv, PassedInv, NobodyInDeletedPool, Counted
<1>2. CASE Create
  <2>1. main' \in MainState /\ thread' = thread /\ cnt' = cnt /\ Counted' = Counted
    BY <1>2 DEF Create, CommandPoolInv, MainState, Counted
  <2>. QED BY <1>2, <2>1, CreateStep, PoolKeepsCommandInv DEF CommandPoolInv
<1>3. CASE Delete
  <2>1. main' \in MainState /\ thread' = thread /\ cnt' = cnt /\ Counted' = Counted
    BY <1>3 DEF Delete, CommandPoolInv, MainState, Counted
  <2>. QED BY <1>3, <2>1, DeleteStep, PoolKeepsCommandInv DEF CommandPoolInv
<1>4. CASE Join
  BY <1>4, JoinStep
<1>5. ASSUME NEW t \in Commanders, Spawn(t) \/ Command(t) PROVE CommandPoolInv'
  <2>1. main' = main /\ cnt' = cnt
    BY <1>5 DEF Spawn, Command, mainVars
  <2>. QED BY <1>5, <2>1, CommanderStep, PoolKeepsCommandInv DEF CommandPoolInv
<1>6. ASSUME NEW t \in Commanders, Count(t) PROVE CommandPoolInv'
  BY <1>6, CountStep
<1>7. ASSUME NEW t \in Commanders, Abort(t) PROVE CommandPoolInv'
  BY <1>7, AbortStep
<1>8. ASSUME NEW t \in Threads, WakeSpuriously(t), UNCHANGED mainVars
      PROVE  CommandPoolInv'
  <2>1. main' = main /\ thread' = thread /\ cnt' = cnt /\ Counted' = Counted
    BY <1>8 DEF mainVars, Counted
  <2>. QED BY <1>8, <2>1, SpuriousWakeStep, PoolKeepsCommandInv DEF CommandPoolInv
<1>. QED BY <1>1, <1>2, <1>3, <1>4, <1>5, <1>6, <1>7, <1>8 DEF CommandPoolNext

LEMMA InitCommandPoolInv == CommandPoolInit => CommandPoolInv
<1>. SUFFICES ASSUME CommandPoolInit PROVE CommandPoolInv
  OBVIOUS
<1>1. CommandInit
  BY DEF CommandPoolInit
<1>2. TypedInv
  BY <1>1, InitTyped
<1>3. CommandInv
  BY <1>1, InitCommandInv
<1>4. /\ pc = [t \in Threads |-> "out"] /\ cmd = [t \in Threads |-> "idle"] /\ ~ready
      /\ pool = [k \in Keys |-> "none"] /\ Owner \in Threads
      /\ main = "create" /\ thread = [t \in Commanders |-> "unborn"] /\ cnt = 0
  BY <1>1, ThreadsAssumption DEF CommandPoolInit, CommandInit, PoolInit
<1>5. JoinInv /\ MainInv /\ PassedInv /\ NobodyInDeletedPool
  BY <1>4 DEF JoinInv, MainInv, PassedInv, NobodyInDeletedPool, Commanders, Draining
<1>6. Counted = {}
  BY <1>4 DEF Counted
<1>7. main \in MainState /\ thread \in [Commanders -> CommandThreadState]
  BY <1>4 DEF MainState, CommandThreadState
<1>. QED BY <1>2, <1>3, <1>4, <1>5, <1>6, <1>7, FS_EmptySet DEF CommandPoolInv

-----------------------------------------------------------------------------
(* Theorems                                                                *)

\* The invariant of processCommandPool, for every number of command threads.
THEOREM CommandPoolInvariant ==
    ASSUME IsFiniteSet(Threads)
    PROVE  CommandPoolSpec => []CommandPoolInv
<1>1. CommandPoolInit => CommandPoolInv
  BY InitCommandPoolInv
<1>2. CommandPoolInv /\ [CommandPoolNext]_commandPoolVars => CommandPoolInv'
  BY CommandPoolInvStep
<1>. QED BY <1>1, <1>2, PTL DEF CommandPoolSpec

\* processCommandPool keeps its types; cnt is the number of the threads that
\* have ended.
THEOREM CommandPoolTypeCorrect ==
    ASSUME IsFiniteSet(Threads)
    PROVE  CommandPoolSpec => []CommandPoolTypeOK
<1>1. CommandPoolInv => CommandPoolTypeOK
  <2>. SUFFICES ASSUME CommandPoolInv PROVE CommandPoolTypeOK
    OBVIOUS
  <2>1. CommandTypeOK
    BY DEF CommandPoolInv, CommandInv, IInv, TypedInv, CommandTypeOK
  <2>2. IsFiniteSet(Counted)
    BY FS_Subset DEF Counted, Commanders
  <2>3. cnt \in Nat
    BY <2>2, FS_CardinalityType DEF CommandPoolInv
  <2>. QED BY <2>1, <2>3 DEF CommandPoolInv, CommandPoolTypeOK
<1>. QED BY <1>1, CommandPoolInvariant, PTL

\* When delete cluster_p frees a ConPool, no thread sleeps in it or has still to
\* call notify_one on it: all command threads have been joined.
THEOREM NobodyInside ==
    ASSUME IsFiniteSet(Threads)
    PROVE  CommandPoolSpec => []NobodyInDeletedPool
<1>1. CommandPoolInv => NobodyInDeletedPool
  BY DEF CommandPoolInv
<1>. QED BY <1>1, CommandPoolInvariant, PTL

\* When the destructor of the cluster is over, every pool was deleted and every
\* connection that was opened was freed, none was leaked, and cnt is the number
\* of the command threads.
THEOREM DeletedClusterSafe ==
    ASSUME IsFiniteSet(Threads)
    PROVE  CommandPoolSpec => []DeletedClusterIsEmpty
<1>1. CommandPoolInv => DeletedClusterIsEmpty
  <2>. SUFFICES ASSUME CommandPoolInv, main = "deleted" PROVE DeletedClusterIsEmpty
    BY DEF DeletedClusterIsEmpty
  <2>1. \A k \in Keys : pool[k] = "none" /\ queue[k] = <<>>
    BY DEF CommandPoolInv, CommandInv, IInv, PassedInv, DeletedPoolsUnused
  <2>2. \A t \in Threads : pc[t] = "out"
    BY DEF CommandPoolInv, JoinInv, MainInv, Commanders
  <2>3. \A t \in Threads : held[t] = NoConnection
    BY <2>2 DEF CommandPoolInv, CommandInv, IInv, PlaceInv
  <2>4. leaked = {}
    BY <2>1 DEF CommandPoolInv, CommandInv, IInv, TypeOK, LeakBlocksDisconnect, Connection
  <2>5. Counted = Commanders
    BY DEF CommandPoolInv, JoinInv, Counted
  <2>. QED BY <2>1, <2>3, <2>4, <2>5 DEF CommandPoolInv, DeletedClusterIsEmpty
<1>. QED BY <1>1, CommandPoolInvariant, PTL

-----------------------------------------------------------------------------
(* The program is a user of the container                                  *)

\* A step of the program is one of the cluster, or the death of the process.
LEMMA ProgramSendsCommands ==
    ASSUME [CommandPoolNext]_commandPoolVars
    PROVE  [CommandNext]_commandVars \/ (~crashed /\ CallerCrash)
<1> USE ThreadsAssumption DEF Commanders
<1>1. CASE UNCHANGED commandVars
  BY <1>1 DEF commandVars
<1>2. ASSUME ~crashed, Create \/ Delete PROVE CommandNext
  BY <1>2 DEF Create, Delete, CommandNext, CommandStep
<1>3. ASSUME ~crashed, NEW t \in Commanders, Spawn(t) \/ Command(t) PROVE CommandNext
  BY <1>3 DEF Spawn, Command, CommandNext
<1>4. ASSUME ~crashed, NEW t \in Threads, WakeSpuriously(t) PROVE CommandNext
  BY <1>4 DEF CommandNext
<1>5. ASSUME NEW t \in Commanders, Count(t) \/ Join PROVE UNCHANGED commandVars
  BY <1>5 DEF Count, Join
<1>6. CASE Join
  BY <1>1, <1>6 DEF Join
<1>7. ASSUME ~crashed, NEW t \in Commanders, Abort(t) PROVE CallerCrash
  BY <1>7 DEF Abort
<1>. QED BY <1>1, <1>2, <1>3, <1>4, <1>5, <1>6, <1>7 DEF CommandPoolNext, commandPoolVars

\* So it is one of the container, or does not touch it.
LEMMA ProgramStepUsesPool ==
    ASSUME [CommandPoolNext]_commandPoolVars
    PROVE  [PoolNext]_poolVars
BY ProgramSendsCommands, StepUsesPool DEF PoolNext

\* Command threads that run at the same time, and the main thread that deletes
\* the cluster behind them, use the container as it may be used.
THEOREM CommandPoolUsesPool == CommandPoolSpec => PoolSpec
<1>1. CommandPoolInit => PoolInit
  BY DEF CommandPoolInit, CommandInit
<1>2. [CommandPoolNext]_commandPoolVars => [PoolNext]_poolVars
  BY ProgramStepUsesPool
<1>. QED BY <1>1, <1>2, PTL DEF CommandPoolSpec, PoolSpec

\* So all that was shown of the container holds while they contend for its
\* pools: no two of them have one connection, disconnect deletes no pool that
\* is in use, and the pools are an allocator of connections.
THEOREM CommandPoolConnectionsSafe ==
    CommandPoolSpec => /\ []ConnectionsAccounted
                       /\ []DeletedPoolsUnused
                       /\ ImplementsAllocator
BY CommandPoolUsesPool, ConnectionsSafe, DeletionSafe, PoolImplementsAllocator, PTL

\* A command thread that waits for one of the few connections of its pool is
\* notified when one comes back, however many threads wait.
THEOREM CommandPoolWakeups ==
    ASSUME IsFiniteSet(Threads)
    PROVE  CommandPoolSpec => []NoLostWakeup
BY CommandPoolUsesPool, WakeupsSafe, PTL

\* A command thread that sleeps on an empty pool waits for another one that
\* has a connection of it or is awake in it, for any number of threads, unless
\* a connect failed or a redirection was refused.
THEOREM CommandThreadsWaitForSomebody ==
    ASSUME IsFiniteSet(Threads)
    PROVE  CommandPoolSpec => []SleepersWaitForSomebody
<1>1. CASE ConnectMayFail
  <2>1. CommandPoolInv => SleepersWaitForSomebody
    BY <1>1 DEF SleepersWaitForSomebody
  <2>. QED BY <2>1, CommandPoolInvariant, PTL
<1>2. CASE ~ConnectMayFail
  <2>1. CommandPoolInit => WaitInv /\ FullInv
    BY InitFullInv DEF CommandPoolInit
  <2>2. /\ CommandPoolInv /\ WaitInv /\ FullInv
        /\ [CommandPoolNext]_commandPoolVars
        => WaitInv' /\ FullInv'
    BY <1>2, ProgramSendsCommands, FullInvStep DEF CommandPoolInv
  <2>3. CommandPoolInv /\ WaitInv /\ FullInv => SleepersWaitForSomebody
    BY SleepersAreRight DEF CommandPoolInv
  <2>. QED BY <2>1, <2>2, <2>3, CommandPoolInvariant, PTL DEF CommandPoolSpec
<1>. QED BY <1>1, <1>2

-----------------------------------------------------------------------------
(* No null pointer                                                         *)

\* While the threads run there is a pool for every range.
RangesInv == main = "run" => \A s \in Slots : pool[s] = "live"

LEMMA RangesInvStep ==
    ASSUME CommandPoolInv, RangesInv, [CommandPoolNext]_commandPoolVars
    PROVE  RangesInv'
<1>0. pool \in [Keys -> PoolState] /\ Slots \subseteq Keys /\ Owner \in Threads
  BY ThreadsAssumption DEF CommandPoolInv, CommandInv, IInv, TypeOK, Keys
<1>1. CASE UNCHANGED <<pool, main>>
  BY <1>1 DEF RangesInv
<1>2. CASE PoolsGrow /\ main' = main
  BY <1>0, <1>2 DEF PoolsGrow, RangesInv
<1>3. CASE Create
  <2>1. main = "create" /\ ~ready /\ (main' = "run" => ready')
    BY <1>3 DEF Create, CommandPoolInv, MainInv
  <2>2. ready' = ready \/ InitReady
    BY <1>0, <1>3, OnlyDisconnectDeletes DEF Create, CommandStep
  <2>3. CASE InitReady
    BY <2>3 DEF InitReady, poolVars, RangesInv
  <2>. QED BY <2>1, <2>2, <2>3 DEF RangesInv
<1>4. CASE Join \/ Delete
  BY <1>4 DEF Join, Delete, RangesInv
<1>5. ASSUME NEW t \in Commanders, Spawn(t) \/ Command(t)
      PROVE  PoolsGrow /\ main' = main
  BY <1>5, OnlyDisconnectDeletes DEF Spawn, Command, mainVars, Commanders
<1>6. ASSUME NEW t \in Threads, WakeSpuriously(t), UNCHANGED mainVars
      PROVE  PoolsGrow /\ main' = main
  BY <1>6, OnlyDisconnectDeletes DEF mainVars
<1>7. ASSUME NEW t \in Commanders, Count(t) \/ Abort(t) PROVE UNCHANGED <<pool, main>>
  BY <1>7 DEF Count, Abort, CallerCrash, commandVars, poolVars, mainVars
<1>8. CASE UNCHANGED commandPoolVars
  BY <1>1, <1>8 DEF commandPoolVars, commandVars, poolVars, mainVars
<1>. QED BY <1>1, <1>2, <1>3, <1>4, <1>5, <1>6, <1>7, <1>8 DEF CommandPoolNext

\* No command thread finds a null pointer in the container, not even the last
\* one before the destructor starts to delete the pools, if the reply to
\* CLUSTER SLOTS names a range.
THEOREM CommandThreadsFindTheirPools ==
    ASSUME IsFiniteSet(Threads), Slots # {}
    PROVE  CommandPoolSpec => []NoNullDereference
<1>1. CommandPoolInit => RangesInv
  BY DEF CommandPoolInit, RangesInv
<1>2. CommandPoolInv /\ RangesInv /\ [CommandPoolNext]_commandPoolVars => RangesInv'
  BY RangesInvStep
<1>3. ASSUME CommandPoolInv, RangesInv PROVE NoNullDereference
  <2>. SUFFICES ASSUME main # "create", NEW t \in Commanders, thread[t] # "counted"
                PROVE  ~NullEntry(t)
    BY DEF NoNullDereference
  <2>1. main = "run" /\ t \in Threads
    BY <1>3 DEF CommandPoolInv, JoinInv, MainState, Commanders
  <2>2. \A s \in Slots : pool[s] = "live"
    BY <1>3, <2>1 DEF RangesInv
  <2>3. ASSUME NEW k \in Keys PROVE pool[k] \in {"none", "live"}
    <3>1. pool[k] \in PoolState /\ pool[k] # "orphan"
      BY <1>3 DEF CommandPoolInv, CommandInv, IInv, TypeOK, PassedInv
    <3>2. pool[k] # "null"
      BY <1>3, <2>1 DEF CommandPoolInv, CommandInv, IInv, NullInv, MainInv, Draining
    <3>. QED BY <3>1, <3>2 DEF PoolState
  <2>. QED BY <1>3, <2>1, <2>2, <2>3, EntriesFound DEF CommandPoolInv, CommandInv
<1>. QED BY <1>1, <1>2, <1>3, CommandPoolInvariant, PTL DEF CommandPoolSpec
=============================================================================
