------------------------ MODULE HttpConnectionProofs ------------------------
(***************************************************************************)
(* For any number of requests and flushes: HttpConnection keeps its types, *)
(* an operation on an open socket is guarded by a timer of its own, and    *)
(* responses go out in order.  A timer that runs late closes the socket    *)
(* under another operation, but it never takes that operation's guard.     *)
(***************************************************************************)
EXTENDS HttpConnection, TLAPS

\* How many responses have been written.
CountInv ==
    /\ answered \in {exchange - 1, exchange}
    /\ phase # "ended" => answered = exchange - 1
    /\ phase = "accepting" => exchange = 1

\* From the first read to the end there is a timer, also while a handler runs
\* and no operation is pending: the one it was started under guards its flushes.
GuardInv ==
    phase \notin {"accepting", "ended"} /\ socket = "open"
      => timer[Current] \in {"armed", "queued"}

HttpInv ==
    /\ HttpTypeOK
    /\ CountInv
    /\ GuardInv

TimerState == {"unset", "armed", "queued", "off"}

\* The timer of an operation is one of the timers.
LEMMA CurrentIsTimer == ASSUME HttpTypeOK PROVE Current \in Timer
BY HttpAssumption DEF HttpTypeOK, Current, Timer, Reading

\* Cancelling one timer and arming another.
LEMMA TimersKept ==
    ASSUME HttpTypeOK, NEW new \in Timer
    PROVE  /\ CancelAndArm(new) => timer' \in [Timer -> TimerState] /\ timer'[new] = "armed"
           /\ (timer' = [timer EXCEPT ![Current] = Cancelled(@)]) =>
                timer' \in [Timer -> TimerState]
BY CurrentIsTimer DEF HttpTypeOK, CancelAndArm, Cancelled, TimerState

\* The steps of the server that start no timer and end nothing.
LEMMA SameTimerKeeps ==
    ASSUME HttpInv, UNCHANGED <<socket, peer, surplus, exchange, answered, timer>>,
           phase \in {"spawned", "running"} \cup Writing,
           phase' \in {"running"} \cup Writing, flushes' \in 0 .. MaxFlushes,
           io' \in {"none", "pending"}, io' = "none" <=> phase' = "running"
    PROVE  HttpInv'
<1>1. HttpTypeOK'
  BY DEF HttpInv, HttpTypeOK, Phase, Reading, Writing
<1>2. Current' = Current
  BY DEF Current, Reading, Writing
<1>. QED BY <1>1, <1>2 DEF HttpInv, CountInv, GuardInv, Writing

LEMMA EndKeeps ==
    ASSUME HttpInv, End, UNCHANGED <<socket, peer>>, answered' \in {exchange - 1, exchange}
    PROVE  HttpInv'
<1>1. timer' \in [Timer -> TimerState]
  BY CurrentIsTimer, TimersKept DEF HttpInv, End
<1>2. exchange \in 1 .. MaxExchanges /\ answered' \in 0 .. exchange
  BY HttpAssumption DEF HttpInv, HttpTypeOK
<1>3. HttpTypeOK'
  BY <1>1, <1>2 DEF HttpInv, HttpTypeOK, End, Phase, Reading, Writing, TimerState
<1>. QED BY <1>2, <1>3 DEF HttpInv, CountInv, GuardInv, End

\* A phase begins under a new timer.
LEMMA BeginKeeps ==
    ASSUME HttpInv, NEW n \in 1 .. MaxExchanges, NEW p \in Reading \cup {"response"},
           CancelAndArm(<<p, n>>), exchange' = n, answered' = n - 1,
           p \in Reading => phase' = p /\ io' = "pending",
           p = "response" => phase' = "spawned" /\ io' = "none",
           flushes' \in 0 .. MaxFlushes, surplus' \in BOOLEAN, UNCHANGED <<socket, peer>>
    PROVE  HttpInv'
<1>1. <<p, n>> \in Timer
  BY DEF Timer, Reading
<1>2. timer' \in [Timer -> TimerState] /\ timer'[<<p, n>>] = "armed"
  BY <1>1, TimersKept DEF HttpInv
<1>3. Current' = <<p, n>> /\ phase' \in Reading \cup {"spawned"}
  BY DEF Current, Reading
<1>4. answered' \in 0 .. n /\ answered' \in {n - 1, n}
  BY HttpAssumption
<1>5. HttpTypeOK'
  BY <1>2, <1>3, <1>4 DEF HttpInv, HttpTypeOK, Phase, Reading, Writing, TimerState
<1>6. CountInv'
  BY <1>3, <1>4 DEF CountInv, Reading
<1>7. GuardInv'
  BY <1>2, <1>3 DEF GuardInv
<1>. QED BY <1>5, <1>6, <1>7 DEF HttpInv

LEMMA AcceptKeeps == ASSUME HttpInv, Accept PROVE HttpInv'
<1>1. /\ exchange \in 1 .. MaxExchanges /\ <<"header", 1>> \in Timer /\ timer \in [Timer -> TimerState]
  BY HttpAssumption DEF HttpInv, HttpTypeOK, Timer, TimerState
<1>2. timer' \in [Timer -> TimerState] /\ timer'[<<"header", 1>>] = "armed"
  BY <1>1 DEF Accept, TimerState
<1>3. HttpTypeOK'
  BY <1>2 DEF HttpInv, HttpTypeOK, Accept, Phase, Reading, Writing, TimerState
<1>4. phase = "accepting" => exchange = 1
  BY DEF HttpInv, CountInv
<1>. QED BY <1>2, <1>3, <1>4 DEF HttpInv, CountInv, GuardInv, Accept, Current, Reading

LEMMA ReadKeeps == ASSUME HttpInv, HeaderRead \/ ContentRead PROVE HttpInv'
<1>1. /\ phase \in Reading /\ UNCHANGED <<socket, peer, answered>> /\ answered = exchange - 1
      /\ exchange \in 1 .. MaxExchanges /\ flushes \in 0 .. MaxFlushes
  BY DEF HeaderRead, ContentRead, Reading, HttpInv, CountInv, HttpTypeOK
<1>2. CASE End
  BY <1>1, <1>2, EndKeeps
<1>3. CASE Respond
  BY <1>1, <1>3, BeginKeeps DEF Respond, Reading
<1>4. CASE /\ phase' = "content" /\ io' = "pending" /\ surplus' \in BOOLEAN
           /\ CancelAndArm(<<"content", exchange>>) /\ UNCHANGED <<exchange, flushes>>
  BY <1>1, <1>4, BeginKeeps DEF Reading
<1>. QED BY <1>2, <1>3, <1>4 DEF HeaderRead, ContentRead

LEMMA HandlerKeeps ==
    ASSUME HttpInv, StartHandler \/ Flush \/ Flushed \/ HandlerThrows \/ HandlerReturns
    PROVE  HttpInv'
<1>1. answered \in {exchange - 1, exchange} /\ flushes \in 0 .. MaxFlushes /\ MaxFlushes \in Nat
  BY HttpAssumption DEF HttpInv, CountInv, HttpTypeOK
<1>2. CASE End /\ UNCHANGED <<socket, peer, answered>>
  BY <1>1, <1>2, EndKeeps
<1>3. CASE StartHandler
  <2>1. io = "none"
    BY <1>3 DEF StartHandler, HttpInv, HttpTypeOK, Reading, Writing
  <2>. QED BY <1>1, <1>3, <2>1, SameTimerKeeps DEF StartHandler
<1>4. CASE Flush
  <2>1. flushes' \in 0 .. MaxFlushes
    BY <1>1, <1>4 DEF Flush
  <2>. QED BY <1>4, <2>1, SameTimerKeeps DEF Flush, Writing
<1>5. CASE HandlerReturns
  BY <1>1, <1>5, SameTimerKeeps DEF HandlerReturns, Writing
<1>6. CASE Flushed
  BY <1>1, <1>2, <1>6, SameTimerKeeps DEF Flushed, Writing
<1>7. CASE HandlerThrows
  BY <1>2, <1>7 DEF HandlerThrows
<1>. QED BY <1>3, <1>4, <1>5, <1>6, <1>7

LEMMA WrittenKeeps == ASSUME HttpInv, Written PROVE HttpInv'
<1>1. /\ UNCHANGED <<socket, peer>> /\ answered = exchange - 1
      /\ exchange \in 1 .. MaxExchanges /\ 0 \in 0 .. MaxFlushes /\ surplus \in BOOLEAN
  BY HttpAssumption DEF Written, HttpInv, CountInv, HttpTypeOK
<1>2. CASE End /\ answered' \in {answered, answered + 1}
  BY <1>1, <1>2, EndKeeps
<1>3. CASE /\ exchange < MaxExchanges /\ answered' = answered + 1
           /\ phase' = "header" /\ io' = "pending"
           /\ exchange' = exchange + 1 /\ flushes' = 0 /\ UNCHANGED surplus
           /\ CancelAndArm(<<"header", exchange + 1>>)
  <2>1. exchange + 1 \in 1 .. MaxExchanges /\ answered' = (exchange + 1) - 1
    BY <1>1, <1>3, HttpAssumption
  <2>. QED BY <1>1, <1>3, <2>1, BeginKeeps DEF Reading
<1>. QED BY <1>2, <1>3 DEF Written

\* The network and the client.
LEMMA NetworkKeeps == ASSUME HttpInv, IoDone \/ IoFails \/ PeerLeaves PROVE HttpInv'
<1>1. /\ UNCHANGED <<phase, socket, surplus, exchange, flushes, answered, timer>>
      /\ peer' \in {"there", "gone"}
      /\ io' = io \/ (io = "pending" /\ io' \in {"ok", "failed"})
  BY DEF IoDone, IoFails, PeerLeaves, Complete, HttpInv, HttpTypeOK
<1>2. HttpTypeOK'
  BY <1>1 DEF HttpInv, HttpTypeOK
<1>. QED BY <1>1, <1>2 DEF HttpInv, CountInv, GuardInv, Current

\* A timer that expires still guards; one that is handled closes the socket.
LEMMA TimerKeeps ==
    ASSUME HttpInv, NEW t \in Timer, Expire(t) \/ Timeout(t)
    PROVE  HttpInv'
<1>1. /\ UNCHANGED <<phase, io, peer, surplus, exchange, flushes, answered>>
      /\ \/ timer' = [timer EXCEPT ![t] = "queued"] /\ socket' = socket
         \/ timer' = [timer EXCEPT ![t] = "off"] /\ socket' = "closed"
  BY DEF Expire, Timeout
<1>2. timer \in [Timer -> TimerState]
  BY DEF HttpInv, HttpTypeOK, TimerState
<1>3. HttpTypeOK'
  <2>1. timer' \in [Timer -> TimerState]
    BY <1>1, <1>2 DEF TimerState
  <2>. QED BY <1>1, <2>1 DEF HttpInv, HttpTypeOK, TimerState
<1>4. GuardInv'
  <2>1. Current' = Current /\ Current \in Timer
    BY <1>1, CurrentIsTimer DEF Current, HttpInv
  <2>. QED BY <1>1, <1>2, <2>1 DEF HttpInv, GuardInv
<1>. QED BY <1>1, <1>3, <1>4 DEF HttpInv, CountInv

LEMMA HttpInvStep == HttpInv /\ [HttpNext]_httpVars => HttpInv'
<1>. SUFFICES ASSUME HttpInv, [HttpNext]_httpVars PROVE HttpInv'
  OBVIOUS
<1>1. CASE UNCHANGED httpVars
  BY <1>1 DEF httpVars, HttpInv, HttpTypeOK, CountInv, GuardInv, Current
<1>2. CASE Server
  BY <1>2, AcceptKeeps, ReadKeeps, HandlerKeeps, WrittenKeeps DEF Server
<1>3. CASE IoDone \/ IoFails \/ PeerLeaves \/ \E t \in Timer : Expire(t) \/ Timeout(t)
  BY <1>3, NetworkKeeps, TimerKeeps
<1>. QED BY <1>1, <1>2, <1>3 DEF HttpNext

LEMMA InitHttpInv == HttpInit => HttpInv
<1>. SUFFICES ASSUME HttpInit PROVE HttpInv
  OBVIOUS
<1>1. exchange \in 1 .. MaxExchanges /\ flushes \in 0 .. MaxFlushes /\ answered \in 0 .. exchange
  BY HttpAssumption DEF HttpInit
<1>2. HttpTypeOK
  BY <1>1 DEF HttpInit, HttpTypeOK, Phase, Reading, Writing
<1>. QED BY <1>2 DEF HttpInit, HttpInv, CountInv, GuardInv

\* The invariant: every phase but the first and the last has its timer, as
\* long as the socket is open, and one response per request has been written.
THEOREM HttpInvariant == HttpSpec => []HttpInv
BY InitHttpInv, HttpInvStep, PTL DEF HttpSpec

\* The connection keeps its types; an operation is pending exactly in the
\* phases that read or write.
THEOREM HttpTypeCorrect == HttpSpec => []HttpTypeOK
<1>1. HttpInv => HttpTypeOK
  BY DEF HttpInv
<1>. QED BY <1>1, HttpInvariant, PTL

\* No operation waits for the client without a timer of its own, whatever
\* late timers have done before.
THEOREM OperationsAreGuarded == HttpSpec => []PendingIsGuarded
<1>1. HttpInv => PendingIsGuarded
  BY DEF HttpInv, HttpTypeOK, GuardInv, PendingIsGuarded, Reading, Writing
<1>. QED BY <1>1, HttpInvariant, PTL

\* Responses go out in the order of the requests, one at a time.
THEOREM ResponsesInOrder == HttpSpec => AnswersInOrder
<1>1. HttpInv /\ [HttpNext]_httpVars =>
        [ /\ exchange' # exchange => answered' = exchange
          /\ answered' # answered => answered' = exchange ]_httpVars
  <2>. SUFFICES ASSUME HttpInv, HttpNext
                PROVE  /\ exchange' # exchange => answered' = exchange
                       /\ answered' # answered => answered' = exchange
    OBVIOUS
  <2>1. CASE Written
    <3>1. answered = exchange - 1 /\ exchange \in Nat
      BY <2>1, HttpAssumption DEF Written, HttpInv, CountInv, HttpTypeOK
    <3>. QED BY <2>1, <3>1 DEF Written, End
  <2>2. CASE ~Written
    BY <2>2 DEF HttpNext, Server, Accept, HeaderRead, ContentRead, StartHandler, Flush,
           Flushed, HandlerThrows, HandlerReturns, End, Respond, IoDone, IoFails, Complete,
           PeerLeaves, Expire, Timeout
  <2>. QED BY <2>1, <2>2
<1>. QED BY <1>1, HttpInvariant, PTL DEF HttpSpec, AnswersInOrder
=============================================================================
