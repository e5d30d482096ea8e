--------------------------- MODULE HttpConnection ---------------------------
(***************************************************************************)
(* One accepted connection of the HTTP server (server_http.hpp): requests  *)
(* are read, handled in a coroutine and answered one after the other, each *)
(* asynchronous operation under a timer that closes the socket.            *)
(*                                                                         *)
(* The completion of an operation and the expiry of a timer only queue a   *)
(* handler; the threads of the io_service run the queued handlers in any   *)
(* order.  cancel() on a timer whose handler is queued has no effect.  The *)
(* response timer runs in the strand of the coroutine, the others do not.  *)
(* Requests are well-formed; both timeouts are positive, as by default.    *)
(***************************************************************************)
EXTENDS Naturals

CONSTANTS MaxExchanges,   \* bound: requests on the connection
          MaxFlushes      \* bound: parts a handler sends before it returns

ASSUME HttpAssumption == /\ MaxExchanges \in Nat \ {0}
                         /\ MaxFlushes \in Nat

VARIABLES
    phase,      \* what the connection is doing
    io,         \* its asynchronous operation: none, pending, ok or failed
    socket,     \* open or closed
    peer,       \* whether the client is there
    surplus,    \* the content read waits for more than the client sends
    exchange,   \* number of the request
    flushes,    \* parts sent by its handler
    answered,   \* responses written to the end
    timer       \* state of the timers of every exchange

httpVars == <<phase, io, socket, peer, surplus, exchange, flushes, answered,
              timer>>

\* "spawned": the coroutine is posted.  "running": it runs and occupies the
\* strand.  "flushing": it is suspended in a flush.
Phase == {"accepting", "header", "content", "spawned", "running", "flushing",
          "writing", "ended"}
Reading == {"header", "content"}
Writing == {"flushing", "writing"}

Timer == {"header", "content", "response"} \X (1 .. MaxExchanges)

HttpInit ==
    /\ phase = "accepting" /\ io = "none"
    /\ socket = "open" /\ peer = "there" /\ surplus = FALSE
    /\ exchange = 1 /\ flushes = 0 /\ answered = 0
    /\ timer = [t \in Timer |-> "unset"]

\* The timer of the current operation.
Current == <<IF phase \in Reading THEN phase ELSE "response", exchange>>

Cancelled(s) == IF s = "armed" THEN "off" ELSE s

\* Variant: the new timer is not started.
CancelOnly(new) == timer' = [timer EXCEPT ![Current] = Cancelled(@)]

CancelAndArm(new) ==
    timer' = [timer EXCEPT ![Current] = Cancelled(@), ![new] = "armed"]

\* The last reference to the connection's operation is gone, and with it
\* its timer.
End ==
    /\ phase' = "ended" /\ io' = "none"
    /\ timer' = [timer EXCEPT ![Current] = Cancelled(@)]
    /\ UNCHANGED <<surplus, exchange, flushes>>

\* Variant: the first read is not started.
AcceptOnly ==
    /\ phase = "accepting" /\ phase' = "header"
    /\ UNCHANGED <<io, socket, peer, surplus, exchange, flushes, answered,
                   timer>>

\* accept calls read_request_and_content.
Accept ==
    /\ phase = "accepting"
    /\ phase' = "header" /\ io' = "pending"
    /\ timer' = [timer EXCEPT ![<<"header", 1>>] = "armed"]
    /\ UNCHANGED <<socket, peer, surplus, exchange, flushes, answered>>

Respond ==
    /\ phase' = "spawned" /\ io' = "none" /\ surplus' = FALSE
    /\ CancelAndArm(<<"response", exchange>>)
    /\ UNCHANGED <<exchange, flushes>>

HeaderRead ==
    /\ phase = "header"
    /\ \/ io = "failed" /\ End
       \/ /\ io = "ok"
          /\ phase' = "content" /\ io' = "pending" /\ surplus' \in BOOLEAN
          /\ CancelAndArm(<<"content", exchange>>)
          /\ UNCHANGED <<exchange, flushes>>
       \/ io = "ok" /\ Respond
       \/ io = "ok" /\ End      \* no resource is found
    /\ UNCHANGED <<socket, peer, answered>>

ContentRead ==
    /\ phase = "content"
    /\ \/ io = "failed" /\ End
       \/ io = "ok" /\ Respond
       \/ io = "ok" /\ End
    /\ UNCHANGED <<socket, peer, answered>>

StartHandler ==
    /\ phase = "spawned" /\ phase' = "running"
    /\ UNCHANGED <<io, socket, peer, surplus, exchange, flushes, answered,
                   timer>>

\* response << HttpServer::flush
Flush ==
    /\ phase = "running" /\ flushes < MaxFlushes
    /\ phase' = "flushing" /\ io' = "pending" /\ flushes' = flushes + 1
    /\ UNCHANGED <<socket, peer, surplus, exchange, answered, timer>>

\* A flush that fails throws out of the handler.
Flushed ==
    /\ phase = "flushing"
    /\ \/ /\ io = "ok" /\ phase' = "running" /\ io' = "none"
          /\ UNCHANGED <<surplus, exchange, flushes, timer>>
       \/ io = "failed" /\ End
    /\ UNCHANGED <<socket, peer, answered>>

\* The handler throws, or returns and its response is sent.
HandlerThrows ==
    /\ phase = "running" /\ End
    /\ UNCHANGED <<socket, peer, answered>>

\* Variant: the next request is read while the response is being written.
ReadsAhead ==
    /\ phase = "running" /\ exchange < MaxExchanges
    /\ phase' = "header" /\ io' = "pending"
    /\ exchange' = exchange + 1 /\ flushes' = 0
    /\ CancelAndArm(<<"header", exchange + 1>>)
    /\ UNCHANGED <<socket, peer, surplus, answered>>

HandlerReturns ==
    /\ phase = "running"
    /\ phase' = "writing" /\ io' = "pending"
    /\ UNCHANGED <<socket, peer, surplus, exchange, flushes, answered, timer>>

\* The callback of async_flush; the version decides about keep-alive.
Written ==
    /\ phase = "writing"
    /\ \/ io = "failed" /\ End /\ UNCHANGED answered
       \/ /\ io = "ok" /\ answered' = answered + 1
          /\ \/ End
             \/ /\ exchange < MaxExchanges
                /\ phase' = "header" /\ io' = "pending"
                /\ exchange' = exchange + 1 /\ flushes' = 0
                /\ CancelAndArm(<<"header", exchange + 1>>)
                /\ UNCHANGED surplus
    /\ UNCHANGED <<socket, peer>>

-----------------------------------------------------------------------------
(* The network, the client and the clock                                   *)

Complete(result) ==
    /\ io' = result
    /\ UNCHANGED <<phase, socket, peer, surplus, exchange, flushes, answered,
                   timer>>

IoDone ==
    /\ io = "pending" /\ socket = "open" /\ ~surplus
    /\ Complete("ok")

IoFails ==
    /\ io = "pending" /\ (socket = "closed" \/ peer = "gone")
    /\ Complete("failed")

PeerLeaves ==
    /\ peer = "there" /\ peer' = "gone"
    /\ UNCHANGED <<phase, io, socket, surplus, exchange, flushes, answered,
                   timer>>

Expire(t) ==
    /\ timer[t] = "armed"
    /\ timer' = [timer EXCEPT ![t] = "queued"]
    /\ UNCHANGED <<phase, io, socket, peer, surplus, exchange, flushes,
                   answered>>

\* Variant: the handler is told of an error and leaves the socket open.
TimeoutIgnored(t) ==
    /\ timer[t] = "queued"
    /\ timer' = [timer EXCEPT ![t] = "off"]
    /\ UNCHANGED <<phase, io, socket, peer, surplus, exchange, flushes,
                   answered>>

\* set_timeout_on_socket: the handler of a timer that was not cancelled
Timeout(t) ==
    /\ timer[t] = "queued"
    /\ t = <<"response", exchange>> => phase \notin {"spawned", "running"}
    /\ timer' = [timer EXCEPT ![t] = "off"]
    /\ socket' = "closed"
    /\ UNCHANGED <<phase, io, peer, surplus, exchange, flushes, answered>>

Server == \/ Accept \/ HeaderRead \/ ContentRead \/ StartHandler
          \/ Flush \/ Flushed \/ HandlerThrows \/ HandlerReturns \/ Written

HttpNext == \/ Server \/ IoDone \/ IoFails \/ PeerLeaves
            \/ \E t \in Timer : Expire(t) \/ Timeout(t)

\* Queued handlers are run, clocks run, operations on a closed socket fail,
\* and a handler returns; nothing forces the client to send or receive.
HttpFairness ==
    /\ WF_httpVars(Server) /\ WF_httpVars(IoFails)
    /\ \A t \in Timer : WF_httpVars(Expire(t)) /\ WF_httpVars(Timeout(t))

HttpSpec == HttpInit /\ [][HttpNext]_httpVars /\ HttpFairness
-----------------------------------------------------------------------------
\* Types.
HttpTypeOK ==
    /\ phase \in Phase
    /\ io \in {"none", "pending", "ok", "failed"}
    /\ socket \in {"open", "closed"} /\ peer \in {"there", "gone"}
    /\ surplus \in BOOLEAN
    /\ exchange \in 1 .. MaxExchanges /\ flushes \in 0 .. MaxFlushes
    /\ answered \in 0 .. exchange
    /\ timer \in [Timer -> {"unset", "armed", "queued", "off"}]
    /\ io # "none" <=> phase \in Reading \cup Writing

\* An operation that waits for the client on an open socket is guarded: its
\* own timer is running or has expired, whatever late timers did before.
PendingIsGuarded ==
    (io = "pending" /\ socket = "open") => timer[Current] \in {"armed", "queued"}

\* The client may fall silent at any point, send too much or stop reading:
\* every connection ends and is given back.
ConnectionEnds == <>(phase = "ended")

\* Responses go out in the order of the requests, and a request is read
\* only when the response before it has left completely.
AnswersInOrder ==
    [][ /\ exchange' # exchange => answered' = exchange
        /\ answered' # answered => answered' = exchange ]_httpVars

\* A timeout closes the socket under the operation it was set for.
TimeoutHitsItsOperation ==
    [][\A t \in Timer :
         (timer[t] = "queued" /\ timer'[t] = "off" /\ socket = "open")
            => t = Current \/ phase = "ended"]_httpVars
=============================================================================
