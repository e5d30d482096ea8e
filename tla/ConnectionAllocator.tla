------------------------- MODULE ConnectionAllocator -------------------------
(***************************************************************************)
(* What a thread-safe connection container promises its callers: a         *)
(* connection is open in one place at a time.  It is free, or in the hands *)
(* of exactly one thread, or lost (a thread dropped it without giving it   *)
(* back), and a lost connection is never handed out again.  How threads    *)
(* wait for a connection is left to the implementation (ThreadedPool).     *)
(***************************************************************************)
CONSTANTS Threads,       \* the threads that take connections
          Connection,    \* the connections that can be opened
          NoConnection   \* "holds no connection"

VARIABLES free,    \* open connections nobody uses
          using,   \* the connection each thread uses
          lost     \* connections dropped while in use

allocVars == <<free, using, lost>>

Used == {using[t] : t \in Threads} \ {NoConnection}

AllocInit ==
    /\ free = {}
    /\ using = [t \in Threads |-> NoConnection]
    /\ lost = {}

\* A connection is opened, at a time when it is nowhere else.
Open(c) ==
    /\ c \notin free \cup Used \cup lost
    /\ free' = free \cup {c}
    /\ UNCHANGED <<using, lost>>

Acquire(t, c) ==
    /\ using[t] = NoConnection
    /\ c \in free
    /\ free' = free \ {c}
    /\ using' = [using EXCEPT ![t] = c]
    /\ UNCHANGED lost

GiveBack(t) ==
    /\ using[t] # NoConnection
    /\ free' = free \cup {using[t]}
    /\ using' = [using EXCEPT ![t] = NoConnection]
    /\ UNCHANGED lost

Lose(t) ==
    /\ using[t] # NoConnection
    /\ lost' = lost \cup {using[t]}
    /\ using' = [using EXCEPT ![t] = NoConnection]
    /\ UNCHANGED free

\* Only a connection that nobody uses may be closed.
Close(c) ==
    /\ c \in free
    /\ free' = free \ {c}
    /\ UNCHANGED <<using, lost>>

AllocNext ==
    \/ \E c \in Connection : Open(c) \/ Close(c)
    \/ \E t \in Threads, c \in Connection : Acquire(t, c)
    \/ \E t \in Threads : GiveBack(t) \/ Lose(t)

AllocSpec == AllocInit /\ [][AllocNext]_allocVars
=============================================================================
