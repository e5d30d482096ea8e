------------------------------ MODULE SessionMap ------------------------------
(***************************************************************************)
(* What the session operations promise their clients: the sessions are one *)
(* map, and every operation on a session happens at one moment.  CREATE    *)
(* never touches an existing session, ADD and UPDATE never make one, a     *)
(* refusal or a query speaks of the map at that moment, and a session that *)
(* is lost without DELETE is lost by an operation that tells of an error.  *)
(***************************************************************************)
CONSTANTS Workers, Keys, Values, Operations, Absent

VARIABLES sessions,   \* the map
          request,    \* the operation each worker has last been asked for
          told        \* what it has told its client about it

mapVars == <<sessions, request, told>>

\* "none": no answer yet.  "exist", "missing": refused.
Tell(w, verdict, value) ==
    /\ told[w] = <<"none", Absent>>
    /\ told' = [told EXCEPT ![w] = <<verdict, value>>]
    /\ UNCHANGED request

MapInit ==
    /\ sessions = [k \in Keys |-> Absent]
    /\ request = [w \in Workers |-> "none"]
    /\ told = [w \in Workers |-> <<"none", Absent>>]

Ask(w) ==
    /\ \E o \in Operations : request' = [request EXCEPT ![w] = o]
    /\ told' = [told EXCEPT ![w] = <<"none", Absent>>]
    /\ UNCHANGED sessions

\* A write of a batch is followed by others, by success, or by a failure.
Written(w) == \E v \in {"none", "ok", "error"} : Tell(w, v, Absent)

Create(w, k, v) ==
    /\ request[w] = "CREATE" /\ sessions[k] = Absent
    /\ sessions' = [sessions EXCEPT ![k] = v]
    /\ Written(w)

Replace(w, k, v) ==
    /\ request[w] \in {"ADD", "UPDATE"} /\ sessions[k] # Absent
    /\ sessions' = [sessions EXCEPT ![k] = v]
    /\ Written(w)

Remove(w, k) ==
    /\ request[w] = "DELETE" /\ sessions[k] # Absent
    /\ sessions' = [sessions EXCEPT ![k] = Absent]
    /\ Tell(w, "ok", Absent)

Lose(w, k) ==
    /\ request[w] \in {"ADD", "UPDATE", "DELETE"} /\ sessions[k] # Absent
    /\ sessions' = [sessions EXCEPT ![k] = Absent]
    /\ Tell(w, "error", Absent)

Query(w, k) ==
    /\ request[w] = "QUERY" /\ sessions[k] # Absent
    /\ Tell(w, "ok", sessions[k])
    /\ UNCHANGED sessions

RefuseMissing(w, k) ==
    /\ request[w] # "CREATE" /\ sessions[k] = Absent
    /\ Tell(w, "missing", Absent)
    /\ UNCHANGED sessions

RefuseExisting(w, k) ==
    /\ request[w] = "CREATE" /\ sessions[k] # Absent
    /\ Tell(w, "exist", Absent)
    /\ UNCHANGED sessions

\* The items of a batch are all written.
Succeed(w) ==
    /\ request[w] \in {"CREATE", "ADD"}
    /\ Tell(w, "ok", Absent)
    /\ UNCHANGED sessions

Fail(w) == Tell(w, "error", Absent) /\ UNCHANGED sessions

MapNext ==
    \E w \in Workers :
        \/ Ask(w) \/ Succeed(w) \/ Fail(w)
        \/ \E k \in Keys :
             \/ \E v \in Values : Create(w, k, v) \/ Replace(w, k, v)
             \/ Remove(w, k) \/ Lose(w, k) \/ Query(w, k)
             \/ RefuseMissing(w, k) \/ RefuseExisting(w, k)

MapSpec == MapInit /\ [][MapNext]_mapVars
=============================================================================
