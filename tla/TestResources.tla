--------------------------- MODULE TestResources ---------------------------
(***************************************************************************)
(* The test resources of the web server, t_area, t_area_get, t_function    *)
(* and t_function_get of redis_source.hpp: each request opens a redispp    *)
(* connection of its own, sends one set or get and answers 200 or 400.     *)
(* A connection is used by one request, or by some other program (Redispp).*)
(***************************************************************************)
EXTENDS Redispp

VARIABLES
    resource,   \* whose connection it is, "program" for any other program
    step,       \* how far the handler is
    answer      \* the answer of the handler

resourceVars == <<resource, step, answer>>
allVars == <<vars, resourceVars>>

Setting == {"t_area", "t_function"}
Getting == {"t_area_get", "t_function_get"}
Step == {"parse", "authenticate", "command", "result", "test", "leave", "answered"}

ResourceTypeOK ==
    /\ RedisppTypeOK
    /\ resource \in Setting \cup Getting \cup {"program"}
    /\ step \in Step
    /\ answer \in {"none", "200", "400"}

ResourceInit ==
    /\ RedisppInit
    /\ resource \in Setting \cup Getting \cup {"program"}
    /\ step = "parse"
    /\ answer = "none"

Goto(s) == step' = s /\ UNCHANGED <<resource, answer>>
Answer(a) == answer' = a /\ step' = "leave" /\ UNCHANGED resource

\* read_json and the gets of the fields throw, or the connect does.
Unreachable ==
    /\ step = "parse"
    /\ answer' = "400" /\ step' = "answered"
    /\ UNCHANGED <<vars, resource>>

\* The constructor of the connection authenticates if there is a password.
Connect ==
    /\ step = "parse"
    /\ \/ Goto("command") /\ UNCHANGED vars
       \/ Goto("authenticate") /\ \E r \in Handles : Send(r, "authenticate", "Void")

\* A reply object goes out of scope: its destructor reads what is still to come
\* and swallows what it throws.
LeaveScope ==
    /\ \/ Reading
       \/ \E r \in Handles : Destroy(r)
    /\ UNCHANGED resourceVars
OutOfScope == call = Idle /\ \A r \in Handles : object[r].kind = "Free"

\* The constructor drops the reply object, and with it a refusal.
Authenticate ==
    /\ step = "authenticate"
    /\ \/ LeaveScope
       \/ OutOfScope /\ Goto("command") /\ UNCHANGED vars

SendCommand ==
    /\ step = "command"
    /\ \E r \in Handles :
         \/ resource \in Setting /\ Send(r, "set", "Void")
         \/ resource \in Getting /\ Send(r, "get", "String")
    /\ Goto("result")

\* The command does not fit into the buffer, which throws.
TooLong ==
    /\ step = "command"
    /\ Answer("400")
    /\ UNCHANGED vars

AskResult ==
    /\ step = "result"
    /\ \E r \in Handles : Result(r)
    /\ Goto("test")

ReadResult ==
    /\ step = "test"
    /\ Reading
    /\ UNCHANGED resourceVars

\* An exception, a result that is false or a nil is answered 400.
TestResult ==
    /\ step = "test" /\ call = Idle
    /\ \E r \in Handles :
         /\ object[r].kind # "Free"
         /\ Answer(IF object[r].value.kind # "nil" THEN "200" ELSE "400")
    /\ UNCHANGED vars

\* The reply is destroyed before the connection.
Leave ==
    /\ step = "leave"
    /\ \/ LeaveScope
       \/ OutOfScope /\ Goto("answered") /\ UNCHANGED vars

ConnectionEnds ==
    /\ step \notin {"parse", "answered"}
    /\ Close
    /\ UNCHANGED resourceVars

Handler ==
    \/ Unreachable \/ Connect \/ Authenticate \/ SendCommand \/ TooLong
    \/ AskResult \/ ReadResult \/ TestResult \/ Leave \/ ConnectionEnds

ResourceNext ==
    \/ resource = "program" /\ RedisppNext /\ UNCHANGED resourceVars
    \/ resource # "program" /\ Handler

ResourceSpec == ResourceInit /\ [][ResourceNext]_allVars

-----------------------------------------------------------------------------
\* A request is only answered 200 for what the server said to its own command:
\* +OK to the set, a string to the get, never a refusal or the answer to the
\* password.
OwnAnswer ==
    step = "leave" /\ answer = "200" =>
        \A r \in Handles : object[r].kind # "Free" =>
            /\ object[r].value.of = sent
            /\ object[r].value.kind \in
                  IF resource \in Setting THEN {"status"} ELSE {"bulk", "cut"}
=============================================================================
