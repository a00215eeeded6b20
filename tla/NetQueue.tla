------------------------------ MODULE NetQueue ------------------------------
(***************************************************************************)
(* What the pg_net compatibility layer promises to SQL code that calls     *)
(* net.http_post() or net.http_get(): the request becomes a row of         *)
(* net.http_request_queue; its call is performed only while that row is    *)
(* there; its outcome is recorded only after a call; and the row goes away *)
(* only after a call.  Repeating a call before the row is gone is allowed, *)
(* calling a request whose row is gone is not.                             *)
(***************************************************************************)
EXTENDS Naturals

CONSTANTS Requests,    \* ids of net.http_request_queue
          Outcomes,    \* what one HTTP call can come to
          NoResponse   \* "no net.http_response row"

VARIABLES queue,       \* ids with a row in net.http_request_queue
          calls,       \* calls[r]: HTTP calls performed for r
          response     \* response[r]: the net.http_response row of r

vars == <<queue, calls, response>>

Init == /\ queue = {}
        /\ calls = [r \in Requests |-> 0]
        /\ response = [r \in Requests |-> NoResponse]

\* SQL code queues a request.  Ids come from a sequence and are never reused.
Post(r) == /\ r \notin queue
           /\ calls[r] = 0
           /\ queue' = queue \cup {r}
           /\ UNCHANGED <<calls, response>>

Perform(r) == /\ r \in queue
              /\ calls' = [calls EXCEPT ![r] = @ + 1]
              /\ UNCHANGED <<queue, response>>

Record(r, o) == /\ r \in queue
                /\ calls[r] > 0
                /\ response' = [response EXCEPT ![r] = o]
                /\ UNCHANGED <<queue, calls>>

Retire(r) == /\ r \in queue
             /\ calls[r] > 0
             /\ queue' = queue \ {r}
             /\ UNCHANGED <<calls, response>>

Next == \E r \in Requests : \/ Post(r)
                            \/ Perform(r)
                            \/ \E o \in Outcomes : Record(r, o)
                            \/ Retire(r)

Spec == Init /\ [][Next]_vars
=============================================================================
