----------------------------- MODULE Dispatcher -----------------------------
(***************************************************************************)
(* The table-change half of the webhooks worker: the Dispatcher            *)
(* (webhooks/src/dispatcher.ts) with its pure decisions (core.ts) and its  *)
(* gateway (db.ts), driven by the LISTEN source PgListener.  A committed   *)
(* change is published once per live LISTEN client; each notification      *)
(* becomes one activation of handle(), and each matching endpoint of its   *)
(* snapshot one concurrent deliver().  Every await is a place where other  *)
(* callbacks run, so the code between two awaits is one action.            *)
(***************************************************************************)
EXTENDS PgListener, Sequences, FiniteSetsExt, SequencesExt

CONSTANTS Changes,      \* Changes[n]: schema, table and type of the n-th change
          Endpoints,    \* Endpoints[e]: schema ("" if bare), table, events
          Slots,        \* bound: activations of handle() at once
          MaxAttempts,  \* WEBHOOKS_MAX_ATTEMPTS
          MaxFaults     \* bound on crashes, failed queries and edits of endpoints

Note == DOMAIN Changes
Ep == DOMAIN Endpoints

ASSUME ChangesAssumption == Len(Changes) \in Nat /\ DOMAIN Changes = 1..Len(Changes)
ASSUME AttemptsAssumption == MaxAttempts \in Nat \ {0}
ASSUME FaultsAssumption == MaxFaults \in Nat

VARIABLES
  committed,  \* how many of the changes have been committed
  inbox,      \* inbox[c]: notifications client c has received and not handled
  status,     \* status[e]: "active", "inactive", "deleted" in webhooks.endpoints
  deliveries, \* deliveries[e][n]: rows of webhooks.deliveries, in order
  act,        \* act[k]: an activation of handle(), its change and its stage
  del,        \* del[k][e]: its deliver() for endpoint e
  faults,
  copies,     \* history: LISTEN clients that were sent change n
  sent,       \* history: POSTs of change n that went out to e
  accepted    \* history: changes that e answered with a 2xx

listener == <<state, client, healthy, stopped, backoffMs, timers, started, failures, surplus>>
table == <<status, deliveries>>
hist == <<copies, sent, accepted>>
workerVars == <<listener, committed, inbox, table, act, del, faults, hist>>

NoWork == [stage |-> "free"]
NoDelivery == [stage |-> "none"]
Results == {"2xx", "4xx", "retryable"}   \* retryable: 5xx, 429, network error, timeout

InitWorker ==
  /\ Init
  /\ committed = 0
  /\ inbox = [c \in Clients |-> <<>>]
  /\ status = [e \in Ep |-> "active"]
  /\ deliveries = [e \in Ep |-> [n \in Note |-> <<>>]]
  /\ act = [k \in Slots |-> NoWork]
  /\ del = [k \in Slots |-> [e \in Ep |-> NoDelivery]]
  /\ faults = MaxFaults
  /\ copies = [n \in Note |-> 0]
  /\ sent = [e \in Ep |-> [n \in Note |-> 0]]
  /\ accepted = [e \in Ep |-> {}]

Fault == faults > 0 /\ faults' = faults - 1

-----------------------------------------------------------------------------
\* matchEndpoint: event, and bare or qualified table name.
matchEndpoint(e, n) ==
  /\ Changes[n].type \in Endpoints[e].events
  /\ Endpoints[e].table = Changes[n].table
  /\ Endpoints[e].schema \in {"", Changes[n].schema}

\* Mutant: no retry.
ShouldRetryNever(result, attempt) == FALSE

shouldRetry(result, attempt) == result = "retryable" /\ attempt < MaxAttempts

-----------------------------------------------------------------------------
(***************************************************************************)
(* The database: changes, and the operator's SQL on webhooks.endpoints.    *)
(***************************************************************************)
\* The next change commits; realtime.notify() reaches the live clients.
Commit ==
  /\ committed < Len(Changes)
  /\ committed' = committed + 1
  /\ inbox' = [c \in Clients |-> IF c \in Live THEN Append(inbox[c], committed + 1) ELSE inbox[c]]
  /\ copies' = [copies EXCEPT ![committed + 1] = Cardinality(Live)]
  /\ UNCHANGED <<listener, table, act, del, faults, sent, accepted>>

\* active is flipped, or the row is deleted with its log (ON DELETE CASCADE).
EditEndpoint(e) ==
  /\ status[e] # "deleted"
  /\ Fault
  /\ \E s \in {"active", "inactive", "deleted"} \ {status[e]} :
       /\ status' = [status EXCEPT ![e] = s]
       /\ deliveries' = IF s = "deleted" THEN [deliveries EXCEPT ![e] = [n \in Note |-> <<>>]]
                        ELSE deliveries
  /\ UNCHANGED <<listener, committed, inbox, act, del, hist>>

-----------------------------------------------------------------------------
(***************************************************************************)
(* The worker.                                                             *)
(***************************************************************************)
\* A step of the LISTEN source; what a lost client had received is lost.
ListenerStep(step) ==
  /\ step
  /\ inbox' = [c \in Clients |-> IF state'[c] = "live" THEN inbox[c] ELSE <<>>]
  /\ UNCHANGED <<committed, table, act, del, faults, hist>>

\* The notification callback: handle() up to its query of the endpoints.
handle(c) ==
  /\ inbox[c] # <<>>
  /\ inbox' = [inbox EXCEPT ![c] = Tail(@)]
  /\ \E k \in Slots :
       /\ act[k] = NoWork
       /\ \A i \in Slots : i < k => act[i] # NoWork
       /\ act' = [act EXCEPT ![k] = [stage |-> "loading", note |-> Head(inbox[c])]]
  /\ UNCHANGED <<listener, committed, table, del, faults, hist>>

\* The rows arrive: deliver() starts for every active endpoint that matches,
\* with the row as it is now.
Load(k) ==
  LET n == act[k].note
      matches == {e \in Ep : status[e] = "active" /\ matchEndpoint(e, n)}
  IN /\ act[k].stage = "loading"
     /\ del' = [del EXCEPT ![k] = [e \in Ep |->
          IF e \in matches THEN [stage |-> "posting", attempt |-> 1] ELSE NoDelivery]]
     /\ act' = [act EXCEPT ![k] = IF matches = {} THEN NoWork
                                  ELSE [stage |-> "delivering", note |-> n]]
     /\ UNCHANGED <<listener, committed, inbox, table, faults, hist>>

\* The query fails: the notification is dropped.
LoadFails(k) ==
  /\ act[k].stage = "loading"
  /\ Fault
  /\ act' = [act EXCEPT ![k] = NoWork]
  /\ UNCHANGED <<listener, committed, inbox, table, del, hist>>

\* attempt(): a POST goes out and settles.  A receiver may have accepted it
\* although the worker saw a failure: its answer was late or was lost.
Attempt(k, e) ==
  LET n == act[k].note  d == del[k][e] IN
  /\ d.stage = "posting"
  /\ sent' = [sent EXCEPT ![e][n] = @ + 1]
  /\ \E r \in Results, taken \in BOOLEAN :
       /\ r = "2xx" => taken
       /\ r = "4xx" => ~taken
       /\ accepted' = IF taken THEN [accepted EXCEPT ![e] = @ \cup {n}] ELSE accepted
       /\ del' = [del EXCEPT ![k][e] =
            IF shouldRetry(r, d.attempt) THEN [stage |-> "waiting", attempt |-> d.attempt + 1]
            ELSE [stage |-> "recording", attempt |-> d.attempt, last |-> r]]
  /\ UNCHANGED <<listener, committed, inbox, table, act, faults, copies>>

\* The back-off is over.
Wake(k, e) ==
  /\ del[k][e].stage = "waiting"
  /\ del' = [del EXCEPT ![k][e].stage = "posting"]
  /\ UNCHANGED <<listener, committed, inbox, table, act, faults, hist>>

\* deliver() returns; handle() does when all of its deliveries have.
Returned(k, e) ==
  /\ del' = [del EXCEPT ![k][e] = NoDelivery]
  /\ act' = IF \A f \in Ep \ {e} : del[k][f] = NoDelivery
            THEN [act EXCEPT ![k] = NoWork] ELSE act

\* recordDelivery(): one row with the final outcome.
Record(k, e) ==
  LET n == act[k].note  d == del[k][e] IN
  /\ d.stage = "recording"
  /\ status[e] # "deleted"
  /\ deliveries' = [deliveries EXCEPT ![e][n] = Append(@, [last |-> d.last, attempts |-> d.attempt])]
  /\ Returned(k, e)
  /\ UNCHANGED <<listener, committed, inbox, status, faults, hist>>

\* The INSERT fails, always so for an endpoint deleted meanwhile (its foreign
\* key); the error is logged and the delivery is over.
RecordFails(k, e) ==
  /\ del[k][e].stage = "recording"
  /\ \/ status[e] = "deleted" /\ UNCHANGED faults
     \/ status[e] # "deleted" /\ Fault
  /\ Returned(k, e)
  /\ UNCHANGED <<listener, committed, inbox, table, hist>>

\* The process ends, by a crash or as the last step of close(): what is in
\* flight is gone, and a new process begins with a new listener.
Crash ==
  /\ started
  /\ Fault
  /\ state' = [c \in Clients |-> "unused"]
  /\ client' = NoClient
  /\ healthy' = FALSE /\ stopped' = FALSE /\ started' = FALSE
  /\ backoffMs' = MinBackoff /\ timers' = 0 /\ surplus' = 0
  /\ inbox' = [c \in Clients |-> <<>>]
  /\ act' = [k \in Slots |-> NoWork]
  /\ del' = [k \in Slots |-> [e \in Ep |-> NoDelivery]]
  /\ UNCHANGED <<failures, committed, table, hist>>

DeliveryStep(k, e) == Attempt(k, e) \/ Wake(k, e) \/ Record(k, e) \/ RecordFails(k, e)
HandleStep(k) == Load(k) \/ LoadFails(k) \/ \E e \in Ep : DeliveryStep(k, e)

NextWorker ==
  \/ ListenerStep(Next)
  \/ Commit \/ Crash
  \/ \E e \in Ep : EditEndpoint(e)
  \/ \E c \in Clients : handle(c)
  \/ \E k \in Slots : HandleStep(k)

SpecWorker == InitWorker /\ [][NextWorker]_workerVars

(***************************************************************************)
(* The container is restarted and calls start(), node runs due timers, and *)
(* a connection attempt settles.  Deliveries need no fairness: they never  *)
(* hold up the listener.                                                   *)
(***************************************************************************)
FairSpecWorker ==
  /\ SpecWorker
  /\ WF_workerVars(ListenerStep(Start)) /\ WF_workerVars(ListenerStep(TimerFires))
  /\ \A c \in Clients :
       /\ WF_workerVars(ListenerStep(ConnectOk(c) \/ ConnectFails(c)))
       /\ WF_workerVars(ListenerStep(ListenOk(c) \/ ListenFails(c)))

-----------------------------------------------------------------------------
\* The listener's types, and the stages of handle() and deliver(): an endpoint
\* has a delivery only in an activation that is delivering.
TypeOKWorker ==
  /\ TypeOK
  /\ committed \in 0..Len(Changes)
  /\ \A c \in Clients : inbox[c] # <<>> => c \in Live
  /\ status \in [Ep -> {"active", "inactive", "deleted"}]
  /\ \A k \in Slots :
       /\ act[k].stage \in {"free", "loading", "delivering"}
       /\ act[k].stage = "delivering" <=> \E e \in Ep : del[k][e] # NoDelivery
       /\ \A e \in Ep : del[k][e] # NoDelivery => del[k][e].attempt \in 1..MaxAttempts
  /\ \A e \in Ep, n \in Note : sent[e][n] \in Nat

\* 0007_webhooks.sql: "one row per endpoint POST outcome", and docs/WEBHOOKS.md:
\* a delivery is tried up to MaxAttempts times.  A change is delivered to an
\* endpoint at most once for each LISTEN client that was sent it, and every
\* attempt a row counts is a POST that went out.
OneDeliveryPerCopy ==
  \A e \in Ep, n \in Note :
    LET rows == deliveries[e][n]
        attempts == UNION {{i} \X (1..rows[i].attempts) : i \in DOMAIN rows}
    IN /\ Len(rows) <= copies[n]
       /\ Cardinality(attempts) <= sent[e][n]
       /\ sent[e][n] <= MaxAttempts * copies[n]

\* docs/WEBHOOKS.md, the retry decision: the log says ok only of what the
\* receiver accepted, and a failure only once it was final - a 4xx, or every
\* attempt used.
LogTellsTheOutcome ==
  \A e \in Ep, n \in Note : \A i \in DOMAIN deliveries[e][n] :
    LET row == deliveries[e][n][i] IN
    /\ row.last = "2xx" => n \in accepted[e]
    /\ row.last = "retryable" => row.attempts = MaxAttempts

\* Every change a LISTEN client was sent has its row in the log of every
\* endpoint that matches by the time the worker is idle again, unless a
\* connection, a query or the process failed or an endpoint was edited.  (Then
\* nothing is promised: the worker keeps no queue of its own.)
Idle == (\A c \in Clients : inbox[c] = <<>>) /\ (\A k \in Slots : act[k] = NoWork)
Undisturbed == faults = MaxFaults /\ failures = MaxFailures /\ ~stopped
EveryCopyLogged ==
  Idle /\ Undisturbed =>
    \A e \in Ep, n \in Note : matchEndpoint(e, n) => Len(deliveries[e][n]) = copies[n]

\* Deliveries, their attempts and the log account for each other
\* (dispatcher.ts, webhooks.deliveries).
DeliveriesAccounted ==
  TypeOKWorker /\ OneDeliveryPerCopy /\ LogTellsTheOutcome /\ EveryCopyLogged
=============================================================================
