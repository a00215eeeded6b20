----------------------------- MODULE NetBridge ------------------------------
(***************************************************************************)
(* The pg_net bridge of the webhooks worker (webhooks/src/netBridge.ts),   *)
(* with the queue gateway it drains (netQueue.ts), the part of server.ts   *)
(* that starts it, and the trigger of migration 0017 that wakes it.        *)
(*                                                                         *)
(* One node process runs drain(); every await of drain(), process() and    *)
(* complete() is a place where other callbacks run, so each of them is an  *)
(* action.  Each activation of drain() that got past its guard is a        *)
(* "pass".  The LISTEN connection is the flag listening: it is up when at  *)
(* least one pg client of listener.ts has LISTEN in force (PgListener is   *)
(* the detailed model of that connection).                                 *)
(***************************************************************************)
EXTENDS Integers, FiniteSets

CONSTANTS Requests,    \* ids of net.http_request_queue, bigserial numbers
          Pass,        \* activations of drain() that can exist at once
          NoRequest,   \* "no request in hand"
          Copies,      \* how many live LISTEN clients may forward one NOTIFY
          MaxBridgeFaults   \* MaxBridgeFaults[k]: bound on the faults of kind k

FaultKinds == {"crash", "listen", "load", "insert", "delete"}
Outcomes == {"2xx", "failed"}
NoResponse == "none"

ASSUME RequestsAssumption == Requests \subseteq Nat
ASSUME NoRequestAssumption == NoRequest \notin Requests
ASSUME PassAssumption == Pass # {}
ASSUME CopiesAssumption == Copies \subseteq Nat \ {0}
ASSUME MaxFaultsAssumption == MaxBridgeFaults \in [FaultKinds -> Nat]

VARIABLES
  queue,        \* ids with a row in net.http_request_queue
  response,     \* response[r]: outcome in net.http_response, or NoResponse
  phase,        \* "down", "starting", "started" (listener tried), "running"
  listening,    \* the LISTEN connection is up
  notes,        \* NOTIFYs received whose callback has not run yet
  draining, drainAgain,   \* the two flags of class NetBridge
  pc,           \* pc[p]: where pass p is
  batch,        \* batch[p]: requests of the snapshot p has not reached yet
  cur,          \* cur[p]: the request p is processing
  result,       \* result[p]: outcome of the call p last made
  bridgeFaults, \* bridgeFaults[k]: faults of kind k still allowed
  calls,        \* history: HTTP calls made per request
  interrupted,  \* history: times processing r ended without deleting its row
  unrecorded    \* history: requests whose response INSERT failed

dbVars == <<queue, response>>
drainVars == <<draining, drainAgain, pc, batch, cur, result>>
linkVars == <<phase, listening, notes>>
histVars == <<calls, interrupted, unrecorded>>
bridgeVars == <<queue, response, phase, listening, notes, draining, drainAgain,
                pc, batch, cur, result, bridgeFaults, calls, interrupted,
                unrecorded>>

PassStates == {"off", "loading", "next", "fetching", "inserting", "deleting"}
InHand == {"fetching", "inserting", "deleting"}

InitBridge ==
  /\ queue = {}
  /\ response = [r \in Requests |-> NoResponse]
  /\ phase = "down"
  /\ listening = FALSE
  /\ notes = 0
  /\ draining = FALSE
  /\ drainAgain = FALSE
  /\ pc = [p \in Pass |-> "off"]
  /\ batch = [p \in Pass |-> {}]
  /\ cur = [p \in Pass |-> NoRequest]
  /\ result = [p \in Pass |-> NoResponse]
  /\ bridgeFaults = MaxBridgeFaults
  /\ calls = [r \in Requests |-> 0]
  /\ interrupted = [r \in Requests |-> 0]
  /\ unrecorded = {}

BridgeFault(k) == /\ bridgeFaults[k] > 0
                  /\ bridgeFaults' = [bridgeFaults EXCEPT ![k] = @ - 1]

-----------------------------------------------------------------------------
(***************************************************************************)
(* drain() up to its first await: a call that finds a pass running only    *)
(* leaves a mark, any other call starts a pass.                            *)
(***************************************************************************)
\* Mutant: the coalescing guard is missing.
DrainUnguarded ==
  /\ \E p \in Pass : pc[p] = "off" /\ pc' = [pc EXCEPT ![p] = "loading"]
  /\ draining' = TRUE
  /\ UNCHANGED <<drainAgain, batch, cur, result>>

Drain ==
  \/ /\ draining
     /\ drainAgain' = TRUE
     /\ UNCHANGED <<draining, pc, batch, cur, result>>
  \/ /\ ~draining
     /\ draining' = TRUE
     /\ \E p \in Pass : pc[p] = "off" /\ pc' = [pc EXCEPT ![p] = "loading"]
     /\ UNCHANGED <<drainAgain, batch, cur, result>>

\* Mutant: the finally block does not look at the mark.
LeavePassDeaf(p) ==
  /\ draining' = FALSE
  /\ drainAgain' = FALSE
  /\ pc' = [pc EXCEPT ![p] = "off"]

\* drain()'s finally block: a marked pass is followed by one more, started
\* before anything else can run.
LeavePass(p) ==
  /\ draining' = drainAgain
  /\ drainAgain' = FALSE
  /\ pc' = [pc EXCEPT ![p] = IF drainAgain THEN "loading" ELSE "off"]

-----------------------------------------------------------------------------
(***************************************************************************)
(* SQL code and the worker's life cycle.                                   *)
(***************************************************************************)
\* net.http_post() / http_get() commit: the row appears and, in the same
\* commit, its NOTIFY reaches every LISTEN connection that is up.
Post(r) ==
  /\ r \notin queue
  /\ calls[r] = 0
  /\ queue' = queue \cup {r}
  /\ IF listening THEN \E n \in Copies : notes' = notes + n
                  ELSE UNCHANGED notes
  /\ UNCHANGED <<response, phase, listening, drainVars, bridgeFaults, histVars>>

Boot ==
  /\ phase = "down"
  /\ phase' = "starting"
  /\ UNCHANGED <<dbVars, listening, notes, drainVars, bridgeFaults, histVars>>

\* netListener.start() returns whether or not its first connect succeeded.
StartListening ==
  /\ phase = "starting"
  /\ phase' = "started"
  /\ \/ listening' = TRUE /\ UNCHANGED bridgeFaults
     \/ BridgeFault("listen") /\ UNCHANGED listening
  /\ UNCHANGED <<dbVars, notes, drainVars, histVars>>

\* The poll-drain that listen() issues once the listener has been started.
StartupDrain ==
  /\ phase = "started"
  /\ phase' = "running"
  /\ Drain
  /\ UNCHANGED <<dbVars, listening, notes, bridgeFaults, histVars>>

\* The notification callback of netListener.
OnNotify ==
  /\ notes > 0
  /\ notes' = notes - 1
  /\ Drain
  /\ UNCHANGED <<dbVars, phase, listening, bridgeFaults, histVars>>

\* The connection drops; a NOTIFY still in the socket may go with it.
LoseListener ==
  /\ listening
  /\ BridgeFault("listen")
  /\ listening' = FALSE
  /\ notes' \in {0, notes}
  /\ UNCHANGED <<dbVars, phase, drainVars, histVars>>

\* scheduleReconnect's timer: connect() issues LISTEN again and nothing else.
Reconnect ==
  /\ phase = "running"
  /\ ~listening
  /\ listening' = TRUE
  /\ UNCHANGED <<dbVars, phase, notes, drainVars, bridgeFaults, histVars>>

\* The process stops wherever it is; the database keeps what was committed.
CrashBridge ==
  /\ phase # "down"
  /\ BridgeFault("crash")
  /\ phase' = "down"
  /\ listening' = FALSE
  /\ notes' = 0
  /\ draining' = FALSE
  /\ drainAgain' = FALSE
  /\ pc' = [p \in Pass |-> "off"]
  /\ batch' = [p \in Pass |-> {}]
  /\ cur' = [p \in Pass |-> NoRequest]
  /\ result' = [p \in Pass |-> NoResponse]
  /\ interrupted' =
       [r \in Requests |-> IF \E p \in Pass : pc[p] \in InHand /\ cur[p] = r
                           THEN interrupted[r] + 1 ELSE interrupted[r]]
  /\ UNCHANGED <<dbVars, calls, unrecorded>>

-----------------------------------------------------------------------------
(***************************************************************************)
(* One pass of drain().                                                    *)
(***************************************************************************)
\* store.pending() answers with every row of the queue.
LoadPending(p) ==
  /\ pc[p] = "loading"
  /\ pc' = [pc EXCEPT ![p] = "next"]
  /\ batch' = [batch EXCEPT ![p] = queue]
  /\ UNCHANGED <<dbVars, linkVars, draining, drainAgain, cur, result, bridgeFaults,
                 histVars>>

\* store.pending() rejects: logged, and the pass is over.
LoadPendingFails(p) ==
  /\ pc[p] = "loading"
  /\ BridgeFault("load")
  /\ LeavePass(p)
  /\ UNCHANGED <<dbVars, linkVars, batch, cur, result, histVars>>

\* process(): the call for the oldest request of the snapshot goes out.
Fetch(p) ==
  /\ pc[p] = "next"
  /\ \E r \in batch[p] :
       /\ \A s \in batch[p] : r <= s
       /\ cur' = [cur EXCEPT ![p] = r]
       /\ batch' = [batch EXCEPT ![p] = @ \ {r}]
       /\ calls' = [calls EXCEPT ![r] = @ + 1]
  /\ pc' = [pc EXCEPT ![p] = "fetching"]
  /\ UNCHANGED <<dbVars, linkVars, draining, drainAgain, result, bridgeFaults,
                 interrupted, unrecorded>>

\* The call settles: an answer, an error, or the abort timer.
Settle(p) ==
  /\ pc[p] = "fetching"
  /\ \E o \in Outcomes : result' = [result EXCEPT ![p] = o]
  /\ pc' = [pc EXCEPT ![p] = "inserting"]
  /\ UNCHANGED <<dbVars, linkVars, draining, drainAgain, batch, cur, bridgeFaults,
                 histVars>>

\* Mutant: only successful calls leave a response row.
InsertOnlySuccess(p) ==
  /\ pc[p] = "inserting"
  /\ response' = IF result[p] = "2xx"
                 THEN [response EXCEPT ![cur[p]] = result[p]] ELSE response
  /\ pc' = [pc EXCEPT ![p] = "deleting"]
  /\ UNCHANGED <<queue, linkVars, draining, drainAgain, batch, cur, result,
                 bridgeFaults, histVars>>

\* complete(): the INSERT .. ON CONFLICT DO UPDATE of net.http_response.
Insert(p) ==
  /\ pc[p] = "inserting"
  /\ response' = [response EXCEPT ![cur[p]] = result[p]]
  /\ pc' = [pc EXCEPT ![p] = "deleting"]
  /\ UNCHANGED <<queue, linkVars, draining, drainAgain, batch, cur, result,
                 bridgeFaults, histVars>>

\* complete(): the INSERT fails, the DELETE of its finally runs all the same.
InsertFails(p) ==
  /\ pc[p] = "inserting"
  /\ BridgeFault("insert")
  /\ unrecorded' = unrecorded \cup {cur[p]}
  /\ pc' = [pc EXCEPT ![p] = "deleting"]
  /\ UNCHANGED <<dbVars, linkVars, draining, drainAgain, batch, cur, result,
                 calls, interrupted>>

\* Mutant: the DELETE is forgotten, so the next pass finds the row again.
DeleteForgotten(p) ==
  /\ pc[p] = "deleting"
  /\ pc' = [pc EXCEPT ![p] = "next"]
  /\ cur' = [cur EXCEPT ![p] = NoRequest]
  /\ UNCHANGED <<dbVars, linkVars, draining, drainAgain, batch, result,
                 bridgeFaults, histVars>>

\* complete(): the DELETE of the queue row.
Delete(p) ==
  /\ pc[p] = "deleting"
  /\ queue' = queue \ {cur[p]}
  /\ pc' = [pc EXCEPT ![p] = "next"]
  /\ cur' = [cur EXCEPT ![p] = NoRequest]
  /\ UNCHANGED <<response, linkVars, draining, drainAgain, batch, result,
                 bridgeFaults, histVars>>

\* complete(): the DELETE fails; process() logs it and the loop goes on.
DeleteFails(p) ==
  /\ pc[p] = "deleting"
  /\ BridgeFault("delete")
  /\ interrupted' = [interrupted EXCEPT ![cur[p]] = @ + 1]
  /\ pc' = [pc EXCEPT ![p] = "next"]
  /\ cur' = [cur EXCEPT ![p] = NoRequest]
  /\ UNCHANGED <<dbVars, linkVars, draining, drainAgain, batch, result, calls,
                 unrecorded>>

\* The snapshot is used up: the pass leaves through drain()'s finally.
Finish(p) ==
  /\ pc[p] = "next"
  /\ batch[p] = {}
  /\ LeavePass(p)
  /\ UNCHANGED <<dbVars, linkVars, batch, cur, result, bridgeFaults, histVars>>

-----------------------------------------------------------------------------
PassStep(p) == \/ LoadPending(p) \/ LoadPendingFails(p) \/ Fetch(p) \/ Settle(p)
               \/ Insert(p) \/ InsertFails(p) \/ Delete(p) \/ DeleteFails(p)
               \/ Finish(p)

LifeCycle == \/ Boot \/ StartListening \/ StartupDrain \/ OnNotify
             \/ LoseListener \/ Reconnect \/ CrashBridge

NextBridge == \/ \E r \in Requests : Post(r)
              \/ LifeCycle
              \/ \E p \in Pass : PassStep(p)

SpecBridge == InitBridge /\ [][NextBridge]_bridgeVars

(***************************************************************************)
(* What node and docker-compose (restart: unless-stopped) give: a process  *)
(* that is down is started again, its start-up runs on, received           *)
(* notifications and settled promises get their callback, a call settles   *)
(* (the abort timer), a query is answered, a dropped connection is         *)
(* eventually replaced.  Nothing is assumed of SQL code or of faults.      *)
(***************************************************************************)
Fairness ==
  /\ WF_bridgeVars(Boot) /\ WF_bridgeVars(StartListening) /\ WF_bridgeVars(StartupDrain)
  /\ WF_bridgeVars(OnNotify) /\ WF_bridgeVars(Reconnect)
  /\ \A p \in Pass : WF_bridgeVars(PassStep(p))

FairSpecBridge == SpecBridge /\ Fairness

-----------------------------------------------------------------------------
(***************************************************************************)
(* Properties.                                                             *)
(***************************************************************************)
\* The state has its types, and a pass holds a request exactly while it is
\* between the call and the DELETE (the locals of drain() and process()).
TypeOKBridge ==
  /\ queue \subseteq Requests
  /\ response \in [Requests -> Outcomes \cup {NoResponse}]
  /\ phase \in {"down", "starting", "started", "running"}
  /\ listening \in BOOLEAN /\ notes \in Nat
  /\ draining \in BOOLEAN /\ drainAgain \in BOOLEAN
  /\ pc \in [Pass -> PassStates]
  /\ batch \in [Pass -> SUBSET Requests]
  /\ cur \in [Pass -> Requests \cup {NoRequest}]
  /\ result \in [Pass -> Outcomes \cup {NoResponse}]
  /\ bridgeFaults \in [FaultKinds -> Nat]
  /\ calls \in [Requests -> Nat]
  /\ interrupted \in [Requests -> Nat]
  /\ unrecorded \subseteq Requests
  /\ \A p \in Pass : pc[p] \in InHand <=> cur[p] # NoRequest

\* However NOTIFYs, the start-up drain and a finishing pass interleave, two
\* activations of drain() never process the queue at the same time.
OnePass == \A p, q \in Pass : pc[p] # "off" /\ pc[q] # "off" => p = q

\* A request is called again only when an earlier round for it ended without
\* its row being deleted: a DELETE that failed, or a crash after the call.
NoNeedlessRepeat == \A r \in Requests : calls[r] <= 1 + interrupted[r]

\* A request whose row is gone has its outcome in net.http_response, unless
\* the INSERT itself failed (the loss complete() accepts in its comment).
OutcomeKept ==
  \A r \in Requests :
    calls[r] > 0 /\ r \notin queue => response[r] # NoResponse \/ r \in unrecorded

\* The bridge implements the queue SQL code relies on: in particular it never
\* calls a request whose row has already been retired.
NQ == INSTANCE NetQueue WITH Requests <- Requests, Outcomes <- Outcomes,
                            NoResponse <- NoResponse, queue <- queue,
                            calls <- calls, response <- response
ImplementsNetQueue == NQ!Spec

\* netBridge.ts: "a missed notification during a restart must not strand a
\* queued request forever".  Through crashes, failed INSERTs and duplicated
\* NOTIFYs every queued request leaves the queue in the end, unless a LISTEN,
\* a SELECT or a DELETE has failed (a LISTEN that comes late does not drain).
NoneFailed == \A k \in {"listen", "load", "delete"} : bridgeFaults[k] = MaxBridgeFaults[k]
DrainedUnlessDisturbed ==
  \A r \in Requests : r \in queue ~> (r \notin queue \/ ~NoneFailed)
=============================================================================
