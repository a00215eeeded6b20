----------------------------- MODULE PgListener -----------------------------
(***************************************************************************)
(* createPgListener(), the LISTEN source of the webhooks worker (two of    *)
(* them: table changes and the pg_net queue) and of the realtime server    *)
(* (webhooks/src/listener.ts and realtime/src/listener.ts are the same     *)
(* code).  Every pg.Client that connect() creates is an actor of its own:  *)
(* it stays subscribed until its own connection ends, whatever the         *)
(* variable client of the closure refers to by then.                       *)
(*                                                                         *)
(* pg itself is outside the repository.  It is modelled by how the code    *)
(* uses it: connect() and query() settle once, and a connection that is    *)
(* lost raises 'error'; pg 8 raises it for the socket error and once more  *)
(* for the unexpected end, so one lost connection may raise it twice, and  *)
(* a connection lost under a query also rejects that query.                *)
(***************************************************************************)
EXTENDS Integers, FiniteSets

CONSTANTS Clients,      \* pg.Client objects, numbered in order of creation
          NoClient,     \* the closure's variable client is null
          ErrorEvents,  \* how many 'error' events one lost connection raises
          MinBackoff, MaxBackoff,   \* 1000 and MAX_BACKOFF, in ms
          MaxFailures   \* bound on failed and lost connections

ASSUME ClientsAssumption == Clients \subseteq Nat /\ NoClient \notin Clients
ASSUME ErrorEventsAssumption == ErrorEvents \subseteq {1, 2}
ASSUME BackoffAssumption ==
  MinBackoff \in Nat /\ MaxBackoff \in Nat /\ MinBackoff <= MaxBackoff
ASSUME MaxFailuresAssumption == MaxFailures \in Nat

VARIABLES
  state,      \* state[c]: where connect() is with client c
  client,     \* the closure's variable client
  healthy, stopped, backoffMs,
  timers,     \* armed reconnect timers
  started,    \* start() has been called
  failures,   \* failures still allowed
  surplus     \* history: reconnects scheduled beyond one per lost connection

vars == <<state, client, healthy, stopped, backoffMs, timers, started,
          failures, surplus>>

States == {"unused", "connecting", "subscribing", "live", "closed"}
Open == {c \in Clients : state[c] \in {"connecting", "subscribing", "live"}}
Live == {c \in Clients : state[c] = "live"}

Init ==
  /\ state = [c \in Clients |-> "unused"]
  /\ client = NoClient
  /\ healthy = FALSE
  /\ stopped = FALSE
  /\ backoffMs = MinBackoff
  /\ timers = 0
  /\ started = FALSE
  /\ failures = MaxFailures
  /\ surplus = 0

-----------------------------------------------------------------------------
\* backoffMs after k calls of scheduleReconnect(): one failure makes at most
\* three, for two 'error' events and a rejected query.
Doubled(ms) == IF 2 * ms < MaxBackoff THEN 2 * ms ELSE MaxBackoff
Backoff(k) == CASE k = 1 -> Doubled(backoffMs)
                [] k = 2 -> Doubled(Doubled(backoffMs))
                [] k = 3 -> Doubled(Doubled(Doubled(backoffMs)))

\* scheduleReconnect(), called k times over for one failure.
ScheduleReconnect(k) ==
  /\ timers' = IF stopped THEN timers ELSE timers + k
  /\ backoffMs' = IF stopped THEN backoffMs ELSE Backoff(k)
  /\ surplus' = IF stopped THEN surplus ELSE surplus + (k - 1)

\* connect(): the next pg.Client becomes the closure's client.
Connect ==
  \E c \in Clients :
    /\ state[c] = "unused"
    /\ \A d \in Clients : d < c => state[d] # "unused"
    /\ state' = [state EXCEPT ![c] = "connecting"]
    /\ client' = c

Start ==
  /\ ~started
  /\ started' = TRUE
  /\ IF stopped THEN UNCHANGED <<state, client>> ELSE Connect
  /\ UNCHANGED <<healthy, stopped, backoffMs, timers, failures, surplus>>

TimerFires ==
  /\ timers > 0
  /\ timers' = timers - 1
  /\ IF stopped THEN UNCHANGED <<state, client>> ELSE Connect
  /\ UNCHANGED <<healthy, stopped, backoffMs, started, failures, surplus>>

ConnectOk(c) ==
  /\ state[c] = "connecting"
  /\ state' = [state EXCEPT ![c] = "subscribing"]
  /\ UNCHANGED <<client, healthy, stopped, backoffMs, timers, started,
                 failures, surplus>>

Fails(c) == /\ failures > 0
            /\ failures' = failures - 1
            /\ state' = [state EXCEPT ![c] = "closed"]
            /\ UNCHANGED <<client, stopped, started>>

\* Mutant: a failed connect is only logged.
ConnectFailsQuietly(c) ==
  /\ state[c] = "connecting"
  /\ Fails(c)
  /\ healthy' = FALSE
  /\ UNCHANGED <<timers, backoffMs, surplus>>

\* The catch of connect(): c.connect() rejected.
ConnectFails(c) ==
  /\ state[c] = "connecting"
  /\ Fails(c)
  /\ healthy' = FALSE
  /\ ScheduleReconnect(1)

ListenOk(c) ==
  /\ state[c] = "subscribing"
  /\ state' = [state EXCEPT ![c] = "live"]
  /\ healthy' = TRUE
  /\ backoffMs' = MinBackoff
  /\ UNCHANGED <<client, stopped, timers, started, failures, surplus>>

\* The connection is lost under the LISTEN query: the catch of connect() runs
\* for the rejected query and the 'error' handler for the connection.
ListenFails(c) ==
  /\ state[c] = "subscribing"
  /\ Fails(c)
  /\ healthy' = FALSE
  /\ \E e \in ErrorEvents : ScheduleReconnect(1 + e)

\* An established connection is lost: the 'error' handler, once per event.
Lose(c) ==
  /\ state[c] = "live"
  /\ Fails(c)
  /\ healthy' = FALSE
  /\ \E e \in ErrorEvents : ScheduleReconnect(e)

\* stop() ends the client the closure still refers to, and no other.
Stop ==
  /\ started /\ ~stopped
  /\ stopped' = TRUE
  /\ healthy' = FALSE
  /\ state' = [c \in Clients |-> IF c = client THEN "closed" ELSE state[c]]
  /\ client' = NoClient
  /\ UNCHANGED <<backoffMs, timers, started, failures, surplus>>

Next == \/ Start \/ TimerFires \/ Stop
        \/ \E c \in Clients : \/ ConnectOk(c) \/ ConnectFails(c)
                              \/ ListenOk(c) \/ ListenFails(c) \/ Lose(c)

Spec == Init /\ [][Next]_vars

(***************************************************************************)
(* The worker calls start() when it boots, node runs due timers, and a     *)
(* connection attempt settles.                                             *)
(***************************************************************************)
FairSpec == /\ Spec
            /\ WF_vars(Start) /\ WF_vars(TimerFires)
            /\ \A c \in Clients : /\ WF_vars(ConnectOk(c) \/ ConnectFails(c))
                                  /\ WF_vars(ListenOk(c) \/ ListenFails(c))

-----------------------------------------------------------------------------
\* The variables of the closure have their types; the client it refers to is
\* one it created.
TypeOK ==
  /\ state \in [Clients -> States]
  /\ client \in Clients \cup {NoClient}
  /\ healthy \in BOOLEAN /\ stopped \in BOOLEAN /\ started \in BOOLEAN
  /\ backoffMs \in MinBackoff..MaxBackoff
  /\ timers \in Nat /\ failures \in Nat /\ surplus \in Nat
  /\ client # NoClient => state[client] # "unused"

\* Until stop(), each chain "client, lost, timer, next client" goes on: there
\* is always one armed timer or open client for the first connect() and one
\* for every surplus reconnect, so the listener is never left with neither.
ChainsConserved ==
  started /\ ~stopped => timers + Cardinality(Open) = 1 + surplus

\* /health says "listening" only while some client really has LISTEN in force.
HealthyMeansLive == healthy => Live # {}

\* Whichever way connections end (createPgListener), neither the chain of
\* reconnects nor what /health says of it is lost.
ListenerSound == TypeOK /\ ChainsConserved /\ HealthyMeansLive

\* A listener that is not stopped keeps coming back to a live LISTEN.
ComesBack == []<>(stopped \/ Live # {})

=============================================================================
