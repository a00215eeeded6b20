------------------------------ MODULE ApiKeys ------------------------------
(***************************************************************************)
(* API keys: the tables of schema keys (db/migrations/0004_apikeys.sql),   *)
(* the admin service's operations on them (admin/src/handlers.ts, db.ts)   *)
(* and the guard that a service started with REQUIRE_API_KEY=true puts in  *)
(* front of its routes (apikeyGuard.ts and apikeyStore.ts, the same files  *)
(* in storage/ and functions/).  The module models one such process; the   *)
(* service behind the guard extends it and decides what an admitted        *)
(* request does.                                                           *)
(*                                                                         *)
(* A key is its row: the secret and its hash are abstracted to identity,   *)
(* so a presented key finds the row minted with it.  Role and name are     *)
(* carried by the code and read by nobody, so they are left out, as is the *)
(* day of a usage counter (the counters of a key are summed).              *)
(***************************************************************************)
EXTENDS Naturals, FiniteSets

CONSTANTS Projects,     \* ids that keys.projects may hand out
          Keys,         \* keys that may be minted
          Reqs,         \* slots for requests the service handles at once
          NoKey,        \* a request that presents no key
          Limits,       \* values of rate_limit_per_min
          Window,       \* length of the rate window, in clock units
          MaxTime,      \* bound on the clock
          MaxCalls      \* bound on the requests that arrive

ASSUME KeysAssumption ==
  /\ NoKey \notin Keys
  /\ Limits \subseteq Nat \ {0}
  /\ Window \in Nat \ {0}
  /\ MaxTime \in Nat /\ MaxCalls \in Nat
ASSUME ProjectsAssumption == Projects # {}
ASSUME ReqsAssumption == IsFiniteSet(Reqs)

VARIABLES
  projects,   \* ids with a row in keys.projects
  row,        \* [Keys -> row]: keys.api_keys, state "none" before the INSERT
  usage,      \* [Keys -> Nat]: keys.usage
  minting,    \* [Keys -> project or NoKey]: createKey after its getProject
  window,     \* [Keys -> SUBSET Hit]: windows of makeRateLimiter
  now,        \* the clock
  req,        \* [Reqs -> record]: what the guard holds for each request
  writes,     \* [Keys -> Nat]: recordUsage calls that are under way
  calls,      \* requests so far
  answers,    \* answers given so far
  dropped,    \* history: requests that died with the process
  admitted,   \* history: [Keys -> SUBSET Hit], admitted by this process
  counted     \* history: [Keys -> Nat], admissions owed to usage or lost

keyVars == <<projects, row, usage, minting>>
guardVars == <<window, req, calls, answers, dropped, admitted>>
apiVars == <<keyVars, guardVars, now, writes, counted>>

NoRow == [state |-> "none", project |-> NoKey, limit |-> 0]
Idle == [phase |-> "idle", key |-> NoKey, found |-> FALSE, dead |-> FALSE]
Active(k) == row[k].state = "active"
Busy == {r \in Reqs : req[r] # Idle}
Dead(k) == row[k].state \in {"revoked", "deleted"}

InitKeys ==
  /\ projects = {CHOOSE p \in Projects : TRUE}      \* the seeded 'default'
  /\ row = [k \in Keys |-> NoRow]
  /\ usage = [k \in Keys |-> 0]
  /\ minting = [k \in Keys |-> NoKey]
  /\ window = [k \in Keys |-> {}]
  /\ now = 0
  /\ req = [r \in Reqs |-> Idle]
  /\ writes = [k \in Keys |-> 0]
  /\ calls = 0 /\ answers = 0 /\ dropped = 0
  /\ admitted = [k \in Keys |-> {}]
  /\ counted = [k \in Keys |-> 0]

----------------------------------------------------------------------------
(* The statements of admin/src/db.ts on keys.api_keys.  The foreign key     *)
(* rejects a key whose project is gone; deleting a project takes its keys   *)
(* and their usage with it (ON DELETE CASCADE).                             *)

createKey(k, p, limit) ==
  IF p \in projects
    THEN [row EXCEPT ![k] = [state |-> "active", project |-> p, limit |-> limit]]
    ELSE row

revokeKey(k) == [row EXCEPT ![k].state = "revoked"]

KeysOf(p) == {k \in Keys : row[k].state # "none" /\ row[k].project = p}

cascade(p) ==
  [k \in Keys |->
     IF k \in KeysOf(p) THEN [row[k] EXCEPT !.state = "deleted"] ELSE row[k]]

(* The admin service.  handleCreateKey reads the project and inserts the   *)
(* key it minted in two statements.                                        *)

Unminted(k) == row[k] = NoRow /\ minting[k] = NoKey

StartMint(k, p) ==
  /\ Unminted(k)
  /\ p \in projects
  /\ minting' = [minting EXCEPT ![k] = p]
  /\ UNCHANGED <<projects, row, usage, guardVars, now, writes, counted>>

\* The caller gets the key, or a 500 when the project was deleted meanwhile.
FinishMint(k, limit) ==
  /\ minting[k] # NoKey
  /\ minting' = [minting EXCEPT ![k] = NoKey]
  /\ row' = createKey(k, minting[k], limit)
  /\ UNCHANGED <<projects, usage, guardVars, now, writes, counted>>

handleRevokeKey(k) ==
  /\ Active(k)
  /\ row' = revokeKey(k)
  /\ UNCHANGED <<projects, usage, minting, guardVars, now, writes, counted>>

handleDeleteProject(p) ==
  /\ p \in projects
  /\ projects' = projects \ {p}
  /\ row' = cascade(p)
  /\ usage' = [k \in Keys |-> IF k \in KeysOf(p) THEN 0 ELSE usage[k]]
  /\ UNCHANGED <<minting, guardVars, now, writes, counted>>

----------------------------------------------------------------------------
(* The guard.                                                              *)

\* A request is answered: its slot is free again.
Reply(r) ==
  /\ req' = [req EXCEPT ![r] = Idle]
  /\ answers' = answers + 1

\* A request arrives: without a key it is refused at once (401), with one
\* the guard asks the database for the active row and awaits the answer.
Arrive(r, k) ==
  /\ calls < MaxCalls
  /\ calls' = calls + 1
  /\ IF k = NoKey
       THEN Reply(r)
       ELSE /\ req' = [req EXCEPT ![r] =
                  [Idle EXCEPT !.phase = "lookup", !.key = k, !.dead = Dead(k)]]
            /\ UNCHANGED answers
  /\ UNCHANGED <<keyVars, window, dropped, admitted, now, writes, counted>>

\* Mutant: the statement forgets `revoked_at IS NULL`.
FindAnyByHash(r) ==
  /\ req[r].phase = "lookup"
  /\ req' = [req EXCEPT ![r].phase = "row",
                        ![r].found = row[req[r].key].state \in {"active", "revoked"}]
  /\ UNCHANGED <<keyVars, window, calls, answers, dropped, admitted, now, writes, counted>>

\* findActiveByHash: the statement sees the row as it is at one instant.
FindActiveByHash(r) ==
  /\ req[r].phase = "lookup"
  /\ req' = [req EXCEPT ![r].phase = "row", ![r].found = Active(req[r].key)]
  /\ UNCHANGED <<keyVars, window, calls, answers, dropped, admitted, now, writes, counted>>

\* The lookup fails, or finds no active row: 401.
LookupFails(r) ==
  /\ req[r].phase = "lookup"
  /\ Reply(r)
  /\ UNCHANGED <<keyVars, window, calls, dropped, admitted, now, writes, counted>>

NoSuchKey(r) ==
  /\ req[r].phase = "row" /\ ~req[r].found
  /\ Reply(r)
  /\ UNCHANGED <<keyVars, window, calls, dropped, admitted, now, writes, counted>>

\* allow(): the timestamps of the last Window units of key k at time t
\* (`ts > cutoff`), and the answer.  A number tells the hits of one instant
\* apart.  A row keeps its limit for life, so the limit read by the lookup is
\* the row's.
Hit == [no : Nat, at : Nat]
InWindow(hits, t) == {h \in hits : h.at + Window > t}
AllowOneMore(k) == Cardinality(InWindow(window[k], now)) <= row[k].limit    \* mutant
Allow(k) == Cardinality(InWindow(window[k], now)) < row[k].limit

\* The answer is 429, and the window is kept without what fell out of it.
OverLimit(r) ==
  LET k == req[r].key IN
  /\ req[r].phase = "row" /\ req[r].found
  /\ ~Allow(k)
  /\ window' = [window EXCEPT ![k] = InWindow(@, now)]
  /\ Reply(r)
  /\ UNCHANGED <<keyVars, calls, dropped, admitted, now, writes, counted>>

\* next(), with recordUsage started and not awaited.  The service behind the
\* guard conjoins what the request does next; `atOnce` when that is to answer.
Admit(r, atOnce) ==
  LET k == req[r].key
      hit == [no |-> Cardinality(admitted[k]) + 1, at |-> now] IN
  /\ req[r].phase = "row" /\ req[r].found
  /\ Allow(k)
  /\ window' = [window EXCEPT ![k] = InWindow(@, now) \cup {hit}]
  /\ IF atOnce
       THEN Reply(r)
       ELSE req' = [req EXCEPT ![r].phase = "admitted"] /\ UNCHANGED answers
  /\ writes' = [writes EXCEPT ![k] = @ + 1]
  /\ admitted' = [admitted EXCEPT ![k] = @ \cup {hit}]
  /\ counted' = [counted EXCEPT ![k] = @ + 1]
  /\ UNCHANGED <<keyVars, calls, dropped, now>>

\* recordUsage: the upsert lands, or is rejected because the key's row is
\* gone (the guard swallows the rejection).
RecordUsage(k) ==
  /\ writes[k] > 0
  /\ writes' = [writes EXCEPT ![k] = @ - 1]
  /\ usage' = IF row[k].state = "deleted" THEN usage ELSE [usage EXCEPT ![k] = @ + 1]
  /\ UNCHANGED <<projects, row, minting, guardVars, now, counted>>

\* The upsert is lost with its connection.
LoseUsage(k) ==
  /\ writes[k] > 0
  /\ writes' = [writes EXCEPT ![k] = @ - 1]
  /\ counted' = [counted EXCEPT ![k] = @ - 1]
  /\ UNCHANGED <<keyVars, guardVars, now>>

Tick ==
  /\ now < MaxTime
  /\ now' = now + 1
  /\ UNCHANGED <<keyVars, guardVars, writes, counted>>

\* A restart forgets the windows: the limits are counted from nothing.
ForgetWindows ==
  /\ window' = [k \in Keys |-> {}]
  /\ admitted' = [k \in Keys |-> {}]
  /\ req' = [r \in Reqs |-> Idle]
  /\ dropped' = dropped + Cardinality(Busy)
  /\ UNCHANGED <<keyVars, calls, answers, now, writes, counted>>

AdminNext ==
  \/ \E k \in Keys :
       \/ \E p \in Projects : StartMint(k, p)
       \/ \E limit \in Limits : FinishMint(k, limit)
       \/ handleRevokeKey(k)
       \/ RecordUsage(k)
       \/ LoseUsage(k)
  \/ \E p \in Projects : handleDeleteProject(p)
  \/ Tick

----------------------------------------------------------------------------
(* Properties of the guard.                                                *)

\* Rows, counters and requests of the guard have their types.
TypeOKKeys ==
  /\ projects \subseteq Projects
  /\ \A k \in Keys :
       /\ row[k].state \in {"none", "active", "revoked", "deleted"}
       /\ minting[k] \in Projects \cup {NoKey}
       /\ usage[k] \in Nat /\ writes[k] \in Nat /\ counted[k] \in Nat
  /\ \A r \in Reqs :
       req[r].phase \in {"idle", "lookup", "row", "admitted"}
  /\ now \in 0..MaxTime /\ calls \in 0..MaxCalls

\* In every interval of Window units one process admits at most
\* rate_limit_per_min requests of a key, whatever the requests it refused
\* in between and however the lookups interleave.
RateBounded ==
  \A k \in Keys : \A t \in 0..now :
    Cardinality({h \in InWindow(admitted[k], t) : h.at <= t}) <= row[k].limit

\* The counters add up: what a live key's usage shows, and what is still
\* being written, are exactly the requests admitted on it whose write was
\* not lost; and no late write brings the usage of a deleted key back.
UsageAddsUp ==
  \A k \in Keys :
    IF row[k].state = "deleted"
      THEN usage[k] = 0
      ELSE usage[k] + writes[k] = counted[k]

\* Every request is answered exactly once, or dies with the process.
AnswersAddUp == calls = answers + dropped + Cardinality(Busy)

\* A request that arrives when its key is already revoked, or deleted with
\* its project, never passes the guard.
DeadKeysStayOut ==
  \A r \in Reqs : req[r].dead => req[r].phase # "admitted"

\* Every key that the guard may still find belongs to a project that is
\* there, although createKey checks the project in an earlier statement.
KeysHaveProjects ==
  \A k \in Keys : row[k].state \in {"active", "revoked"} => row[k].project \in projects
=============================================================================
