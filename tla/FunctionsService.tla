-------------------------- MODULE FunctionsService --------------------------
(***************************************************************************)
(* The functions service (functions/server): operator-provided modules     *)
(* under a root directory, imported on first use and cached by             *)
(* FunctionLoader, invoked by runHandler against a timeout, behind the     *)
(* API-key guard of ApiKeys.                                               *)
(*                                                                         *)
(* Every JavaScript callback is one step; what an await lets in between    *)
(* (the key lookup, the import, the handler) is a step of its own.  A file *)
(* is the number of its latest edit and whether that edit loads; the       *)
(* loader's cache-busting query makes every import read the file, at one   *)
(* instant between the call and its answer.                                *)
(***************************************************************************)
EXTENDS ApiKeys

CONSTANTS Fns,          \* function names
          MaxEdits,     \* bound on the edits of each file
          MaxRestarts   \* bound on the restarts of the process

ASSUME FnsAssumption == Fns # {} /\ MaxEdits \in Nat \ {0} /\ MaxRestarts \in Nat

VARIABLES
  file,       \* [Fns -> [v, there, ok]]: what is on disk
  cache,      \* [Fns -> Nat]: edit whose module the loader holds, 0 for none
  inv,        \* [Reqs -> record]: the invocation of each admitted request
  restarts,
  floor       \* history: [Fns -> Nat], edit on disk at the last clean reload

fnVars == <<file, cache, inv, restarts, floor>>
vars == <<apiVars, fnVars>>

NoInv == [fn |-> CHOOSE f \in Fns : TRUE, stage |-> "none", v |-> 0, ok |-> TRUE]

Init ==
  /\ InitKeys
  /\ file = [f \in Fns |-> [v |-> 1, there |-> TRUE, ok |-> TRUE]]
  /\ cache = [f \in Fns |-> 0]
  /\ inv = [r \in Reqs |-> NoInv]
  /\ restarts = 0
  /\ floor = [f \in Fns |-> 0]

----------------------------------------------------------------------------
(* The operator edits and removes files, at any time.                      *)

Edit(f, ok) ==
  /\ file[f].v < MaxEdits
  /\ file' = [file EXCEPT ![f] = [v |-> @.v + 1, there |-> TRUE, ok |-> ok]]
  /\ UNCHANGED <<apiVars, cache, inv, restarts, floor>>

RemoveFile(f) ==
  /\ file[f].there
  /\ file' = [file EXCEPT ![f].there = FALSE, ![f].ok = TRUE]
  /\ UNCHANGED <<apiVars, cache, inv, restarts, floor>>

Importing(f) ==
  \E r \in Reqs : inv[r].fn = f /\ inv[r].stage \in {"import", "imported"}

\* Mutant: only a function whose file is gone leaves the cache.
ClearedIfGone(F) == [f \in Fns |-> IF f \in F /\ ~file[f].there THEN 0 ELSE cache[f]]

\* clear(name) and clear(): the entries of F leave the cache.
Cleared(F) == [f \in Fns |-> IF f \in F THEN 0 ELSE cache[f]]

\* A reload is clean for a function that nobody is importing.
Floor(F) == [f \in Fns |->
               IF f \in F /\ ~Importing(f) THEN file[f].v ELSE floor[f]]

\* POST /_reload, for one function or for all; the route is open, before
\* the guard.
Reload(F) ==
  /\ cache' = Cleared(F)
  /\ floor' = Floor(F)
  /\ UNCHANGED <<apiVars, file, inv, restarts>>

----------------------------------------------------------------------------
(* dispatch: one request, from the guard's next() to its answer.           *)

\* A slot is free when its request is answered and its handler has settled.
Free(r) ==
  /\ req[r] = Idle
  /\ inv[r].stage = "none"

Receive(r, k) ==
  /\ Free(r)
  /\ Arrive(r, k)
  /\ UNCHANGED fnVars

\* The guard's callbacks that do not let the request through.
Guard(r) ==
  /\ FindActiveByHash(r) \/ LookupFails(r) \/ NoSuchKey(r) \/ OverLimit(r)
  /\ UNCHANGED fnVars

\* next() runs dispatch up to its first real wait: `?reload=1` clears the
\* function's entry, a cached module's handler is started, and otherwise the
\* file is resolved and its import begins; without a file the answer is 404.
Dispatch(r, f, reload) ==
  LET cleared == IF reload THEN {f} ELSE {}
      held == Cleared(cleared)[f]
      missing == held = 0 /\ ~file[f].there IN
  /\ Admit(r, missing)
  /\ cache' = Cleared(cleared)
  /\ floor' = Floor(cleared)
  /\ inv' = [inv EXCEPT ![r] =
       CASE missing -> NoInv
         [] held # 0 -> [NoInv EXCEPT !.stage = "running"]
         [] OTHER -> [NoInv EXCEPT !.fn = f, !.stage = "import"]]
  /\ UNCHANGED <<file, restarts>>

\* import(url) reads the file as it is now; it fails when the file is gone
\* or does not load.
ImportReads(r) ==
  LET f == inv[r].fn IN
  /\ inv[r].stage = "import"
  /\ inv' = [inv EXCEPT ![r].stage = "imported", ![r].v = file[f].v,
                        ![r].ok = file[f].there /\ file[f].ok]
  /\ UNCHANGED <<apiVars, file, cache, restarts, floor>>

\* load() goes on with the module: it is cached, whatever was cleared or
\* cached meanwhile, and runHandler sets the deadline and starts the
\* handler; or the module did not load and the answer is 500.
ImportDone(r) ==
  /\ inv[r].stage = "imported"
  /\ IF inv[r].ok
       THEN /\ cache' = [cache EXCEPT ![inv[r].fn] = inv[r].v]
            /\ inv' = [inv EXCEPT ![r] = [NoInv EXCEPT !.stage = "running"]]
            /\ UNCHANGED <<req, answers>>
       ELSE /\ Reply(r)
            /\ inv' = [inv EXCEPT ![r] = NoInv]
            /\ UNCHANGED cache
  /\ UNCHANGED <<keyVars, window, calls, dropped, admitted, now, writes, counted,
                 file, restarts, floor>>

\* The handler returns or throws first: the race is its result (normalized
\* to a status, 500 for a throw) and the timer is cleared.
Settle(r) ==
  /\ inv[r].stage = "running"
  /\ inv' = [inv EXCEPT ![r] = NoInv]
  /\ Reply(r)
  /\ UNCHANGED <<keyVars, window, calls, dropped, admitted, now, writes, counted,
                 file, cache, restarts, floor>>

\* Mutant: the handler is told to abort, but the race is not ended.
DeadlineOnlyAborts(r) == inv[r].stage = "running" /\ UNCHANGED vars

\* The deadline comes first: the handler is told to abort and the caller
\* gets a 504; the handler may go on.
Deadline(r) ==
  /\ inv[r].stage = "running"
  /\ inv' = [inv EXCEPT ![r].stage = "late"]
  /\ Reply(r)
  /\ UNCHANGED <<keyVars, window, calls, dropped, admitted, now, writes, counted,
                 file, cache, restarts, floor>>

\* A handler settles after its deadline: the race is over, nothing happens.
SettleLate(r) ==
  /\ inv[r].stage = "late"
  /\ inv' = [inv EXCEPT ![r] = NoInv]
  /\ UNCHANGED <<apiVars, file, cache, restarts, floor>>

\* The process dies and comes back: requests, cache and windows are gone.
Restart ==
  /\ restarts < MaxRestarts
  /\ restarts' = restarts + 1
  /\ ForgetWindows
  /\ cache' = [f \in Fns |-> 0]
  /\ inv' = [r \in Reqs |-> NoInv]
  /\ UNCHANGED <<file, floor>>

----------------------------------------------------------------------------

Serve(r) ==
  \/ Guard(r)
  \/ \E f \in Fns, reload \in BOOLEAN : Dispatch(r, f, reload)
  \/ ImportReads(r)
  \/ ImportDone(r)
  \/ Deadline(r)

Next ==
  \/ AdminNext /\ UNCHANGED fnVars
  \/ \E r \in Reqs :
       \/ \E k \in Keys \cup {NoKey} : Receive(r, k)
       \/ Serve(r)
       \/ Settle(r)
       \/ SettleLate(r)
  \/ \E f \in Fns :
       \/ \E ok \in BOOLEAN : Edit(f, ok)
       \/ RemoveFile(f)
       \/ Reload({f})
  \/ Reload(Fns)
  \/ Restart

Spec == Init /\ [][Next]_vars

\* Lookups answer or fail, imports end, timers fire and callbacks run; a
\* handler need not settle.
FairSpec == Spec /\ \A r \in Reqs : WF_vars(Serve(r))

----------------------------------------------------------------------------
(* Properties.                                                             *)

\* The guard's types, and a request is admitted exactly while its invocation
\* (dispatch) is loading or running.
TypeOK ==
  /\ TypeOKKeys
  /\ \A r \in Reqs :
       /\ inv[r].stage \in {"none", "import", "imported", "running", "late"}
       /\ inv[r].stage \in {"import", "imported", "running"} <=> req[r].phase = "admitted"
  /\ \A f \in Fns : cache[f] \in 0..MaxEdits /\ floor[f] \in 0..MaxEdits

\* The books of the guard: the rate bound of a key, its usage counter, and
\* one answer for every request (a handler that settles after its deadline
\* gives none).
BooksBalance == TypeOK /\ RateBounded /\ UsageAddsUp /\ AnswersAddUp

\* No handler runs for a request whose key was already revoked, or deleted
\* with its project, when the request came, and a key that can be found has
\* a project, whatever the admin service did between its statements.
OnlyLiveKeysRun ==
  /\ DeadKeysStayOut
  /\ KeysHaveProjects

\* Reloading works when nobody is importing: once a function has been
\* reloaded (by POST /_reload or a request with `?reload=1`) with no import
\* of it under way, neither the cache nor any import under way holds an edit
\* older than the one that was on disk, so no later request runs one.
ReloadTakes ==
  /\ \A f \in Fns : cache[f] # 0 => cache[f] >= floor[f]
  /\ \A r \in Reqs : inv[r].stage = "imported" => inv[r].v >= floor[inv[r].fn]

\* Every request is answered in the end, or dies with the process, although
\* its handler may never settle and its key may go away meanwhile.
EveryRequestAnswered == \A r \in Reqs : req[r] # Idle ~> req[r] = Idle
=============================================================================
