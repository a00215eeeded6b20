--------------------------- MODULE ClientSession ---------------------------
(***************************************************************************)
(* The session of the client library (client/src/auth.ts) in the tabs of   *)
(* one browser, which share localStorage and nothing else, with the        *)
(* factor calls of auth.mfa.* going to the auth service of module Mfa.     *)
(*                                                                         *)
(* A tab is one JavaScript thread: the listeners called by setSession run  *)
(* before anything else in the tab, as deep as they nest, so the calls     *)
(* under way are a stack and every other action of the tab waits for it to *)
(* be empty.  A session is the number of the sign-in that produced it; the *)
(* token's claims and the refresh token, which the client never reads, are *)
(* left out.                                                               *)
(***************************************************************************)
EXTENDS Mfa, Sequences, SequencesExt

CONSTANTS Tabs,        \* AuthClient instances on one storage key
          Listeners,   \* callbacks an application may subscribe in a tab
          MaxSignIns,  \* bound on the sign-ins
          Budgets      \* bounds on the calls of a behaviour, one is drawn:
                       \* its sign-ins, factor requests and other calls

ASSUME ClientAssumption ==
  /\ MaxSignIns \in Nat
  /\ Budgets \subseteq [signIns : 0..MaxSignIns, requests : Nat, calls : Nat]

None == 0                       \* no session
Sessions == 1..MaxSignIns

VARIABLES
  currentToken,  \* [Tabs -> session or None]
  storage,       \* session or None, under the storage key
  hash,          \* [Tabs -> session or None], access_token in the page's URL
  listeners,     \* [Tabs -> Seq(Listeners)], in the order of subscription
  initial,       \* [Tabs -> set of callbacks whose INITIAL_SESSION is queued]
  stack,         \* [Tabs -> Seq of emissions under way], innermost first
  signIn,        \* [Sessions -> [tab, account, state]]
  budget,        \* the calls that may still be made
  told,          \* history: [Tabs -> [Listeners -> session last told]]
  reentered,     \* history: tabs where a callback changed the session
  left           \* history: [Tabs -> sessions the tab signed out of]

tabVars == <<currentToken, storage, hash, listeners, initial, stack, told,
             reentered, left>>
vars == <<mfaVars, tabVars, signIn, budget>>

NoSignIn == [state |-> "none", tab |-> NoOne, account |-> NoOne]
Untold == -1
Quiet(t) == stack[t] = <<>>

\* Application code runs: from an event, or inside a callback just called.
AppRuns(t) == ~Quiet(t) => stack[t][1].called

Spend(kind) == budget[kind] > 0 /\ budget' = [budget EXCEPT ![kind] = @ - 1]

Init ==
  /\ InitMfa
  /\ currentToken = [t \in Tabs |-> None]
  /\ storage = None
  /\ hash = [t \in Tabs |-> None]
  /\ listeners = [t \in Tabs |-> <<>>]
  /\ initial = [t \in Tabs |-> {}]
  /\ stack = [t \in Tabs |-> <<>>]
  /\ signIn = [n \in Sessions |-> NoSignIn]
  /\ budget \in Budgets
  /\ told = [t \in Tabs |-> [l \in Listeners |-> Untold]]
  /\ reentered = {}
  /\ left = [t \in Tabs |-> {}]

AccountOf(n) == IF n = None THEN NoOne ELSE signIn[n].account

----------------------------------------------------------------------------
(* setSession: memory, storage, then every listener in turn.               *)

\* The storage key after setSession; the mutant forgets removeItem.
StoredUnlessCleared(n) == IF n = None THEN storage ELSE n             \* mutant
Persisted(n) == n

Told(n) == [session |-> n, seen |-> {}, called |-> FALSE]
NoSignOutEvent(n) == IF n = None THEN <<>> ELSE <<Told(n)>>           \* mutant
Emission(n) == <<Told(n)>>

setSession(t, n) ==
  /\ currentToken' = [currentToken EXCEPT ![t] = n]
  /\ storage' = Persisted(n)
  /\ stack' = [stack EXCEPT ![t] = Emission(n) \o @]

\* The loop over a live Set: the first callback subscribed and not yet seen,
\* including one added while the loop runs and not one deleted meanwhile.
Turn(t, i) ==
  /\ listeners[t][i] \notin stack[t][1].seen
  /\ \A j \in 1..(i - 1) : listeners[t][j] \in stack[t][1].seen

\* The loop calls the next callback, whose body the calls below are.
Emit(t) ==
  /\ ~Quiet(t)
  /\ \E i \in DOMAIN listeners[t] :
       /\ Turn(t, i)
       /\ stack' = [stack EXCEPT ![t][1].seen = @ \cup {listeners[t][i]}, ![t][1].called = TRUE]
       /\ told' = [told EXCEPT ![t][listeners[t][i]] = stack[t][1].session]
  /\ UNCHANGED <<mfaVars, currentToken, storage, hash, listeners, initial,
                 reentered, left, signIn, budget>>

EmissionEnds(t) ==
  /\ ~Quiet(t) /\ ToSet(listeners[t]) \subseteq stack[t][1].seen
  /\ stack' = [stack EXCEPT ![t] = Tail(@)]
  /\ UNCHANGED <<mfaVars, currentToken, storage, hash, listeners, initial, told,
                 reentered, left, signIn, budget>>

----------------------------------------------------------------------------
(* The calls of an application.                                            *)

\* A callback that was deleted and is added again comes last, and loops under
\* way come to it once more.
Unvisited(frames, l) == [i \in DOMAIN frames |-> [frames[i] EXCEPT !.seen = @ \ {l}]]

onAuthStateChange(t, l) ==
  /\ AppRuns(t)
  /\ Spend("calls")
  /\ l \notin ToSet(listeners[t]) \cup initial[t]
  /\ listeners' = [listeners EXCEPT ![t] = Append(@, l)]
  /\ initial' = [initial EXCEPT ![t] = @ \cup {l}]
  /\ told' = [told EXCEPT ![t][l] = Untold]
  /\ stack' = [stack EXCEPT ![t] = Unvisited(@, l)]
  /\ UNCHANGED <<mfaVars, currentToken, storage, hash, reentered, left, signIn>>

\* The microtask reads the session when it runs, and runs although the
\* callback may have been unsubscribed.
InitialSession(t, l) ==
  /\ Quiet(t)
  /\ l \in initial[t]
  /\ initial' = [initial EXCEPT ![t] = @ \ {l}]
  /\ told' = [told EXCEPT ![t][l] = currentToken[t]]
  /\ UNCHANGED <<mfaVars, currentToken, storage, hash, listeners, stack, reentered,
                 left, signIn, budget>>

unsubscribe(t, l) ==
  /\ AppRuns(t)
  /\ Spend("calls")
  /\ \E i \in DOMAIN listeners[t] :
       listeners[t][i] = l /\ listeners' = [listeners EXCEPT ![t] = RemoveAt(@, i)]
  /\ UNCHANGED <<mfaVars, currentToken, storage, hash, initial, stack, told, reentered,
                 left, signIn>>

\* Sign-ins are numbered in the order in which they are made.
Fresh(n) == \A m \in Sessions : (signIn[m] = NoSignIn) <=> (m >= n)

\* signUp, signInWithPassword, signInAnonymously: post, up to its await.
post(n, t, a) ==
  /\ AppRuns(t)
  /\ Fresh(n) /\ Spend("signIns")
  /\ signIn' = [signIn EXCEPT ![n] = [state |-> "sent", tab |-> t, account |-> a]]
  /\ UNCHANGED <<mfaVars, tabVars>>

\* The answer arrives, whatever the tab did meanwhile.
SignedIn(n) ==
  /\ signIn[n].state = "sent"
  /\ LET t == signIn[n].tab IN Quiet(t) /\ setSession(t, n)
  /\ signIn[n].account \in accounts
  /\ signIn' = [signIn EXCEPT ![n].state = "done"]
  /\ UNCHANGED <<mfaVars, hash, listeners, initial, told, reentered, left, budget>>

SignInFails(n) ==
  /\ signIn[n].state = "sent"
  /\ Quiet(signIn[n].tab)
  /\ signIn' = [signIn EXCEPT ![n].state = "done"]
  /\ UNCHANGED <<mfaVars, tabVars, budget>>

\* The POST to /logout carries the access token, which handleLogout does not
\* read: nothing changes on the server, and the answer is ignored.
signOut(t) ==
  /\ AppRuns(t)
  /\ Spend("calls")
  /\ setSession(t, None)
  /\ left' = [left EXCEPT ![t] = @ \cup ({currentToken[t]} \ {None})]
  /\ reentered' = IF Quiet(t) THEN reentered ELSE reentered \cup {t}
  /\ UNCHANGED <<mfaVars, hash, listeners, initial, told, signIn>>

----------------------------------------------------------------------------
(* Pages.  A new page has no listeners, no loops and no calls under way.    *)

LeaveHash(n) == n                                                     \* mutant
CleanHash(n) == None

\* A page loads: the constructor reads the storage, and detectSessionInUrl
\* adopts the session that `url` carries and cleans the URL.
Load(t, url) ==
  LET n == IF url # None THEN url ELSE storage IN
  /\ currentToken' = [currentToken EXCEPT ![t] = n]
  /\ storage' = n
  /\ hash' = [hash EXCEPT ![t] = CleanHash(url)]
  /\ listeners' = [listeners EXCEPT ![t] = <<>>]
  /\ initial' = [initial EXCEPT ![t] = {}]
  /\ stack' = [stack EXCEPT ![t] = <<>>]
  /\ told' = [told EXCEPT ![t] = [l \in Listeners |-> Untold]]
  /\ reentered' = reentered \ {t}

Dropped(t) == [n \in Sessions |->
  IF signIn[n].state = "sent" /\ signIn[n].tab = t
    THEN [signIn[n] EXCEPT !.state = "done"] ELSE signIn[n]]

Reload(t) ==
  /\ Quiet(t)
  /\ Spend("calls")
  /\ Load(t, hash[t])
  /\ signIn' = Dropped(t)
  /\ UNCHANGED <<mfaVars, left>>

\* signInWithOAuth or a link sent by signInWithOtp: the tab comes back from
\* the auth service on a page whose URL carries a new session.
Land(n, t, a) ==
  /\ Quiet(t)
  /\ Fresh(n) /\ Spend("signIns")
  /\ a \in accounts
  /\ Load(t, n)
  /\ signIn' = [Dropped(t) EXCEPT ![n] = [state |-> "done", tab |-> t, account |-> a]]
  /\ UNCHANGED <<mfaVars, left>>

\* MfaClient.request: the session is the tab's when the call is made.
request(t, s, op, f, c, code) ==
  /\ AppRuns(t)
  /\ Spend("requests")
  /\ Receive(s, op, AccountOf(currentToken[t]), f, c, code)
  /\ UNCHANGED <<tabVars, signIn>>

\* A code is read off the authenticator now, or was a step or two ago.
Request(t, s) ==
  \/ request(t, s, "enroll", NoOne, NoOne, 0)
  \/ \E f \in Factors :
       /\ factor[f] # NoFactor
       /\ \/ \E op \in {"challenge", "unenroll"} : request(t, s, op, f, NoOne, 0)
          \/ \E c \in Challenges, age \in 0..Window+1 :
               challenge[c] # NoChallenge /\ request(t, s, "verify", f, c, now - age)

ClientNext ==
  \/ \E t \in Tabs :
       \/ Emit(t) \/ EmissionEnds(t)
       \/ \E l \in Listeners :
            onAuthStateChange(t, l) \/ InitialSession(t, l) \/ unsubscribe(t, l)
       \/ signOut(t) \/ Reload(t)
       \/ \E s \in Slots : Request(t, s)
       \/ \E n \in Sessions, a \in Accounts : post(n, t, a) \/ Land(n, t, a)
  \/ \E n \in Sessions : SignedIn(n) \/ SignInFails(n)

Next == ClientNext \/ (NextMfa /\ UNCHANGED <<tabVars, signIn, budget>>)

Spec == Init /\ [][Next]_vars

----------------------------------------------------------------------------
(* Properties.                                                             *)

\* Whatever it subscribed to and whenever, a listener that has heard
\* something last heard of the session its tab has now, once the tab is
\* quiet; except where a callback changed the session while it was being
\* told of it, which makes later listeners hear the events in reverse.
ListenersAgree ==
  \A t \in Tabs \ reentered : Quiet(t) =>
    \A l \in ToSet(listeners[t]) :
      told[t][l] # Untold => told[t][l] = currentToken[t]

\* A tab never holds again a session it has signed out of: no reload, no
\* other tab and no left-over URL brings it back.
SignedOutStaysOut ==
  \A t \in Tabs : currentToken[t] \notin left[t] /\ storage \notin left[t]

\* Only a call sent with a session of the owner, the admin service or the
\* clean-up changes what becomes of a factor: a tab that changed accounts
\* between enrolling and verifying touches nobody else's factor.
FactorsStayWithOwner ==
  [][\A f \in Factors :
       factor[f].owner # NoOne /\ factor'[f].state # factor[f].state =>
         \/ \A s \in Slots : slot'[s] = slot[s]
         \/ \E s \in Slots : /\ slot'[s] # slot[s]
                              /\ slot[s].user = factor[f].owner
                              /\ slot[s].factor = f]_vars
=============================================================================
