-------------------------- MODULE AuthSessionsProofs --------------------------
(***************************************************************************)
(* Proofs about AuthSessions for every set of accounts and requests and    *)
(* every bound: revocations end the sessions they are meant to end,        *)
(* tokens, links and codes are used up, and all sessions of a Google       *)
(* account belong to one user.                                             *)
(***************************************************************************)
EXTENDS AuthSessions, FiniteSetTheorems, TLAPS

USE EmailsAssumption, NoneAssumption, RequestsAssumption, LimitsAssumption

-----------------------------------------------------------------------------
(***************************************************************************)
(* Types, and what a request carries.                                      *)
(***************************************************************************)
Presenting == {"refresh", "reuse", "expiry", "logout"}
Redeeming == {"reset", "verify", "magic", "otp"}
Minting == {"login", "refresh", "magic", "otp", "google"}
Ops == Presenting \cup Redeeming \cup Minting \cup {"none", "suspend", "revoke"}
Pcs == {"idle", "issue", "findUser", "killFamily", "revokeToken", "revokeAll", "mark",
        "attempt", "setVerified", "password", "createUser", "identity", "refused"}

User == [here : BOOLEAN, name : Names \cup {None}, email : Emails \cup {None},
         phone : Phones \cup {None}, pw : Nat, verified : BOOLEAN, suspended : BOOLEAN]
Token == [here : BOOLEAN, user : Nat, revoked : BOOLEAN, expired : BOOLEAN, family : Nat,
          parent : Nat, pw : Nat, sub : Subjects \cup {None}, exempt : BOOLEAN,
          raced : BOOLEAN]
Ticket == [here : BOOLEAN, kind : Redeeming, user : Nat, used : BOOLEAN,
           expired : BOOLEAN, attempts : Nat, wins : Nat, raced : BOOLEAN]
Request == [pc : Pcs, op : Ops, user : Nat, tok : Nat, ticket : Nat, pw : Nat,
            sub : Subjects \cup {None}, late : BOOLEAN, blocked : BOOLEAN]

\* What request q carries depends on what it is for, and its next statement, too.
Formed(q) ==
  /\ q.op \in Presenting => q.tok \in DOMAIN tokens /\ q.user = tokens[q.tok].user
  /\ q.op \notin Presenting => q.tok = 0
  /\ q.op \in Redeeming => /\ q.ticket \in DOMAIN tickets /\ q.user \in DOMAIN users
                           /\ tickets[q.ticket].kind = q.op
  /\ q.op = "google" => q.sub \in Subjects
  /\ q.op \in {"magic", "otp", "google"} => q.pw = 0
  /\ q.pc = "idle" => q.op = "none"
  /\ q.pc = "issue" => q.op \in Minting
  /\ q.pc = "findUser" => q.op \in {"refresh", "magic", "otp", "google"}
  /\ q.pc = "killFamily" => q.op \in {"refresh", "reuse", "logout"}
  /\ q.pc = "revokeToken" => q.op \in {"refresh", "expiry"}
  /\ q.pc = "revokeAll" => q.op \in {"reset", "suspend", "revoke"}
  /\ q.pc = "mark" => q.op \in Redeeming
  /\ q.pc = "attempt" => q.op = "otp"
  /\ q.pc = "setVerified" => q.op \in {"verify", "magic"}
  /\ q.pc = "password" => q.op = "reset"
  /\ q.pc \in {"createUser", "identity", "refused"} => q.op = "google"

Typed ==
  /\ users \in Seq(User) /\ tokens \in Seq(Token) /\ tickets \in Seq(Ticket)
  /\ reqs \in [Requests -> Request]
  /\ \A r \in Requests : Formed(reqs[r])
  /\ TypeOK

\* The rows of a table are there for good, as inserted, but for their marks.
UsersGrow ==
  /\ users' \in Seq(User)
  /\ Len(users) <= Len(users') /\ Len(users') <= MaxUsers
  /\ \A u \in DOMAIN users : users'[u].here => users[u].here

TokensGrow ==
  /\ tokens' \in Seq(Token)
  /\ Len(tokens) <= Len(tokens') /\ Len(tokens') <= MaxTokens
  /\ \A t \in DOMAIN tokens :
       /\ tokens'[t].user = tokens[t].user /\ tokens'[t].family = tokens[t].family
       /\ tokens'[t].parent = tokens[t].parent /\ tokens'[t].pw = tokens[t].pw
       /\ tokens'[t].sub = tokens[t].sub
       /\ tokens'[t].here => tokens[t].here
       /\ tokens[t].revoked => tokens'[t].revoked
       /\ tokens[t].exempt => tokens'[t].exempt
       /\ tokens[t].raced => tokens'[t].raced

TicketsGrow ==
  /\ tickets' \in Seq(Ticket)
  /\ Len(tickets) <= Len(tickets') /\ Len(tickets') <= MaxTickets
  /\ \A k \in DOMAIN tickets :
       /\ tickets'[k].user = tickets[k].user /\ tickets'[k].kind = tickets[k].kind
       /\ tickets'[k].here => tickets[k].here

\* The accounts that rows name are there.
Referring ==
  /\ \A t \in DOMAIN tokens' : tokens'[t].here => tokens'[t].user \in Here'
  /\ \A k \in DOMAIN tickets' : tickets'[k].here => tickets'[k].user \in Here'
  /\ \A t \in DOMAIN tokens' \ DOMAIN tokens :
       /\ tokens'[t].user \in DOMAIN users' /\ tokens'[t].family \in 1..t
       /\ tokens'[t].parent \in 0..(t - 1)

\* Request p is where q was, or only its history differs.
Alike(p, q) ==
  /\ p.pc = q.pc /\ p.op = q.op /\ p.user = q.user /\ p.tok = q.tok
  /\ p.ticket = q.ticket /\ p.pw = q.pw /\ p.sub = q.sub

-----------------------------------------------------------------------------
\* The bounds are numbers above zero.
LEMMA NumbersOfBounds ==
  /\ MaxAttempts \in Nat \ {0} /\ MaxPassword \in Nat \ {0} /\ MaxUsers \in Nat \ {0}
  /\ MaxTokens \in Nat \ {0} /\ MaxTickets \in Nat \ {0}
  OBVIOUS

\* A function over the positions of a sequence is a sequence.
LEMMA Marked ==
  ASSUME NEW S, NEW s \in Seq(S), NEW f \in [DOMAIN s -> S]
  PROVE  f \in Seq(S) /\ Len(f) = Len(s) /\ DOMAIN f = DOMAIN s
  OBVIOUS

\* What Append adds to a sequence of rows.
LEMMA Appended ==
  ASSUME NEW S, NEW s \in Seq(S), NEW e \in S
  PROVE  /\ Append(s, e) \in Seq(S) /\ Len(Append(s, e)) = Len(s) + 1
         /\ DOMAIN Append(s, e) = DOMAIN s \cup {Len(s) + 1}
         /\ \A i \in DOMAIN s : Append(s, e)[i] = s[i]
         /\ Append(s, e)[Len(s) + 1] = e /\ Len(s) + 1 \notin DOMAIN s
  OBVIOUS

\* When rows stay, a request that was well formed is so.
LEMMA FormedStep ==
  ASSUME Typed, UsersGrow, TokensGrow, TicketsGrow,
         NEW p \in Request, NEW q \in Request, Formed(q), Alike(p, q)
  PROVE  (p.op \in Presenting => p.tok \in DOMAIN tokens' /\ p.user = tokens'[p.tok].user)
         /\ (p.op \in Redeeming => /\ p.ticket \in DOMAIN tickets' /\ p.user \in DOMAIN users'
                                   /\ tickets'[p.ticket].kind = p.op)
  BY SMTT(20) DEF Typed, UsersGrow, TokensGrow, TicketsGrow, Formed, Alike

\* A step whose rows grow and refer to each other, and whose requests are like
\* those before or well formed, keeps the types.
LEMMA TypedStep ==
  ASSUME Typed, UsersGrow, TokensGrow, TicketsGrow, Referring,
         identities' \in [Subjects -> 0..Len(users')],
         condemned' \subseteq DOMAIN tokens',
         reqs' \in [Requests -> Request],
         \A r \in Requests :
           \/ Alike(reqs'[r], reqs[r])
           \/ /\ Formed(reqs[r])'
              /\ reqs'[r].user \in 0..Len(users') /\ reqs'[r].ticket \in 0..Len(tickets')
  PROVE  Typed'
<1>1. \A r \in Requests : Formed(reqs[r])'
  <2> SUFFICES ASSUME NEW r \in Requests, Alike(reqs'[r], reqs[r])
               PROVE  Formed(reqs[r])'
    OBVIOUS
  <2>1. Formed(reqs[r]) /\ reqs[r] \in Request /\ reqs'[r] \in Request
    BY DEF Typed
  <2> QED
    BY <2>1, FormedStep DEF Formed, Alike
<1>2. /\ Len(users) \in Nat /\ Len(users') \in Nat /\ Len(tokens) \in Nat
      /\ Len(tokens') \in Nat /\ Len(tickets) \in Nat /\ Len(tickets') \in Nat
      /\ Len(users) <= Len(users') /\ Len(tokens) <= Len(tokens')
      /\ Len(tickets) <= Len(tickets')
      /\ DOMAIN users = 1..Len(users) /\ DOMAIN users' = 1..Len(users')
      /\ DOMAIN tokens = 1..Len(tokens) /\ DOMAIN tokens' = 1..Len(tokens')
  BY DEF Typed, UsersGrow, TokensGrow, TicketsGrow
<1>3. \A r \in Requests : /\ reqs'[r].user \in 0..Len(users')
                          /\ reqs'[r].tok \in 0..Len(tokens')
                          /\ reqs'[r].ticket \in 0..Len(tickets')
  <2> SUFFICES ASSUME NEW r \in Requests
               PROVE  /\ reqs'[r].user \in 0..Len(users')
                      /\ reqs'[r].tok \in 0..Len(tokens')
                      /\ reqs'[r].ticket \in 0..Len(tickets')
    OBVIOUS
  <2>1. /\ reqs[r].user \in 0..Len(users) /\ reqs[r].tok \in 0..Len(tokens)
        /\ reqs[r].ticket \in 0..Len(tickets)
    BY DEF Typed, TypeOK
  <2>2. reqs'[r].tok \in 0..Len(tokens')
    BY <1>1, <1>2 DEF Formed
  <2>3. CASE Alike(reqs'[r], reqs[r])
    BY SMTT(20), <1>2, <2>1, <2>2, <2>3 DEF Alike
  <2> QED
    BY <2>2, <2>3
<1>4. \A t \in DOMAIN tokens' : /\ tokens'[t].user \in DOMAIN users'
                                /\ tokens'[t].family \in 1..t
                                /\ tokens'[t].parent \in 0..(t - 1)
  <2>1. \A t \in DOMAIN tokens : /\ tokens[t].user \in DOMAIN users
                                 /\ tokens[t].family \in 1..t
                                 /\ tokens[t].parent \in 0..(t - 1)
    BY DEF Typed, TypeOK
  <2>2. \A t \in DOMAIN tokens : /\ tokens'[t].user = tokens[t].user
                                 /\ tokens'[t].family = tokens[t].family
                                 /\ tokens'[t].parent = tokens[t].parent
    BY DEF TokensGrow
  <2> SUFFICES ASSUME NEW t \in DOMAIN tokens'
               PROVE  /\ tokens'[t].user \in DOMAIN users'
                      /\ tokens'[t].family \in 1..t
                      /\ tokens'[t].parent \in 0..(t - 1)
    OBVIOUS
  <2>3. CASE t \in DOMAIN tokens
    <3>1. /\ tokens[t].user \in DOMAIN users /\ tokens[t].family \in 1..t
          /\ tokens[t].parent \in 0..(t - 1)
      BY <2>1, <2>3
    <3>2. DOMAIN users \subseteq DOMAIN users'
      BY <1>2
    <3> QED
      BY <2>2, <2>3, <3>1, <3>2
  <2>4. CASE t \notin DOMAIN tokens
    BY <2>4 DEF Referring
  <2> QED
    BY <2>3, <2>4
<1>5. TypeOK'
  BY <1>3, <1>4 DEF TypeOK, UsersGrow, TokensGrow, TicketsGrow, Referring
<1> QED
  BY <1>1, <1>5 DEF Typed, UsersGrow, TokensGrow, TicketsGrow

-----------------------------------------------------------------------------
(***************************************************************************)
(* How requests come, go on and end.                                       *)
(***************************************************************************)
LEMMA ForTyped ==
  ASSUME NEW op \in Ops, NEW u \in Nat, NEW pc \in Pcs
  PROVE  /\ For(op, u, pc) \in Request /\ Idle \in Request
         /\ For(op, u, pc).op = op /\ For(op, u, pc).user = u /\ For(op, u, pc).pc = pc
         /\ For(op, u, pc).tok = 0 /\ For(op, u, pc).ticket = 0 /\ For(op, u, pc).pw = 0
         /\ For(op, u, pc).sub = None /\ ~For(op, u, pc).late
         /\ (For(op, u, pc).blocked <=> (u \in DOMAIN users /\ users[u].suspended))
         /\ Idle.pc = "idle" /\ Idle.op = "none" /\ Idle.user = 0 /\ Idle.tok = 0
         /\ Idle.ticket = 0 /\ ~Idle.late /\ ~Idle.blocked
<1>1. Idle \in Request
  BY DEF Idle, Request, Pcs, Ops
<1> QED
  BY <1>1 DEF For, Idle, Request

\* A handler's first statement types its request and leaves the others.
LEMMA Begins ==
  ASSUME Typed, NEW r \in Requests, NEW q \in Request, Begin(r, q)
  PROVE  /\ reqs' \in [Requests -> Request] /\ reqs'[r] = q
         /\ \A s \in Requests \ {r} : reqs'[s] = reqs[s]
         /\ reqs[r] = Idle /\ reqs[r].pc = "idle" /\ reqs[r].op = "none"
  BY DEF Typed, Begin, Idle

\* A handler that goes on types its request and leaves the others.
LEMMA GoesOn ==
  ASSUME Typed, NEW r \in Requests, NEW pc \in Pcs, Then(r, pc)
  PROVE  /\ reqs' \in [Requests -> Request] /\ reqs'[r] \in Request
         /\ \A s \in Requests \ {r} : reqs'[s] = reqs[s]
         /\ reqs'[r].pc = pc /\ reqs'[r].op = reqs[r].op /\ reqs'[r].user = reqs[r].user
         /\ reqs'[r].tok = reqs[r].tok /\ reqs'[r].ticket = reqs[r].ticket
         /\ reqs'[r].pw = reqs[r].pw /\ reqs'[r].sub = reqs[r].sub
         /\ reqs'[r].late = reqs[r].late /\ reqs'[r].blocked = reqs[r].blocked
<1> DEFINE q == [reqs[r] EXCEPT !.pc = pc]
<1>1. reqs[r] \in Request
  BY DEF Typed
<1>2. /\ q \in Request
      /\ q.pc = pc /\ q.op = reqs[r].op /\ q.user = reqs[r].user /\ q.tok = reqs[r].tok
      /\ q.ticket = reqs[r].ticket /\ q.pw = reqs[r].pw /\ q.sub = reqs[r].sub
      /\ q.late = reqs[r].late /\ q.blocked = reqs[r].blocked
  BY <1>1 DEF Request
<1>3. reqs' = [reqs EXCEPT ![r] = q]
  BY DEF Then
<1> HIDE DEF q
<1> QED
  BY <1>2, <1>3 DEF Typed

\* An answered request leaves an idle slot and the other requests as they are.
LEMMA EndsIdle ==
  ASSUME Typed, NEW r \in Requests, End(r)
  PROVE  /\ reqs' \in [Requests -> Request] /\ reqs'[r] = Idle
         /\ reqs'[r].pc = "idle" /\ reqs'[r].op = "none"
         /\ \A s \in Requests \ {r} : reqs'[s] = reqs[s]
<1>1. Idle \in Request
  BY ForTyped DEF Ops, Pcs
<1> QED
  BY <1>1 DEF Typed, End, Idle

\* An idle request is well formed.
LEMMA IdleFormed ==
  /\ Idle \in Request /\ Formed(Idle)
  /\ Idle.user = 0 /\ Idle.ticket = 0 /\ Idle.tok = 0
<1>1. Idle \in Request /\ Idle.op = "none" /\ Idle.pc = "idle" /\ Idle.tok = 0
      /\ Idle.user = 0 /\ Idle.ticket = 0
  BY ForTyped DEF Ops, Pcs
<1> QED
  BY <1>1 DEF Formed, Presenting, Redeeming

\* Ending marks what requests it overlapped, and else leaves them alone.
LEMMA Marks ==
  ASSUME Typed, NEW r \in Requests, EndMarking(r)
  PROVE  /\ reqs' \in [Requests -> Request] /\ reqs'[r] = Idle
         /\ \A s \in Requests \ {r} :
              /\ Alike(reqs'[s], reqs[s]) /\ reqs'[s].blocked = reqs[s].blocked
              /\ reqs'[s].late = (reqs[s].late \/ s \in Overlapping(r))
<1>1. ASSUME NEW s \in Requests \ {r}
      PROVE  /\ reqs'[s] \in Request
             /\ Alike(reqs'[s], reqs[s]) /\ reqs'[s].blocked = reqs[s].blocked
             /\ reqs'[s].late = (reqs[s].late \/ s \in Overlapping(r))
  <2> DEFINE l == reqs[s].late \/ s \in Overlapping(r)
  <2>1. reqs[s] \in Request /\ l \in BOOLEAN
    BY DEF Typed
  <2>2. reqs'[s] = [reqs[s] EXCEPT !.late = l]
    BY DEF EndMarking
  <2> HIDE DEF l
  <2>3. reqs'[s] \in Request /\ Alike(reqs'[s], reqs[s]) /\ reqs'[s].blocked = reqs[s].blocked
        /\ reqs'[s].late = l
    BY <2>1, <2>2 DEF Alike, Request
  <2> QED
    BY <2>3 DEF l
<1>2. reqs'[r] = Idle
  BY DEF EndMarking
<1>3. reqs' \in [Requests -> Request]
  BY <1>1, <1>2, IdleFormed DEF EndMarking
<1> QED
  BY <1>1, <1>2, <1>3

\* A table that is not written does not change.
LEMMA NothingGrows ==
  ASSUME Typed
  PROVE  /\ UNCHANGED users => UsersGrow
         /\ UNCHANGED tokens => TokensGrow
         /\ UNCHANGED tickets => TicketsGrow
         /\ UNCHANGED <<users, tokens, tickets>> => Referring
         /\ UNCHANGED <<users, identities>> => identities' \in [Subjects -> 0..Len(users')]
         /\ UNCHANGED <<tokens, condemned>> => condemned' \subseteq DOMAIN tokens'
<1>1. UNCHANGED users => UsersGrow
  BY DEF Typed, TypeOK, UsersGrow
<1>2. UNCHANGED tokens => TokensGrow
  BY DEF Typed, TypeOK, TokensGrow
<1>3. UNCHANGED tickets => TicketsGrow
  BY DEF Typed, TypeOK, TicketsGrow
<1>4. ASSUME UNCHANGED <<users, tokens, tickets>>
      PROVE  Referring
  <2>1. Here' = Here
    BY <1>4 DEF Here
  <2> QED
    BY <1>4, <2>1 DEF Typed, TypeOK, Referring
<1> QED
  BY <1>1, <1>2, <1>3, <1>4 DEF Typed, TypeOK

-----------------------------------------------------------------------------
(***************************************************************************)
(* Every step keeps the types.                                             *)
(***************************************************************************)
\* A step of request r alone.
LEMMA RequestStep ==
  ASSUME Typed, NEW r \in Requests, UsersGrow, TokensGrow, TicketsGrow, Referring,
         identities' \in [Subjects -> 0..Len(users')],
         condemned' \subseteq DOMAIN tokens',
         reqs' \in [Requests -> Request],
         \A s \in Requests \ {r} : reqs'[s] = reqs[s],
         Formed(reqs[r])', reqs'[r].user \in 0..Len(users'),
         reqs'[r].ticket \in 0..Len(tickets')
  PROVE  Typed'
<1>1. \A s \in Requests \ {r} : Alike(reqs'[s], reqs[s])
  BY DEF Alike
<1> QED
  BY <1>1, TypedStep

\* A step of the rows alone.
LEMMA RowsStep ==
  ASSUME Typed, UsersGrow, TokensGrow, TicketsGrow, Referring,
         identities' \in [Subjects -> 0..Len(users')],
         UNCHANGED <<reqs, condemned>>
  PROVE  Typed'
<1>1. \A r \in Requests : Alike(reqs'[r], reqs[r])
  BY DEF Alike
<1>2. reqs' \in [Requests -> Request]
  BY DEF Typed
<1>3. condemned' \subseteq DOMAIN tokens'
  BY DEF Typed, TypeOK, TokensGrow
<1> QED
  BY <1>1, <1>2, <1>3, TypedStep

\* A step of request r that changes no row.
LEMMA QuietStep ==
  ASSUME Typed, NEW r \in Requests, UNCHANGED <<users, tokens, tickets, identities>>,
         condemned' \subseteq DOMAIN tokens,
         reqs' \in [Requests -> Request],
         \A s \in Requests \ {r} : reqs'[s] = reqs[s],
         Formed(reqs[r])', reqs'[r].user \in 0..Len(users),
         reqs'[r].ticket \in 0..Len(tickets)
  PROVE  Typed'
  BY NothingGrows, RequestStep

\* handleLogin: types.
LEMMA LoginTyped ==
  ASSUME Typed, NEW r \in Requests, NEW u \in DOMAIN users, Login(r, u)
  PROVE  Typed'
<1> DEFINE q == [For("login", u, "issue") EXCEPT !.pw = users[u].pw]
<1>1. u \in Nat /\ u \in 0..Len(users) /\ users[u].pw \in Nat
  <2>1. users[u] \in User
    BY DEF Typed
  <2> QED
    BY <2>1 DEF Typed, User
<1>2. q \in Request /\ q.op = "login" /\ q.pc = "issue" /\ q.user = u /\ q.tok = 0 /\ q.ticket = 0
  <2>1. "login" \in Ops /\ "issue" \in Pcs
    BY DEF Ops, Minting, Pcs
  <2> DEFINE f == For("login", u, "issue")
  <2>2. /\ f \in Request /\ f.op = "login" /\ f.pc = "issue" /\ f.user = u /\ f.tok = 0
        /\ f.ticket = 0
    BY <1>1, <2>1, ForTyped
  <2> HIDE DEF f
  <2>3. q = [f EXCEPT !.pw = users[u].pw]
    BY DEF f
  <2> HIDE DEF q
  <2> QED
    BY <1>1, <2>2, <2>3 DEF Request
<1>3. Begin(r, q) /\ UNCHANGED <<users, tokens, tickets, identities, condemned>>
  BY DEF Login
<1> HIDE DEF q
<1>4. reqs' \in [Requests -> Request] /\ reqs'[r] = q /\ \A s \in Requests \ {r} : reqs'[s] = reqs[s]
  BY <1>2, <1>3, Begins
<1>5. Formed(reqs[r])'
  BY <1>2, <1>4 DEF Formed, Presenting, Redeeming, Minting
<1>6. condemned' \subseteq DOMAIN tokens /\ 0 \in 0..Len(tickets)
  BY <1>3 DEF Typed, TypeOK
<1> QED
  BY <1>1, <1>2, <1>3, <1>4, <1>5, <1>6, QuietStep

\* What a request presents a token with.
LEMMA PresentedTyped ==
  ASSUME Typed, NEW op \in Presenting, NEW t \in DOMAIN tokens, NEW pc \in Pcs
  PROVE  LET q == Presented(op, t, pc) IN
         /\ q \in Request /\ q.op = op /\ q.pc = pc /\ q.tok = t /\ q.user = tokens[t].user
         /\ q.ticket = 0 /\ q.pw = tokens[t].pw /\ q.sub = tokens[t].sub
         /\ q.late = tokens[t].exempt
         /\ q.blocked <=> (q.user \in DOMAIN users /\ users[q.user].suspended)
         /\ q.user \in 0..Len(users)
<1>1. tokens[t] \in Token /\ t \in Nat
  BY DEF Typed
<1>2. /\ tokens[t].user \in Nat /\ tokens[t].pw \in Nat /\ tokens[t].exempt \in BOOLEAN
      /\ tokens[t].sub \in Subjects \cup {None}
  BY <1>1 DEF Token
<1>3. tokens[t].user \in 0..Len(users)
  BY DEF Typed, TypeOK
<1>4. op \in Ops
  BY DEF Ops
<1> DEFINE f == For(op, tokens[t].user, pc)
<1>5. /\ f \in Request /\ f.op = op /\ f.user = tokens[t].user /\ f.pc = pc /\ f.ticket = 0
      /\ f.blocked <=> (tokens[t].user \in DOMAIN users /\ users[tokens[t].user].suspended)
  BY <1>2, <1>4, ForTyped
<1> DEFINE q == Presented(op, t, pc)
<1>6. q = [f EXCEPT !.tok = t, !.pw = tokens[t].pw, !.sub = tokens[t].sub,
                    !.late = tokens[t].exempt]
  BY DEF Presented
<1> HIDE DEF f, q
<1>7. /\ q \in Request /\ q.op = op /\ q.pc = pc /\ q.tok = t /\ q.user = tokens[t].user
      /\ q.ticket = 0 /\ q.pw = tokens[t].pw /\ q.sub = tokens[t].sub
      /\ q.late = tokens[t].exempt /\ q.blocked = f.blocked
  BY <1>1, <1>2, <1>5, <1>6 DEF Request
<1> QED
  BY <1>3, <1>5, <1>7 DEF q

\* handleRefresh and handleLogout up to their first read: types.
LEMMA RefreshTyped ==
  ASSUME Typed, NEW r \in Requests, NEW t \in DOMAIN tokens, Refresh(r, t) \/ Logout(r, t)
  PROVE  Typed' /\ TokensGrow
<1>1. ASSUME NEW op \in Presenting, NEW pc \in {"killFamily", "revokeToken", "findUser"},
             Begin(r, Presented(op, t, pc)),
             pc = "killFamily" => op \in {"reuse", "logout"},
             pc = "revokeToken" => op = "expiry", pc = "findUser" => op = "refresh"
      PROVE  /\ reqs' \in [Requests -> Request] /\ Formed(reqs[r]) /\ reqs[r].op = "none"
             /\ \A s \in Requests \ {r} : reqs'[s] = reqs[s]
             /\ reqs'[r].op = op /\ reqs'[r].pc = pc /\ reqs'[r].tok = t
             /\ reqs'[r].user = tokens[t].user /\ reqs'[r].ticket = 0
             /\ reqs'[r].user \in 0..Len(users)
  <2> DEFINE q == Presented(op, t, pc)
  <2>1. /\ q \in Request /\ q.op = op /\ q.pc = pc /\ q.tok = t /\ q.user = tokens[t].user
        /\ q.ticket = 0 /\ q.user \in 0..Len(users)
    BY PresentedTyped DEF Pcs
  <2> HIDE DEF q
  <2>2. Begin(r, q)
    BY <1>1 DEF q
  <2> QED
    BY <2>1, <2>2, Begins DEF Typed
<1>2. CASE UNCHANGED tokens /\ (condemned' = condemned \/ condemned' = condemned \cup {tokens[t].family})
           /\ UNCHANGED <<users, identities, tickets>>
           /\ \E op \in Presenting, pc \in {"killFamily", "revokeToken", "findUser"} :
                /\ Begin(r, Presented(op, t, pc))
                /\ pc = "killFamily" => op \in {"reuse", "logout"}
                /\ pc = "revokeToken" => op = "expiry"
                /\ pc = "findUser" => op = "refresh"
  <2>1. PICK op \in Presenting, pc \in {"killFamily", "revokeToken", "findUser"} :
                /\ Begin(r, Presented(op, t, pc))
                /\ pc = "killFamily" => op \in {"reuse", "logout"}
                /\ pc = "revokeToken" => op = "expiry"
                /\ pc = "findUser" => op = "refresh"
    BY <1>2
  <2>2. /\ reqs' \in [Requests -> Request] /\ \A s \in Requests \ {r} : reqs'[s] = reqs[s]
        /\ reqs'[r].op = op /\ reqs'[r].pc = pc /\ reqs'[r].tok = t
        /\ reqs'[r].user = tokens[t].user /\ reqs'[r].ticket = 0
        /\ reqs'[r].user \in 0..Len(users)
    BY <1>1, <2>1
  <2>3. Formed(reqs[r])'
    BY <1>2, <2>1, <2>2 DEF Formed, Presenting, Redeeming
  <2>4. condemned' \subseteq DOMAIN tokens /\ 0 \in 0..Len(tickets)
    BY <1>2 DEF Typed, TypeOK
  <2>5. TokensGrow
    BY <1>2, NothingGrows
  <2> QED
    BY <1>2, <2>2, <2>3, <2>4, <2>5, QuietStep
<1>3. CASE /\ Begin(r, Presented("refresh", t, "findUser"))
           /\ tokens' = [tokens EXCEPT ![t].raced = @ \/ \E q \in Requests : InRefresh(q, t)]
           /\ UNCHANGED <<users, identities, tickets, condemned>>
  <2> DEFINE raced == tokens[t].raced \/ \E q \in Requests : InRefresh(q, t)
             new == [tokens[t] EXCEPT !.raced = raced]
  <2>1. tokens[t] \in Token
    BY DEF Typed
  <2>2. /\ new \in Token /\ new.user = tokens[t].user /\ new.family = tokens[t].family
        /\ new.parent = tokens[t].parent /\ new.pw = tokens[t].pw /\ new.sub = tokens[t].sub
        /\ new.here = tokens[t].here /\ new.revoked = tokens[t].revoked
        /\ new.exempt = tokens[t].exempt /\ (tokens[t].raced => new.raced)
    BY <2>1 DEF Token
  <2>3. tokens' = [tokens EXCEPT ![t] = new]
    BY <1>3
  <2> HIDE DEF new
  <2>4. /\ tokens' \in Seq(Token) /\ Len(tokens') = Len(tokens) /\ DOMAIN tokens' = DOMAIN tokens
        /\ tokens'[t] = new /\ \A i \in DOMAIN tokens \ {t} : tokens'[i] = tokens[i]
    BY <2>2, <2>3 DEF Typed
  <2>5. TokensGrow
    <3>1. \A i \in DOMAIN tokens : i # t => tokens'[i] = tokens[i]
      BY <2>4
    <3>2. Len(tokens') \in Nat /\ Len(tokens') <= MaxTokens
      BY <2>4 DEF Typed, TypeOK
    <3> QED
      BY <2>2, <2>4, <3>1, <3>2 DEF TokensGrow
  <2>6. Referring
    <3>1. Here' = Here
      BY <1>3 DEF Here
    <3>2. \A i \in DOMAIN tokens : tokens'[i].here = tokens[i].here /\ tokens'[i].user = tokens[i].user
      BY <2>2, <2>4
    <3> QED
      BY SMTT(20), <1>3, <2>4, <3>1, <3>2 DEF Referring, Typed, TypeOK
  <2>7. /\ reqs' \in [Requests -> Request] /\ \A s \in Requests \ {r} : reqs'[s] = reqs[s]
        /\ reqs'[r].op = "refresh" /\ reqs'[r].pc = "findUser" /\ reqs'[r].tok = t
        /\ reqs'[r].user = tokens[t].user /\ reqs'[r].ticket = 0
        /\ reqs'[r].user \in 0..Len(users)
    BY <1>1, <1>3 DEF Presenting
  <2>8. tokens'[t].user = tokens[t].user
    BY <2>2, <2>4
  <2>9. Formed(reqs[r])'
    BY <2>4, <2>7, <2>8 DEF Formed, Presenting, Redeeming
  <2>10. condemned' \subseteq DOMAIN tokens' /\ 0 \in 0..Len(tickets')
    BY <1>3, <2>4 DEF Typed, TypeOK
  <2>11. UsersGrow /\ TicketsGrow /\ identities' \in [Subjects -> 0..Len(users')]
    BY <1>3, NothingGrows
  <2> QED
    BY <1>3, <2>5, <2>6, <2>7, <2>9, <2>10, <2>11, RequestStep
<1> QED
  BY <1>2, <1>3 DEF Refresh, Logout, Presenting

\* A request that goes on and changes no row.
LEMMA GoesOnTyped ==
  ASSUME Typed, NEW r \in Requests, NEW pc \in Pcs, Then(r, pc),
         UNCHANGED <<users, tokens, tickets, identities, condemned>>,
         LET op == reqs[r].op IN
         \/ pc = "issue" /\ op \in Minting
         \/ pc = "setVerified" /\ op = "magic"
         \/ pc = "revokeToken" /\ op = "refresh"
         \/ pc = "killFamily" /\ op = "refresh"
         \/ pc = "refused" /\ op = "google"
  PROVE  Typed'
<1>1. /\ reqs' \in [Requests -> Request] /\ \A s \in Requests \ {r} : reqs'[s] = reqs[s]
      /\ reqs'[r].pc = pc /\ reqs'[r].op = reqs[r].op /\ reqs'[r].user = reqs[r].user
      /\ reqs'[r].tok = reqs[r].tok /\ reqs'[r].ticket = reqs[r].ticket
      /\ reqs'[r].pw = reqs[r].pw /\ reqs'[r].sub = reqs[r].sub
  BY GoesOn
<1>2. Formed(reqs[r])
  BY DEF Typed
<1>3. Formed(reqs[r])'
  BY <1>1, <1>2 DEF Formed, Redeeming
<1>4. reqs[r].user \in 0..Len(users) /\ reqs[r].ticket \in 0..Len(tickets)
      /\ condemned' \subseteq DOMAIN tokens
  BY DEF Typed, TypeOK
<1> QED
  BY <1>1, <1>3, <1>4, QuietStep

\* A request that ends and changes no row.
LEMMA EndTyped ==
  ASSUME Typed, NEW r \in Requests, End(r),
         UNCHANGED <<users, tokens, tickets, identities, condemned>>
  PROVE  Typed'
<1>1. /\ reqs' \in [Requests -> Request] /\ \A s \in Requests \ {r} : reqs'[s] = reqs[s]
      /\ reqs'[r] = Idle
  BY EndsIdle
<1>2. Formed(reqs[r])'
  <2>1. Idle.op = "none" /\ Idle.pc = "idle" /\ Idle.tok = 0
    BY ForTyped DEF Ops, Pcs
  <2> QED
    BY <1>1, <2>1 DEF Formed, Presenting, Redeeming
<1>3. reqs'[r].user \in 0..Len(users) /\ reqs'[r].ticket \in 0..Len(tickets)
      /\ condemned' \subseteq DOMAIN tokens
  BY <1>1, IdleFormed DEF Typed, TypeOK
<1> QED
  BY <1>1, <1>2, <1>3, QuietStep

\* findUserById: types.
LEMMA FindUserTyped ==
  ASSUME Typed, NEW r \in Requests, FindUser(r)
  PROVE  Typed'
<1>1. Formed(reqs[r]) /\ reqs[r].pc = "findUser"
      /\ UNCHANGED <<users, tokens, tickets, identities, condemned>>
  BY DEF FindUser, Typed
<1>2. reqs[r].op \in {"refresh", "magic", "otp", "google"}
  BY <1>1 DEF Formed
<1>3. \/ End(r)
      \/ Then(r, "revokeToken") /\ reqs[r].op = "refresh"
      \/ Then(r, "setVerified") /\ reqs[r].op = "magic"
      \/ Then(r, "killFamily") /\ reqs[r].op = "refresh"
      \/ Then(r, "issue")
  BY DEF FindUser
<1> QED
  BY <1>1, <1>2, <1>3, GoesOnTyped, EndTyped DEF Pcs, Minting

\* Marks on the rows of tokens, and a request that ends or goes on.
LEMMA MarkedTokens ==
  ASSUME Typed, NEW f \in [DOMAIN tokens -> Token], tokens' = f,
         \A t \in DOMAIN tokens :
           /\ f[t].user = tokens[t].user /\ f[t].family = tokens[t].family
           /\ f[t].parent = tokens[t].parent /\ f[t].pw = tokens[t].pw
           /\ f[t].sub = tokens[t].sub
           /\ f[t].here => tokens[t].here /\ tokens[t].user \in Here'
           /\ tokens[t].revoked => f[t].revoked
           /\ tokens[t].exempt => f[t].exempt
           /\ tokens[t].raced => f[t].raced
  PROVE  /\ TokensGrow /\ Len(tokens') = Len(tokens) /\ DOMAIN tokens' = DOMAIN tokens
         /\ \A t \in DOMAIN tokens' : tokens'[t].here => tokens'[t].user \in Here'
<1>1. tokens' \in Seq(Token) /\ Len(tokens') = Len(tokens) /\ DOMAIN tokens' = DOMAIN tokens
  BY Marked DEF Typed
<1>2. Len(tokens) \in Nat /\ Len(tokens) <= MaxTokens
  BY DEF Typed, TypeOK
<1>3. TokensGrow
  BY <1>1, <1>2 DEF TokensGrow
<1> QED
  BY <1>1, <1>3

\* The guarded revocation of the old token: types.
LEMMA RevokeTokenTyped ==
  ASSUME Typed, NEW r \in Requests, RevokeToken(r)
  PROVE  Typed' /\ TokensGrow
<1> DEFINE t == reqs[r].tok
           new == [tokens[t] EXCEPT !.revoked = TRUE]
<1>1. /\ reqs[r].pc = "revokeToken" /\ Formed(reqs[r])
      /\ UNCHANGED <<users, tickets, identities, condemned>>
      /\ tokens' = [tokens EXCEPT ![t] = new]
  BY DEF RevokeToken, Typed
<1>2. reqs[r].op \in {"refresh", "expiry"} /\ t \in DOMAIN tokens /\ reqs[r].user = tokens[t].user
  BY <1>1 DEF Formed, Presenting
<1>3. /\ tokens[t] \in Token
      /\ \A i \in DOMAIN tokens : tokens[i].here => tokens[i].user \in Here
      /\ Here' = Here
  BY <1>1, <1>2 DEF Typed, TypeOK, Here
<1>4. /\ new \in Token /\ new.user = tokens[t].user /\ new.family = tokens[t].family
      /\ new.parent = tokens[t].parent /\ new.pw = tokens[t].pw /\ new.sub = tokens[t].sub
      /\ new.here = tokens[t].here /\ new.revoked
      /\ new.exempt = tokens[t].exempt /\ new.raced = tokens[t].raced
  BY <1>3 DEF Token
<1> HIDE DEF new
<1>5. tokens' \in [DOMAIN tokens -> Token] /\ tokens'[t] = new
      /\ \A i \in DOMAIN tokens \ {t} : tokens'[i] = tokens[i]
  BY <1>1, <1>2, <1>4 DEF Typed
<1>6. /\ TokensGrow /\ Len(tokens') = Len(tokens) /\ DOMAIN tokens' = DOMAIN tokens
      /\ \A i \in DOMAIN tokens' : tokens'[i].here => tokens'[i].user \in Here'
  BY SMTT(20), <1>3, <1>4, <1>5, MarkedTokens
<1>7. /\ reqs' \in [Requests -> Request] /\ \A s \in Requests \ {r} : reqs'[s] = reqs[s]
      /\ Formed(reqs[r])' /\ reqs'[r].user \in 0..Len(users)
      /\ reqs'[r].ticket \in 0..Len(tickets)
  <2>0. reqs[r].user \in 0..Len(users) /\ reqs[r].ticket \in 0..Len(tickets)
    BY DEF Typed, TypeOK
  <2>1. CASE reqs[r].op = "refresh"
    <3>1. Then(r, "issue")
      BY <2>1 DEF RevokeToken
    <3>2. /\ reqs' \in [Requests -> Request] /\ \A s \in Requests \ {r} : reqs'[s] = reqs[s]
          /\ reqs'[r].pc = "issue" /\ reqs'[r].op = reqs[r].op /\ reqs'[r].user = reqs[r].user
          /\ reqs'[r].tok = reqs[r].tok /\ reqs'[r].ticket = reqs[r].ticket
          /\ reqs'[r].pw = reqs[r].pw /\ reqs'[r].sub = reqs[r].sub
      BY <3>1, GoesOn DEF Pcs
    <3>3. Formed(reqs[r])'
      BY <1>2, <1>4, <1>5, <1>6, <2>1, <3>2 DEF Formed, Presenting, Redeeming, Minting
    <3> QED
      BY <2>0, <3>2, <3>3
  <2>2. CASE reqs[r].op # "refresh"
    <3>1. End(r)
      BY <2>2 DEF RevokeToken
    <3>2. /\ reqs' \in [Requests -> Request] /\ \A s \in Requests \ {r} : reqs'[s] = reqs[s]
          /\ reqs'[r] = Idle
      BY <3>1, EndsIdle
    <3>3. Formed(reqs[r])'
      <4>1. Idle.op = "none" /\ Idle.pc = "idle" /\ Idle.tok = 0
        BY ForTyped DEF Ops, Pcs
      <4> QED
        BY <3>2, <4>1 DEF Formed, Presenting, Redeeming
    <3> QED
      BY <2>0, <3>2, <3>3, IdleFormed DEF Typed
  <2> QED
    BY <2>1, <2>2
<1>8. Referring
  BY <1>1, <1>3, <1>6 DEF Referring, Typed, TypeOK
<1>9. condemned' \subseteq DOMAIN tokens'
  BY <1>1, <1>6 DEF Typed, TypeOK
<1> QED
  BY <1>1, <1>6, <1>7, <1>8, <1>9, NothingGrows, RequestStep

\* A request that has ended is well formed.
LEMMA EndedFormed ==
  ASSUME NEW r \in Requests, reqs'[r] = Idle
  PROVE  Formed(reqs[r])'
<1>1. Idle.op = "none" /\ Idle.pc = "idle" /\ Idle.tok = 0
  BY ForTyped DEF Ops, Pcs
<1> QED
  BY <1>1 DEF Formed, Presenting, Redeeming

\* Revocations and failures.
LEMMA MarkingTyped ==
  ASSUME Typed, NEW r \in Requests, EndMarking(r), TokensGrow, DOMAIN tokens' = DOMAIN tokens,
         \A t \in DOMAIN tokens : tokens'[t].here => tokens[t].here /\ tokens'[t].user = tokens[t].user,
         UNCHANGED <<users, tickets, identities, condemned>>
  PROVE  Typed'
<1>1. /\ reqs' \in [Requests -> Request] /\ reqs'[r] = Idle
      /\ \A s \in Requests \ {r} : Alike(reqs'[s], reqs[s])
  BY Marks
<1>2. Formed(reqs[r])' /\ reqs'[r].user \in 0..Len(users) /\ reqs'[r].ticket \in 0..Len(tickets)
  BY <1>1, EndedFormed, IdleFormed DEF Typed
<1>3. Here' = Here
  BY DEF Here
<1>4. Referring
  BY <1>3 DEF Referring, Typed, TypeOK
<1>5. condemned' \subseteq DOMAIN tokens'
  BY DEF Typed, TypeOK
<1>6. UsersGrow /\ TicketsGrow /\ identities' \in [Subjects -> 0..Len(users')]
  BY NothingGrows
<1> QED
  BY <1>1, <1>2, <1>4, <1>5, <1>6, TypedStep

\* The UPDATE that revokes a family or an account: types.
LEMMA RevokeTyped ==
  ASSUME Typed, NEW r \in Requests, Revoke(r)
  PROVE  Typed' /\ TokensGrow
<1>1. ASSUME NEW t \in DOMAIN tokens
      PROVE  /\ tokens'[t] \in Token
             /\ tokens'[t].user = tokens[t].user /\ tokens'[t].family = tokens[t].family
             /\ tokens'[t].parent = tokens[t].parent /\ tokens'[t].pw = tokens[t].pw
             /\ tokens'[t].sub = tokens[t].sub /\ tokens'[t].here = tokens[t].here
             /\ tokens[t].revoked => tokens'[t].revoked
             /\ tokens'[t].exempt = tokens[t].exempt
             /\ tokens'[t].raced = tokens[t].raced
  <2>1. tokens'[t] = [tokens[t] EXCEPT !.revoked = @ \/ t \in Scope(r)]
    BY DEF Revoke
  <2>2. tokens[t] \in Token
    BY DEF Typed
  <2> DEFINE b == tokens[t].revoked \/ t \in Scope(r)
  <2>3. tokens'[t] = [tokens[t] EXCEPT !.revoked = b] /\ b \in BOOLEAN
    BY <2>1
  <2>4. tokens[t].revoked => b
    OBVIOUS
  <2> HIDE DEF b
  <2> QED
    BY <2>2, <2>3, <2>4 DEF Token
<1>2. tokens' \in [DOMAIN tokens -> Token]
  BY <1>1 DEF Revoke
<1>3. Here' = Here /\ \A t \in DOMAIN tokens : tokens[t].here => tokens[t].user \in Here
  BY DEF Revoke, Here, Typed, TypeOK
<1>4. TokensGrow /\ DOMAIN tokens' = DOMAIN tokens
  BY <1>1, <1>2, <1>3, MarkedTokens
<1> QED
  BY <1>1, <1>4, MarkingTyped DEF Revoke

\* A statement that throws: types.
LEMMA FailTyped ==
  ASSUME Typed, NEW r \in Requests, Fail(r)
  PROVE  Typed' /\ TokensGrow
<1>1. ASSUME NEW t \in DOMAIN tokens
      PROVE  /\ tokens'[t] \in Token
             /\ tokens'[t].user = tokens[t].user /\ tokens'[t].family = tokens[t].family
             /\ tokens'[t].parent = tokens[t].parent /\ tokens'[t].pw = tokens[t].pw
             /\ tokens'[t].sub = tokens[t].sub /\ tokens'[t].here = tokens[t].here
             /\ tokens'[t].revoked = tokens[t].revoked
             /\ tokens[t].exempt => tokens'[t].exempt
             /\ tokens'[t].raced = tokens[t].raced
  <2> DEFINE b == tokens[t].exempt \/ (t \in Scope(r) /\ Live(t))
  <2>1. tokens'[t] = [tokens[t] EXCEPT !.exempt = b]
    BY DEF Fail
  <2>2. tokens[t] \in Token /\ b \in BOOLEAN /\ (tokens[t].exempt => b)
    BY DEF Typed
  <2> HIDE DEF b
  <2> QED
    BY <2>1, <2>2 DEF Token
<1>2. tokens' \in [DOMAIN tokens -> Token]
  BY <1>1 DEF Fail
<1>3. Here' = Here /\ \A t \in DOMAIN tokens : tokens[t].here => tokens[t].user \in Here
  BY DEF Fail, Here, Typed, TypeOK
<1>4. TokensGrow /\ DOMAIN tokens' = DOMAIN tokens
  BY <1>1, <1>2, <1>3, MarkedTokens
<1> QED
  BY <1>1, <1>4, MarkingTyped DEF Fail

\* issueTokens: types.
LEMMA IssueTyped ==
  ASSUME Typed, NEW r \in Requests, Issue(r)
  PROVE  Typed' /\ TokensGrow
<1> DEFINE q == reqs[r]
           n == Len(tokens) + 1
           new == [here |-> TRUE, user |-> q.user, revoked |-> FALSE, expired |-> FALSE,
                   family |-> IF q.op = "refresh" THEN tokens[q.tok].family ELSE n,
                   parent |-> q.tok, pw |-> q.pw, sub |-> q.sub, exempt |-> q.late,
                   raced |-> FALSE]
<1>1. /\ q.pc = "issue" /\ n <= MaxTokens /\ End(r) /\ Formed(q) /\ q \in Request
      /\ UNCHANGED <<users, identities, tickets, condemned>>
      /\ tokens' = IF q.user \notin Here THEN tokens ELSE Append(tokens, new)
  BY DEF Issue, Typed
<1>2. /\ reqs' \in [Requests -> Request] /\ \A s \in Requests \ {r} : reqs'[s] = reqs[s]
      /\ reqs'[r] = Idle
  BY <1>1, EndsIdle
<1>3. Formed(reqs[r])' /\ reqs'[r].user \in 0..Len(users') /\ reqs'[r].ticket \in 0..Len(tickets')
  BY <1>1, <1>2, EndedFormed, IdleFormed DEF Typed
<1>4. Here' = Here /\ UsersGrow /\ TicketsGrow /\ identities' \in [Subjects -> 0..Len(users')]
  BY <1>1, NothingGrows DEF Here
<1>5. CASE q.user \notin Here
  <2>1. UNCHANGED tokens
    BY <1>1, <1>5
  <2>2. TokensGrow /\ Referring /\ condemned' \subseteq DOMAIN tokens'
    BY <1>1, <2>1, NothingGrows
  <2> QED
    BY <1>2, <1>3, <1>4, <2>2, RequestStep
<1>6. CASE q.user \in Here
  <2>1. n \in Nat /\ Len(tokens) \in Nat /\ n \notin DOMAIN tokens /\ DOMAIN tokens = 1..Len(tokens)
    BY DEF Typed
  <2>2. q.op = "refresh" => q.tok \in DOMAIN tokens /\ tokens[q.tok].family \in 1..q.tok
    BY <1>1 DEF Formed, Presenting, Typed, TypeOK
  <2>3. q.tok \in 0..Len(tokens)
    BY DEF Typed, TypeOK
  <2>4. /\ new.family \in 1..n /\ new.parent = q.tok /\ new.user = q.user
        /\ new.here
    BY <2>1, <2>2, <2>3
  <2>5. new \in Token
    BY SMTT(20), <1>1, <2>1, <2>4 DEF Token, Request
  <2> HIDE DEF new
  <2>6. /\ tokens' \in Seq(Token) /\ Len(tokens') = n /\ DOMAIN tokens' = DOMAIN tokens \cup {n}
        /\ \A i \in DOMAIN tokens : tokens'[i] = tokens[i]
        /\ tokens'[n] = new
    <3>1. tokens \in Seq(Token) /\ tokens' = Append(tokens, new)
      BY <1>1, <1>6 DEF Typed
    <3> QED
      BY <2>5, <3>1, Appended
  <2>7. TokensGrow
    BY <1>1, <2>1, <2>6 DEF TokensGrow
  <2>8. Referring
    <3>1. q.user \in DOMAIN users
      BY <1>6 DEF Here
    <3>2. \A t \in DOMAIN tokens' : tokens'[t].here => tokens'[t].user \in Here'
      BY <1>4, <1>6, <2>4, <2>6 DEF Typed, TypeOK
    <3>3. \A k \in DOMAIN tickets' : tickets'[k].here => tickets'[k].user \in Here'
      BY <1>1, <1>4 DEF Typed, TypeOK
    <3>4. \A t \in DOMAIN tokens' \ DOMAIN tokens : t = n
      BY <2>6
    <3>5. /\ tokens'[n].user \in DOMAIN users' /\ tokens'[n].family \in 1..n
          /\ tokens'[n].parent \in 0..(n - 1)
      BY <1>1, <2>1, <2>3, <2>4, <2>6, <3>1
    <3> QED
      BY <3>2, <3>3, <3>4, <3>5 DEF Referring
  <2>9. condemned' \subseteq DOMAIN tokens'
    BY <1>1, <2>6 DEF Typed, TypeOK
  <2> QED
    BY <1>2, <1>3, <1>4, <2>7, <2>8, <2>9, RequestStep
<1> QED
  BY <1>5, <1>6

\* An account is inserted: its row is at the end of the table.
LEMMA UserInserted ==
  ASSUME Typed, NEW row \in User, users' = Append(users, row), row.here,
         Len(users) < MaxUsers, UNCHANGED tokens,
         UNCHANGED identities \/ identities' \in [Subjects -> 0..Len(users)]
  PROVE  /\ UsersGrow /\ TokensGrow /\ Len(users') = Len(users) + 1
         /\ users'[Len(users) + 1] = row /\ Len(users) + 1 \notin DOMAIN users
         /\ DOMAIN users' = DOMAIN users \cup {Len(users) + 1}
         /\ \A u \in DOMAIN users : users'[u] = users[u]
         /\ Here' = Here \cup {Len(users) + 1}
         /\ identities' \in [Subjects -> 0..Len(users')]
         /\ \A t \in DOMAIN tokens' : tokens'[t].here => tokens'[t].user \in Here'
<1>1. /\ users' \in Seq(User) /\ Len(users') = Len(users) + 1
      /\ users'[Len(users) + 1] = row /\ Len(users) + 1 \notin DOMAIN users
      /\ DOMAIN users' = DOMAIN users \cup {Len(users) + 1}
      /\ \A u \in DOMAIN users : users'[u] = users[u]
  BY Appended DEF Typed
<1>2. Len(users) \in Nat /\ Len(users) + 1 <= MaxUsers
  BY NumbersOfBounds DEF Typed
<1>3. Here' = Here \cup {Len(users) + 1}
  BY <1>1 DEF Here
<1>4. UsersGrow
  BY <1>1, <1>2 DEF UsersGrow
<1>5. identities' \in [Subjects -> 0..Len(users')]
  <2>1. identities' \in [Subjects -> 0..Len(users)]
    BY DEF Typed, TypeOK
  <2> QED
    BY <1>1, <1>2, <2>1
<1>6. TokensGrow
  BY NothingGrows
<1>7. \A t \in DOMAIN tokens' : tokens'[t].here => tokens'[t].user \in Here'
  BY <1>3 DEF Typed, TypeOK
<1> QED
  BY <1>1, <1>3, <1>4, <1>5, <1>6, <1>7

\* An INSERT into auth.users that begins a sign-in: types.
LEMMA SignupTyped ==
  ASSUME Typed, NEW r \in Requests, NEW row \in User, NEW q \in Request,
         row.here, Len(users) < MaxUsers, users' = Append(users, row), Begin(r, q),
         UNCHANGED <<identities, tokens, tickets, condemned>>,
         q.op = "login", q.pc = "issue", q.user = Len(users) + 1, q.tok = 0, q.ticket = 0
  PROVE  Typed' /\ UsersGrow
<1>1. /\ UsersGrow /\ TokensGrow /\ Len(users') = Len(users) + 1
      /\ DOMAIN users' = DOMAIN users \cup {Len(users) + 1}
      /\ Here' = Here \cup {Len(users) + 1}
      /\ identities' \in [Subjects -> 0..Len(users')]
      /\ \A t \in DOMAIN tokens' : tokens'[t].here => tokens'[t].user \in Here'
  BY UserInserted
<1>2. /\ reqs' \in [Requests -> Request] /\ \A s \in Requests \ {r} : reqs'[s] = reqs[s]
      /\ reqs'[r] = q
  BY Begins
<1>3. Formed(reqs[r])'
  BY <1>2 DEF Formed, Presenting, Redeeming, Minting
<1>4. TicketsGrow /\ condemned' \subseteq DOMAIN tokens'
  BY NothingGrows
<1>5. Referring
  BY <1>1 DEF Referring, Typed, TypeOK
<1>6. reqs'[r].user \in 0..Len(users') /\ reqs'[r].ticket \in 0..Len(tickets')
  BY <1>1, <1>2 DEF Typed, UsersGrow
<1> QED
  BY <1>1, <1>2, <1>3, <1>4, <1>5, <1>6, RequestStep

\* A ticket is added, for an account that is there.
LEMMA TicketAdded ==
  ASSUME Typed, NEW kind \in Redeeming, NEW u \in Nat, AddTicket(kind, u),
         UNCHANGED users \/ \E row \in User : row.here /\ users' = Append(users, row)
                                              /\ Len(users) < MaxUsers,
         u \in Here'
  PROVE  Typed' /\ UsersGrow /\ TicketsGrow
<1> DEFINE new == [here |-> TRUE, kind |-> kind, user |-> u, used |-> FALSE,
                   expired |-> FALSE, attempts |-> 0, wins |-> 0, raced |-> FALSE]
<1>1. /\ Len(tickets) < MaxTickets /\ tickets' = Append(tickets, new)
      /\ UNCHANGED <<identities, tokens, reqs, condemned>>
  BY DEF AddTicket
<1>2. new \in Ticket /\ new.user = u /\ new.here
  BY DEF Ticket
<1> HIDE DEF new
<1>3. /\ UsersGrow /\ TokensGrow /\ Here \subseteq Here'
      /\ identities' \in [Subjects -> 0..Len(users')]
      /\ \A t \in DOMAIN tokens' : tokens'[t].here => tokens'[t].user \in Here'
  <2>1. CASE UNCHANGED users
    <3>1. Here' = Here
      BY <2>1 DEF Here
    <3> QED
      BY <1>1, <2>1, <3>1, NothingGrows DEF Typed, TypeOK
  <2>2. CASE \E row \in User : row.here /\ users' = Append(users, row) /\ Len(users) < MaxUsers
    BY <1>1, <2>2, UserInserted
  <2> QED
    BY <2>1, <2>2
<1>4. /\ tickets' \in Seq(Ticket) /\ Len(tickets') = Len(tickets) + 1
      /\ DOMAIN tickets' = DOMAIN tickets \cup {Len(tickets) + 1}
      /\ \A k \in DOMAIN tickets : tickets'[k] = tickets[k]
      /\ tickets'[Len(tickets) + 1] = new
  BY <1>1, <1>2, Appended DEF Typed
<1>5. TicketsGrow
  <2>1. Len(tickets) \in Nat /\ Len(tickets) + 1 <= MaxTickets
    BY <1>1, NumbersOfBounds DEF Typed
  <2> QED
    BY <1>4, <2>1 DEF TicketsGrow
<1>6. Referring
  BY <1>1, <1>2, <1>3, <1>4 DEF Referring, Typed, TypeOK
<1>7. Typed'
  BY <1>1, <1>3, <1>5, <1>6, RowsStep
<1> QED
  BY <1>3, <1>5, <1>7

\* A mark on one account.
LEMMA UserMarked ==
  ASSUME Typed, NEW u \in DOMAIN users, NEW new \in User, users' = [users EXCEPT ![u] = new],
         new.here <=> users[u].here, UNCHANGED <<tokens, tickets, identities>>
  PROVE  /\ UsersGrow /\ TokensGrow /\ TicketsGrow /\ Referring
         /\ Here' = Here /\ DOMAIN users' = DOMAIN users /\ Len(users') = Len(users)
         /\ users'[u] = new /\ \A i \in DOMAIN users \ {u} : users'[i] = users[i]
         /\ identities' \in [Subjects -> 0..Len(users')]
<1>1. users' \in [DOMAIN users -> User]
  BY DEF Typed
<1>2. /\ users' \in Seq(User) /\ Len(users') = Len(users) /\ DOMAIN users' = DOMAIN users
      /\ users'[u] = new /\ \A i \in DOMAIN users \ {u} : users'[i] = users[i]
  BY <1>1, Marked DEF Typed
<1>3. Here' = Here
  BY <1>2 DEF Here
<1>4. UsersGrow
  <2>1. Len(users') <= MaxUsers /\ Len(users) <= Len(users')
    BY <1>2 DEF Typed, TypeOK
  <2> QED
    BY <1>2, <2>1 DEF UsersGrow
<1>5. TokensGrow /\ TicketsGrow
  BY NothingGrows
<1>6. Referring
  BY <1>3 DEF Referring, Typed, TypeOK
<1>7. identities' \in [Subjects -> 0..Len(users')]
  BY <1>2 DEF Typed, TypeOK
<1> QED
  BY <1>2, <1>3, <1>4, <1>5, <1>6, <1>7

\* A mark on one ticket.
LEMMA TicketMarked ==
  ASSUME Typed, NEW k \in DOMAIN tickets, NEW new \in Ticket,
         tickets' = [tickets EXCEPT ![k] = new],
         new.here <=> tickets[k].here, new.user = tickets[k].user, new.kind = tickets[k].kind,
         UNCHANGED <<users, tokens, identities>>
  PROVE  /\ UsersGrow /\ TokensGrow /\ TicketsGrow /\ Referring
         /\ DOMAIN tickets' = DOMAIN tickets /\ Len(tickets') = Len(tickets)
         /\ tickets'[k] = new /\ \A i \in DOMAIN tickets \ {k} : tickets'[i] = tickets[i]
         /\ identities' \in [Subjects -> 0..Len(users')]
<1>1. tickets' \in [DOMAIN tickets -> Ticket]
  BY DEF Typed
<1>2. /\ tickets' \in Seq(Ticket) /\ Len(tickets') = Len(tickets)
      /\ DOMAIN tickets' = DOMAIN tickets
      /\ tickets'[k] = new /\ \A i \in DOMAIN tickets \ {k} : tickets'[i] = tickets[i]
  BY <1>1, Marked DEF Typed
<1>3. Here' = Here
  BY DEF Here
<1>4. TicketsGrow
  <2>1. Len(tickets') <= MaxTickets /\ Len(tickets) <= Len(tickets')
    BY <1>2 DEF Typed, TypeOK
  <2> QED
    BY <1>2, <2>1 DEF TicketsGrow
<1>5. UsersGrow /\ TokensGrow /\ identities' \in [Subjects -> 0..Len(users')]
  BY NothingGrows
<1>6. Referring
  <2>1. \A i \in DOMAIN tickets : /\ tickets'[i].here <=> tickets[i].here
                                  /\ tickets'[i].user = tickets[i].user
    BY <1>2
  <2> QED
    BY <1>2, <1>3, <2>1 DEF Referring, Typed, TypeOK
<1> QED
  BY <1>2, <1>4, <1>5, <1>6

\* A new user's row has its type.
LEMMA UserNew ==
  ASSUME NEW name \in Names \cup {None}, NEW email \in Emails \cup {None},
         NEW phone \in Phones \cup {None}, NEW pw \in Nat, NEW verified \in BOOLEAN
  PROVE  LET row == UserRow(name, email, phone, pw, verified) IN
         row \in User /\ row.here /\ ~row.suspended /\ row.pw = pw
  BY DEF UserRow, User

\* Sign-up and anonymous sign-in: types.
LEMMA SignedUpTyped ==
  ASSUME Typed, NEW r \in Requests,
         Anonymous(r) \/ \E n \in Names, e \in Emails \cup {None} : Signup(r, n, e)
  PROVE  Typed' /\ UsersGrow
<1> DEFINE u == Len(users) + 1
           f == For("login", u, "issue")
<1>1. /\ f \in Request /\ f.op = "login" /\ f.pc = "issue" /\ f.user = u /\ f.tok = 0
      /\ f.ticket = 0
  <2>1. "login" \in Ops /\ "issue" \in Pcs /\ u \in Nat
    BY DEF Ops, Minting, Pcs, Typed
  <2> HIDE DEF u
  <2> QED
    BY <2>1, ForTyped
<1>2. CASE Anonymous(r)
  <2>1. UserRow(None, None, None, 0, FALSE) \in User /\ UserRow(None, None, None, 0, FALSE).here
    BY UserNew
  <2>2. Begin(r, f) /\ UNCHANGED <<identities, tokens, tickets, condemned>>
        /\ users' = Append(users, UserRow(None, None, None, 0, FALSE)) /\ Len(users) < MaxUsers
    BY <1>2 DEF Anonymous
  <2> HIDE DEF f
  <2> QED
    BY <1>1, <2>1, <2>2, SignupTyped
<1>3. CASE \E n \in Names, e \in Emails \cup {None} : Signup(r, n, e)
  <2>1. PICK n \in Names, e \in Emails \cup {None} : Signup(r, n, e)
    BY <1>3
  <2> DEFINE row == UserRow(n, e, None, 1, FALSE)
             q == [f EXCEPT !.pw = 1]
  <2>2. row \in User /\ row.here
    BY UserNew
  <2>3. Begin(r, q) /\ UNCHANGED <<identities, tokens, tickets, condemned>>
        /\ users' = Append(users, row) /\ Len(users) < MaxUsers
    BY <2>1 DEF Signup
  <2> HIDE DEF f, row
  <2>4. q \in Request /\ q.op = "login" /\ q.pc = "issue" /\ q.user = u /\ q.tok = 0 /\ q.ticket = 0
    BY <1>1 DEF Request
  <2> HIDE DEF q
  <2> QED
    BY <2>2, <2>3, <2>4, SignupTyped
<1> QED
  BY <1>2, <1>3

\* Requests of the admin service, and a Google sign-in, begin.
LEMMA BegunTyped ==
  ASSUME Typed, NEW r \in Requests, NEW op \in {"suspend", "revoke", "google"},
         NEW pc \in {"revokeAll", "createUser", "findUser"}, NEW u \in 0..Len(users),
         op = "google" <=> pc # "revokeAll",
         NEW q \in Request, q.op = op, q.pc = pc, q.user = u, q.tok = 0, q.ticket = 0,
         q.pw = 0, op = "google" => q.sub \in Subjects,
         reqs' \in [Requests -> Request], reqs'[r] = q,
         \A s \in Requests \ {r} : reqs'[s] = reqs[s],
         UNCHANGED <<tokens, tickets, identities, condemned>>,
         UsersGrow, Referring, identities' \in [Subjects -> 0..Len(users')]
  PROVE  Typed'
<1>1. Formed(reqs[r])'
  BY DEF Formed, Presenting, Redeeming, Minting
<1>2. TokensGrow /\ TicketsGrow /\ condemned' \subseteq DOMAIN tokens'
  BY NothingGrows
<1>3. reqs'[r].user \in 0..Len(users') /\ reqs'[r].ticket \in 0..Len(tickets')
  BY DEF Typed, UsersGrow
<1> QED
  BY <1>1, <1>2, <1>3, RequestStep

\* The admin service's suspension and revocation: types.
LEMMA SuspendTyped ==
  ASSUME Typed, NEW r \in Requests, NEW u \in DOMAIN users,
         SuspendUser(r, u) \/ RevokeSessions(r, u)
  PROVE  Typed' /\ UsersGrow
<1>1. /\ u \in 0..Len(users) /\ u \in Nat /\ users[u] \in User
      /\ "suspend" \in Ops /\ "revoke" \in Ops /\ "revokeAll" \in Pcs
  BY DEF Typed, Ops, Pcs
<1>2. CASE SuspendUser(r, u)
  <2> DEFINE new == [users[u] EXCEPT !.suspended = TRUE]
             f == For("suspend", u, "revokeAll")
             q == [f EXCEPT !.blocked = FALSE]
  <2>1. new \in User /\ (new.here <=> users[u].here)
    BY <1>1 DEF User
  <2>2. users' = [users EXCEPT ![u] = new] /\ Begin(r, q)
        /\ UNCHANGED <<identities, tokens, tickets, condemned>>
    BY <1>2 DEF SuspendUser
  <2> HIDE DEF new
  <2>3. UsersGrow /\ Referring /\ identities' \in [Subjects -> 0..Len(users')]
    BY <2>1, <2>2, UserMarked
  <2>4. /\ f \in Request /\ f.op = "suspend" /\ f.pc = "revokeAll" /\ f.user = u /\ f.tok = 0
        /\ f.ticket = 0 /\ f.pw = 0
    BY <1>1, ForTyped
  <2> HIDE DEF f
  <2>5. /\ q \in Request /\ q.op = "suspend" /\ q.pc = "revokeAll" /\ q.user = u /\ q.tok = 0
        /\ q.ticket = 0 /\ q.pw = 0
    BY <2>4 DEF Request
  <2> HIDE DEF q
  <2>6. reqs' \in [Requests -> Request] /\ reqs'[r] = q /\ \A s \in Requests \ {r} : reqs'[s] = reqs[s]
    BY <2>2, <2>5, Begins
  <2>7. Typed'
    BY ZenonT(40), <1>1, <2>2, <2>3, <2>5, <2>6, BegunTyped
  <2> QED
    BY <2>3, <2>7
<1>3. CASE RevokeSessions(r, u)
  <2> DEFINE q == For("revoke", u, "revokeAll")
  <2>1. /\ q \in Request /\ q.op = "revoke" /\ q.pc = "revokeAll" /\ q.user = u /\ q.tok = 0
        /\ q.ticket = 0 /\ q.pw = 0
    BY <1>1, ForTyped
  <2>2. Begin(r, q) /\ UNCHANGED <<users, identities, tokens, tickets, condemned>>
    BY <1>3 DEF RevokeSessions
  <2> HIDE DEF q
  <2>3. reqs' \in [Requests -> Request] /\ reqs'[r] = q /\ \A s \in Requests \ {r} : reqs'[s] = reqs[s]
    BY <2>1, <2>2, Begins
  <2>4. UsersGrow /\ Referring /\ identities' \in [Subjects -> 0..Len(users')]
    BY <2>2, NothingGrows
  <2>5. Typed'
    BY <1>1, <2>1, <2>2, <2>3, <2>4, BegunTyped
  <2> QED
    BY <2>4, <2>5
<1> QED
  BY <1>2, <1>3

\* A Google request has its type.
LEMMA GoogleRequest ==
  ASSUME NEW u \in Nat, NEW pc \in Pcs, NEW s \in Subjects
  PROVE  LET q == [For("google", u, pc) EXCEPT !.sub = s] IN
         /\ q \in Request /\ q.op = "google" /\ q.pc = pc /\ q.user = u /\ q.tok = 0
         /\ q.ticket = 0 /\ q.pw = 0 /\ q.sub = s /\ ~q.late
         /\ q.blocked <=> (u \in DOMAIN users /\ users[u].suspended)
<1> DEFINE f == For("google", u, pc)
           q == [f EXCEPT !.sub = s]
<1>1. "google" \in Ops
  BY DEF Ops, Minting
<1>2. /\ f \in Request /\ f.op = "google" /\ f.pc = pc /\ f.user = u /\ f.tok = 0
      /\ f.ticket = 0 /\ f.pw = 0 /\ ~f.late
      /\ f.blocked <=> (u \in DOMAIN users /\ users[u].suspended)
  BY <1>1, ForTyped
<1> HIDE DEF f
<1>3. /\ q \in Request /\ q.op = "google" /\ q.pc = pc /\ q.user = u /\ q.tok = 0
      /\ q.ticket = 0 /\ q.pw = 0 /\ q.sub = s /\ ~q.late
      /\ q.blocked <=> f.blocked
  BY <1>2 DEF Request
<1> QED
  BY <1>2, <1>3 DEF f

\* The Google callback's first read: types.
LEMMA OAuthTyped ==
  ASSUME Typed, NEW r \in Requests, NEW s \in Subjects, OAuthGoogleCallback(r, s)
  PROVE  Typed'
<1>1. PICK u \in 0..Len(users), pc \in {"createUser", "findUser"} :
        Begin(r, [For("google", u, pc) EXCEPT !.sub = s])
  <2>1. identities[s] \in 0..Len(users)
    BY DEF Typed, TypeOK
  <2> QED
    BY <2>1 DEF OAuthGoogleCallback
<1>2. UNCHANGED <<users, identities, tokens, tickets, condemned>>
  BY DEF OAuthGoogleCallback
<1> DEFINE q == [For("google", u, pc) EXCEPT !.sub = s]
<1>3. u \in Nat /\ pc \in Pcs
  BY DEF Typed, Pcs
<1>4. /\ q \in Request /\ q.op = "google" /\ q.pc = pc /\ q.user = u /\ q.tok = 0
      /\ q.ticket = 0 /\ q.pw = 0 /\ q.sub = s
  BY <1>3, GoogleRequest
<1> HIDE DEF q
<1>5. reqs' \in [Requests -> Request] /\ reqs'[r] = q /\ \A i \in Requests \ {r} : reqs'[i] = reqs[i]
  <2>1. Begin(r, q)
    BY <1>1 DEF q
  <2> QED
    BY <1>4, <2>1, Begins
<1>6. UsersGrow /\ Referring /\ identities' \in [Subjects -> 0..Len(users')]
  BY <1>2, NothingGrows
<1> QED
  BY <1>2, <1>4, <1>5, <1>6, BegunTyped

\* The handlers that send a link or a code.
LEMMA ForgotTyped ==
  ASSUME Typed,
         \E u \in DOMAIN users : Forgot(u) \/ EmailVerifyRequest(u)
  PROVE  Typed' /\ UsersGrow /\ TicketsGrow
<1>1. PICK u \in DOMAIN users : Forgot(u) \/ EmailVerifyRequest(u)
  OBVIOUS
<1>2. PICK kind \in Redeeming : AddTicket(kind, u)
  BY <1>1 DEF Forgot, EmailVerifyRequest, Redeeming
<1>3. UNCHANGED users /\ u \in Here /\ u \in Nat
  BY <1>1 DEF Forgot, EmailVerifyRequest, Typed
<1>4. u \in Here'
  BY <1>3 DEF Here
<1> QED
  BY <1>2, <1>3, <1>4, TicketAdded

\* Magic links and one-time passwords, with accounts made on the way: types.
LEMMA CodeTyped ==
  ASSUME Typed,
         \/ \E e \in Emails : MagicLinkRequest(e)
         \/ \E p \in Phones : OtpRequest(p)
  PROVE  Typed' /\ UsersGrow /\ TicketsGrow
<1>1. PICK kind \in Redeeming, key \in {"email", "phone"}, row \in User :
        FindOrCreate(kind, key, row) /\ row.here
  <2>1. ASSUME NEW e \in Emails, MagicLinkRequest(e)
        PROVE  \E kind \in Redeeming, key \in {"email", "phone"}, row \in User :
                 FindOrCreate(kind, key, row) /\ row.here
    <3>1. UserRow(None, e, None, 0, FALSE) \in User /\ UserRow(None, e, None, 0, FALSE).here
      BY UserNew
    <3> QED
      BY <2>1, <3>1 DEF MagicLinkRequest, Redeeming
  <2>2. ASSUME NEW p \in Phones, OtpRequest(p)
        PROVE  \E kind \in Redeeming, key \in {"email", "phone"}, row \in User :
                 FindOrCreate(kind, key, row) /\ row.here
    <3>1. UserRow(None, None, p, 0, FALSE) \in User /\ UserRow(None, None, p, 0, FALSE).here
      BY UserNew
    <3> QED
      BY <2>2, <3>1 DEF OtpRequest, Redeeming
  <2> QED
    BY <2>1, <2>2
<1>2. CASE \E u \in Here : AddTicket(kind, u) /\ UNCHANGED users
  <2>1. PICK u \in Here : AddTicket(kind, u) /\ UNCHANGED users
    BY <1>2
  <2>2. u \in Nat /\ u \in Here'
    BY <2>1 DEF Here, Typed
  <2> QED
    BY <2>1, <2>2, TicketAdded
<1>3. CASE /\ Len(users) < MaxUsers /\ users' = Append(users, row)
           /\ AddTicket(kind, Len(users) + 1)
  <2>1. Len(users) + 1 \in Nat
    BY DEF Typed
  <2>2. Len(users) + 1 \in Here'
    BY <1>1, <1>3, UserInserted DEF AddTicket
  <2> QED
    BY <1>1, <1>3, <2>1, <2>2, TicketAdded
<1> QED
  BY <1>1, <1>2, <1>3 DEF FindOrCreate

\* A link or a code is presented.
LEMMA RedeemTyped ==
  ASSUME Typed, NEW r \in Requests, NEW k \in DOMAIN tickets, Present(r, k) \/ OtpVerify(r, k)
  PROVE  Typed' /\ TicketsGrow
<1> DEFINE kind == tickets[k].kind
           u == tickets[k].user
<1>1. PICK pc \in {"mark", "attempt"} : Redeem(r, k, pc) /\ (pc = "attempt" => kind = "otp")
  BY DEF Present, OtpVerify, LatestOtp
<1>2. tickets[k].here
  BY DEF Present, OtpVerify, Redeemable
<1>3. tickets[k] \in Ticket /\ k \in Nat /\ u \in Here
  BY <1>2 DEF Typed, TypeOK
<1>4. kind \in Redeeming /\ kind \in Ops /\ u \in Nat /\ u \in DOMAIN users /\ u \in 0..Len(users)
      /\ pc \in Pcs /\ tickets[k].raced \in BOOLEAN
  BY SMTT(20), <1>3 DEF Ticket, Ops, Pcs, Here, Typed
<1> DEFINE f == For(kind, u, pc)
           q == [f EXCEPT !.ticket = k]
           new == [tickets[k] EXCEPT !.raced = @ \/
                     \E p \in Requests : reqs[p].ticket = k /\ reqs[p].pc = "mark"]
<1>5. Begin(r, q) /\ tickets' = [tickets EXCEPT ![k] = new]
      /\ UNCHANGED <<users, identities, tokens, condemned>>
  BY <1>1 DEF Redeem
<1>6. /\ new \in Ticket /\ (new.here <=> tickets[k].here) /\ new.user = u /\ new.kind = kind
  BY <1>3, <1>4 DEF Ticket
<1> HIDE DEF new
<1>7. /\ f \in Request /\ f.op = kind /\ f.pc = pc /\ f.user = u /\ f.tok = 0 /\ f.pw = 0
  BY <1>4, ForTyped
<1> HIDE DEF f
<1>8. /\ q \in Request /\ q.op = kind /\ q.pc = pc /\ q.user = u /\ q.tok = 0 /\ q.ticket = k
      /\ q.pw = 0
  BY <1>3, <1>7 DEF Request
<1> HIDE DEF q
<1>9. reqs' \in [Requests -> Request] /\ reqs'[r] = q /\ \A s \in Requests \ {r} : reqs'[s] = reqs[s]
  BY <1>5, <1>8, Begins
<1>10. /\ UsersGrow /\ TokensGrow /\ TicketsGrow /\ Referring
       /\ DOMAIN tickets' = DOMAIN tickets /\ tickets'[k] = new
       /\ Len(tickets') = Len(tickets)
       /\ identities' \in [Subjects -> 0..Len(users')]
  BY <1>5, <1>6, TicketMarked
<1>11. Formed(reqs[r])'
  <2>1. reqs'[r].pc = "attempt" => reqs'[r].op = "otp"
    BY <1>1, <1>8, <1>9
  <2>2. k \in DOMAIN tickets' /\ tickets'[k].kind = kind /\ users' = users
    BY <1>5, <1>6, <1>10
  <2> HIDE DEF kind, u
  <2> QED
    BY <1>1, <1>4, <1>8, <1>9, <2>1, <2>2 DEF Formed, Presenting, Redeeming
<1>12. reqs'[r].user \in 0..Len(users') /\ reqs'[r].ticket \in 0..Len(tickets')
  <2>1. k \in 0..Len(tickets)
    BY DEF Typed
  <2> QED
    BY <1>4, <1>5, <1>8, <1>9, <1>10, <2>1
<1>13. condemned' \subseteq DOMAIN tokens'
  BY <1>5 DEF Typed, TypeOK
<1> QED
  BY <1>9, <1>10, <1>11, <1>12, <1>13, RequestStep

\* A wrong code, counted: types.
LEMMA AttemptTyped ==
  ASSUME Typed, NEW r \in Requests, Attempt(r)
  PROVE  Typed' /\ TicketsGrow
<1>1. PICK k \in DOMAIN tickets : k = reqs[r].ticket
  BY DEF Attempt, Typed, Formed, Redeeming
<1> DEFINE new == [tickets[k] EXCEPT !.attempts = @ + 1]
<1>2. /\ tickets' = [tickets EXCEPT ![k] = new] /\ End(r)
      /\ UNCHANGED <<users, identities, tokens, condemned>>
  BY <1>1 DEF Attempt
<1>3. tickets[k] \in Ticket
  BY DEF Typed
<1>4. /\ new \in Ticket /\ (new.here <=> tickets[k].here) /\ new.user = tickets[k].user
      /\ new.kind = tickets[k].kind
  BY <1>3 DEF Ticket
<1> HIDE DEF new
<1>5. /\ UsersGrow /\ TokensGrow /\ TicketsGrow /\ Referring
      /\ identities' \in [Subjects -> 0..Len(users')] /\ Len(tickets') = Len(tickets)
  BY <1>2, <1>4, TicketMarked
<1>6. /\ reqs' \in [Requests -> Request] /\ \A s \in Requests \ {r} : reqs'[s] = reqs[s]
      /\ reqs'[r] = Idle
  BY <1>2, EndsIdle
<1>7. Formed(reqs[r])' /\ reqs'[r].user \in 0..Len(users') /\ reqs'[r].ticket \in 0..Len(tickets')
  BY <1>2, <1>5, <1>6, EndedFormed, IdleFormed DEF Typed
<1>8. condemned' \subseteq DOMAIN tokens'
  BY <1>2 DEF Typed, TypeOK
<1> QED
  BY <1>5, <1>6, <1>7, <1>8, RequestStep

\* The UPDATE that marks a one-time token used: types.
LEMMA MarkTyped ==
  ASSUME Typed, NEW r \in Requests, Mark(r)
  PROVE  Typed' /\ TicketsGrow
<1>1. PICK k \in DOMAIN tickets : k = reqs[r].ticket
  BY DEF Mark, Typed, Formed
<1>2. Formed(reqs[r]) /\ reqs[r].op \in Redeeming /\ reqs[r].op = tickets[k].kind
      /\ reqs[r].user \in DOMAIN users /\ reqs[r].pc = "mark" /\ tickets[k] \in Ticket
  BY <1>1 DEF Mark, Typed, Formed
<1> DEFINE new == [tickets[k] EXCEPT !.used = TRUE, !.wins = IF @ < 2 THEN @ + 1 ELSE @]
<1>3. /\ tickets' = [tickets EXCEPT ![k] = new]
      /\ UNCHANGED <<users, identities, tokens, condemned>>
  <2>1. \A f \in Seq(Ticket) : k \in DOMAIN f /\ f[k].wins \in Nat =>
          [f EXCEPT ![k].used = TRUE, ![k].wins = IF @ < 2 THEN @ + 1 ELSE @]
            = [f EXCEPT ![k] = [f[k] EXCEPT !.used = TRUE, !.wins = IF @ < 2 THEN @ + 1 ELSE @]]
    BY DEF Ticket
  <2>2. tickets \in Seq(Ticket) /\ tickets[k].wins \in Nat
    BY <1>2 DEF Typed, Ticket
  <2> QED
    BY <1>1, <2>1, <2>2 DEF Mark
<1>4. PICK pc \in {"password", "setVerified", "findUser"} :
        /\ Then(r, pc)
        /\ pc = "password" => tickets[k].kind = "reset"
        /\ pc = "setVerified" => tickets[k].kind = "verify"
        /\ pc = "findUser" => tickets[k].kind \in {"magic", "otp"}
  BY <1>1, <1>2 DEF Mark, Redeeming
<1>5. /\ new \in Ticket /\ (new.here <=> tickets[k].here) /\ new.user = tickets[k].user
      /\ new.kind = tickets[k].kind
  <2> DEFINE w == IF tickets[k].wins < 2 THEN tickets[k].wins + 1 ELSE tickets[k].wins
  <2>1. w \in Nat /\ new = [tickets[k] EXCEPT !.used = TRUE, !.wins = w]
    BY <1>2 DEF Ticket
  <2> HIDE DEF w, new
  <2> QED
    BY <1>2, <2>1 DEF Ticket
<1> HIDE DEF new
<1>6. /\ UsersGrow /\ TokensGrow /\ TicketsGrow /\ Referring
      /\ identities' \in [Subjects -> 0..Len(users')] /\ Len(tickets') = Len(tickets)
      /\ DOMAIN tickets' = DOMAIN tickets /\ tickets'[k] = new
  BY <1>3, <1>5, TicketMarked
<1>7. /\ reqs' \in [Requests -> Request] /\ \A s \in Requests \ {r} : reqs'[s] = reqs[s]
      /\ reqs'[r].pc = pc /\ reqs'[r].op = reqs[r].op /\ reqs'[r].user = reqs[r].user
      /\ reqs'[r].tok = reqs[r].tok /\ reqs'[r].ticket = reqs[r].ticket
      /\ reqs'[r].pw = reqs[r].pw /\ reqs'[r].sub = reqs[r].sub
  <2>1. pc \in Pcs
    BY DEF Pcs
  <2> QED
    BY <1>4, <2>1, GoesOn
<1>8. Formed(reqs[r])'
  <2>1. tickets'[k].kind = tickets[k].kind /\ users' = users
    BY <1>3, <1>5, <1>6
  <2> QED
    BY <1>1, <1>2, <1>4, <1>6, <1>7, <2>1 DEF Formed, Redeeming, Presenting
<1>9. reqs'[r].user \in 0..Len(users') /\ reqs'[r].ticket \in 0..Len(tickets')
      /\ condemned' \subseteq DOMAIN tokens'
  BY <1>3, <1>6, <1>7 DEF Typed, TypeOK
<1> QED
  BY <1>6, <1>7, <1>8, <1>9, RequestStep

\* setEmailVerified and its kin: types.
LEMMA SetVerifiedTyped ==
  ASSUME Typed, NEW r \in Requests, SetVerified(r)
  PROVE  Typed' /\ UsersGrow
<1>1. PICK u \in DOMAIN users : u = reqs[r].user
  BY DEF SetVerified, Typed, Formed, Redeeming
<1> DEFINE new == [users[u] EXCEPT !.verified = TRUE]
<1>2. /\ users' = [users EXCEPT ![u] = new] /\ UNCHANGED <<identities, tokens, tickets, condemned>>
      /\ reqs[r].pc = "setVerified" /\ Formed(reqs[r]) /\ users[u] \in User
  BY <1>1 DEF SetVerified, Typed
<1>3. new \in User /\ (new.here <=> users[u].here)
  BY <1>2 DEF User
<1> HIDE DEF new
<1>4. /\ UsersGrow /\ TokensGrow /\ TicketsGrow /\ Referring
      /\ DOMAIN users' = DOMAIN users /\ Len(users') = Len(users)
      /\ identities' \in [Subjects -> 0..Len(users')]
  BY <1>2, <1>3, UserMarked
<1>5. /\ reqs' \in [Requests -> Request] /\ \A s \in Requests \ {r} : reqs'[s] = reqs[s]
      /\ Formed(reqs[r])' /\ reqs'[r].user \in 0..Len(users')
      /\ reqs'[r].ticket \in 0..Len(tickets')
  <2>1. CASE reqs[r].op = "magic"
    <3>1. Then(r, "issue")
      BY <2>1 DEF SetVerified
    <3>2. /\ reqs' \in [Requests -> Request] /\ \A s \in Requests \ {r} : reqs'[s] = reqs[s]
          /\ reqs'[r].pc = "issue" /\ reqs'[r].op = reqs[r].op /\ reqs'[r].user = reqs[r].user
          /\ reqs'[r].tok = reqs[r].tok /\ reqs'[r].ticket = reqs[r].ticket
          /\ reqs'[r].pw = reqs[r].pw /\ reqs'[r].sub = reqs[r].sub
      BY <3>1, GoesOn DEF Pcs
    <3>3. Formed(reqs[r])'
      BY <1>2, <1>4, <2>1, <3>2 DEF Formed, Presenting, Redeeming, Minting
    <3> QED
      BY <1>2, <1>4, <3>2, <3>3 DEF Typed, TypeOK
  <2>2. CASE reqs[r].op # "magic"
    <3>1. End(r)
      BY <2>2 DEF SetVerified
    <3>2. /\ reqs' \in [Requests -> Request] /\ \A s \in Requests \ {r} : reqs'[s] = reqs[s]
          /\ reqs'[r] = Idle
      BY <3>1, EndsIdle
    <3> QED
      BY <1>2, <1>4, <3>2, EndedFormed, IdleFormed DEF Typed
  <2> QED
    BY <2>1, <2>2
<1>6. condemned' \subseteq DOMAIN tokens'
  BY <1>2 DEF Typed, TypeOK
<1> QED
  BY <1>4, <1>5, <1>6, RequestStep

\* The new password: types.
LEMMA PasswordTyped ==
  ASSUME Typed, NEW r \in Requests, Password(r)
  PROVE  Typed' /\ UsersGrow
<1>1. PICK u \in DOMAIN users : u = reqs[r].user
  BY DEF Password, Typed, Formed, Redeeming
<1> DEFINE v == IF users[u].pw < MaxPassword THEN users[u].pw + 1 ELSE users[u].pw
           new == [users[u] EXCEPT !.pw = v]
<1>2. /\ users' = [users EXCEPT ![u] = new] /\ UNCHANGED <<identities, tokens, tickets, condemned>>
      /\ reqs[r].pc = "password" /\ Formed(reqs[r]) /\ users[u] \in User
  BY <1>1 DEF Password, Typed
<1>3. v \in Nat
  BY <1>2 DEF User
<1> HIDE DEF v
<1>4. new \in User /\ (new.here <=> users[u].here)
  BY <1>2, <1>3 DEF User
<1> HIDE DEF new
<1>5. /\ UsersGrow /\ TokensGrow /\ TicketsGrow /\ Referring
      /\ DOMAIN users' = DOMAIN users /\ Len(users') = Len(users)
      /\ identities' \in [Subjects -> 0..Len(users')]
  BY <1>2, <1>4, UserMarked
<1>6. /\ reqs' \in [Requests -> Request] /\ \A s \in Requests \ {r} : reqs'[s] = reqs[s]
      /\ reqs'[r].pc = "revokeAll" /\ reqs'[r].op = reqs[r].op /\ reqs'[r].user = reqs[r].user
      /\ reqs'[r].tok = reqs[r].tok /\ reqs'[r].ticket = reqs[r].ticket
      /\ reqs'[r].pw = reqs[r].pw /\ reqs'[r].sub = reqs[r].sub
  <2>1. Then(r, "revokeAll") /\ "revokeAll" \in Pcs
    BY DEF Password, Pcs
  <2> QED
    BY <2>1, GoesOn
<1>7. Formed(reqs[r])'
  BY <1>2, <1>5, <1>6 DEF Formed, Presenting, Redeeming, Minting
<1>8. condemned' \subseteq DOMAIN tokens' /\ reqs'[r].user \in 0..Len(users')
      /\ reqs'[r].ticket \in 0..Len(tickets')
  BY <1>2, <1>5, <1>6 DEF Typed, TypeOK
<1> QED
  BY <1>5, <1>6, <1>7, <1>8, RequestStep

\* The account of a first Google sign-in: types.
LEMMA CreateUserTyped ==
  ASSUME Typed, NEW r \in Requests, CreateOAuthUser(r)
  PROVE  Typed' /\ UsersGrow
<1>1. /\ reqs[r].pc = "createUser" /\ Formed(reqs[r]) /\ reqs[r].op = "google"
      /\ reqs[r].sub \in Subjects /\ reqs[r] \in Request
      /\ UNCHANGED <<identities, tokens, tickets, condemned>> /\ Len(users) < MaxUsers
  BY DEF CreateOAuthUser, Typed, Formed
<1>2. PICK email \in EmailsOf[reqs[r].sub], verified \in BOOLEAN :
        LET row == UserRow(None, email, None, 0, verified) IN
        \/ Then(r, "refused") /\ UNCHANGED users
        \/ /\ users' = Append(users, row)
           /\ reqs' = [reqs EXCEPT ![r].user = Len(users) + 1, ![r].pc = "identity"]
  BY DEF CreateOAuthUser
<1> DEFINE row == UserRow(None, email, None, 0, verified)
<1>3. row \in User /\ row.here
  <2>1. email \in Emails \cup {None}
    BY <1>1
  <2> QED
    BY <2>1, UserNew
<1>4. CASE Then(r, "refused") /\ UNCHANGED users
  <2>1. Typed'
    BY <1>1, <1>4, GoesOnTyped DEF Pcs
  <2> QED
    BY <1>4, <2>1, NothingGrows
<1>5. CASE /\ users' = Append(users, row)
           /\ reqs' = [reqs EXCEPT ![r].user = Len(users) + 1, ![r].pc = "identity"]
  <2> DEFINE n == Len(users) + 1
             q == [reqs[r] EXCEPT !.user = n, !.pc = "identity"]
  <2>1. n \in Nat
    BY DEF Typed
  <2>2. reqs' = [reqs EXCEPT ![r] = q]
    <3>1. \A f \in [Requests -> Request] :
            [f EXCEPT ![r].user = n, ![r].pc = "identity"]
              = [f EXCEPT ![r] = [f[r] EXCEPT !.user = n, !.pc = "identity"]]
      BY DEF Request
    <3> QED
      BY <1>5, <3>1 DEF Typed
  <2> HIDE DEF n, row
  <2>3. /\ q \in Request /\ q.pc = "identity" /\ q.op = "google" /\ q.user = n
        /\ q.tok = reqs[r].tok /\ q.ticket = reqs[r].ticket /\ q.pw = reqs[r].pw
        /\ q.sub = reqs[r].sub
    BY <1>1, <2>1 DEF Request, Pcs
  <2> HIDE DEF q
  <2>4. reqs' \in [Requests -> Request] /\ reqs'[r] = q /\ \A s \in Requests \ {r} : reqs'[s] = reqs[s]
    BY <2>2, <2>3 DEF Typed
  <2>5. /\ UsersGrow /\ TokensGrow /\ Len(users') = n
        /\ DOMAIN users' = DOMAIN users \cup {n}
        /\ Here' = Here \cup {n}
        /\ identities' \in [Subjects -> 0..Len(users')]
        /\ \A t \in DOMAIN tokens' : tokens'[t].here => tokens'[t].user \in Here'
    BY <1>1, <1>3, <1>5, UserInserted DEF n
  <2>6. TicketsGrow /\ condemned' \subseteq DOMAIN tokens'
    BY <1>1, NothingGrows
  <2>7. Referring
    BY <1>1, <2>5 DEF Referring, Typed, TypeOK
  <2>8. Formed(reqs[r])'
    BY <1>1, <2>3, <2>4 DEF Formed, Presenting, Redeeming, Minting
  <2>9. reqs'[r].user \in 0..Len(users') /\ reqs'[r].ticket \in 0..Len(tickets')
    BY <1>1, <2>1, <2>3, <2>4, <2>5 DEF Typed, TypeOK
  <2> QED
    BY <2>4, <2>5, <2>6, <2>7, <2>8, <2>9, RequestStep
<1> QED
  BY <1>2, <1>4, <1>5

\* The identity of a first Google sign-in: types.
LEMMA CreateIdentityTyped ==
  ASSUME Typed, NEW r \in Requests, CreateOAuthIdentity(r)
  PROVE  Typed'
<1>1. /\ reqs[r].pc = "identity" /\ Formed(reqs[r]) /\ reqs[r].op = "google"
      /\ reqs[r].sub \in Subjects
      /\ UNCHANGED <<users, tokens, tickets, condemned>>
  BY DEF CreateOAuthIdentity, Typed, Formed
<1>2. CASE End(r) /\ UNCHANGED identities
  BY <1>1, <1>2, EndTyped
<1>3. CASE /\ identities' = [identities EXCEPT ![reqs[r].sub] = reqs[r].user]
           /\ Then(r, "issue")
  <2>1. /\ reqs' \in [Requests -> Request] /\ \A s \in Requests \ {r} : reqs'[s] = reqs[s]
        /\ reqs'[r].pc = "issue" /\ reqs'[r].op = reqs[r].op /\ reqs'[r].user = reqs[r].user
        /\ reqs'[r].tok = reqs[r].tok /\ reqs'[r].ticket = reqs[r].ticket
        /\ reqs'[r].pw = reqs[r].pw /\ reqs'[r].sub = reqs[r].sub
    BY <1>3, GoesOn DEF Pcs
  <2>2. Formed(reqs[r])'
    BY <1>1, <2>1 DEF Formed, Presenting, Redeeming, Minting
  <2>3. reqs[r].user \in 0..Len(users) /\ reqs[r].ticket \in 0..Len(tickets)
    BY DEF Typed, TypeOK
  <2>4. identities' \in [Subjects -> 0..Len(users')]
    BY <1>1, <1>3, <2>3 DEF Typed, TypeOK
  <2>5. UsersGrow /\ TokensGrow /\ TicketsGrow /\ Referring /\ condemned' \subseteq DOMAIN tokens'
    BY <1>1, NothingGrows DEF Typed, TypeOK
  <2> QED
    BY <1>1, <2>1, <2>2, <2>3, <2>4, <2>5, RequestStep
<1> QED
  BY <1>2, <1>3 DEF CreateOAuthIdentity

\* The end of a suspension: types.
LEMMA UnsuspendTyped ==
  ASSUME Typed, NEW u \in DOMAIN users, Unsuspend(u)
  PROVE  /\ Typed' /\ UsersGrow
         /\ \A r \in Requests : /\ Alike(reqs'[r], reqs[r])
                                /\ reqs'[r].late = reqs[r].late
                                /\ reqs'[r].blocked <=> reqs[r].blocked /\ reqs[r].user # u
<1> DEFINE new == [users[u] EXCEPT !.suspended = FALSE]
<1>1. /\ users' = [users EXCEPT ![u] = new] /\ UNCHANGED <<identities, tokens, tickets, condemned>>
      /\ users[u] \in User
  BY DEF Unsuspend, Typed
<1>2. new \in User /\ (new.here <=> users[u].here)
  BY <1>1 DEF User
<1> HIDE DEF new
<1>3. /\ UsersGrow /\ TokensGrow /\ TicketsGrow /\ Referring
      /\ identities' \in [Subjects -> 0..Len(users')]
  BY <1>1, <1>2, UserMarked
<1>4. ASSUME NEW r \in Requests
      PROVE  /\ Alike(reqs'[r], reqs[r]) /\ reqs'[r] \in Request
             /\ reqs'[r].late = reqs[r].late
             /\ reqs'[r].blocked <=> reqs[r].blocked /\ reqs[r].user # u
  <2> DEFINE b == reqs[r].blocked /\ reqs[r].user # u
  <2>1. reqs'[r] = [reqs[r] EXCEPT !.blocked = b] /\ reqs[r] \in Request /\ b \in BOOLEAN
    BY DEF Unsuspend, Typed, Request
  <2> HIDE DEF b
  <2>2. Alike(reqs'[r], reqs[r]) /\ reqs'[r] \in Request /\ reqs'[r].late = reqs[r].late
        /\ (reqs'[r].blocked <=> b)
    BY <2>1 DEF Alike, Request
  <2> QED
    BY <2>2 DEF b
<1>5. reqs' \in [Requests -> Request] /\ \A r \in Requests : Alike(reqs'[r], reqs[r])
  BY <1>4 DEF Unsuspend
<1>6. condemned' \subseteq DOMAIN tokens'
  BY <1>1 DEF Typed, TypeOK
<1>7. Typed'
  BY <1>3, <1>5, <1>6, TypedStep
<1> QED
  BY <1>3, <1>4, <1>7

\* Tickets expire, are cleaned up, or go with their account.
LEMMA TicketsMarked ==
  ASSUME Typed, DOMAIN tickets' = DOMAIN tickets,
         tickets' \in [DOMAIN tickets -> Ticket],
         \A k \in DOMAIN tickets :
           /\ tickets'[k].user = tickets[k].user /\ tickets'[k].kind = tickets[k].kind
           /\ tickets'[k].here => tickets[k].here /\ tickets[k].user \in Here'
  PROVE  /\ TicketsGrow
         /\ \A k \in DOMAIN tickets' : tickets'[k].here => tickets'[k].user \in Here'
<1>1. tickets' \in Seq(Ticket) /\ Len(tickets') = Len(tickets)
  BY Marked DEF Typed
<1>2. Len(tickets') <= MaxTickets /\ Len(tickets) <= Len(tickets')
  BY <1>1 DEF Typed, TypeOK
<1> QED
  BY <1>1, <1>2 DEF TicketsGrow

\* The deletion of a user, with its cascades: types.
LEMMA DeleteTyped ==
  ASSUME Typed, NEW u \in DOMAIN users, DeleteUser(u)
  PROVE  /\ Typed' /\ UsersGrow /\ TokensGrow /\ TicketsGrow
         /\ Here' = Here \ {u} /\ DOMAIN users' = DOMAIN users /\ DOMAIN tokens' = DOMAIN tokens
         /\ \A i \in DOMAIN users : /\ users'[i].pw = users[i].pw
                                    /\ users'[i].suspended <=> users[i].suspended
         /\ \A t \in DOMAIN tokens : /\ tokens'[t].here <=> tokens[t].here /\ tokens[t].user # u
                                     /\ tokens'[t].revoked <=> tokens[t].revoked
                                     /\ tokens'[t].exempt <=> tokens[t].exempt
<1> DEFINE new == [users[u] EXCEPT !.here = FALSE]
<1>1. users' = [users EXCEPT ![u] = new] /\ UNCHANGED <<reqs, condemned>> /\ users[u] \in User
  BY DEF DeleteUser, Typed
<1>2. new \in User /\ ~new.here /\ new.pw = users[u].pw /\ (new.suspended <=> users[u].suspended)
  BY <1>1 DEF User
<1> HIDE DEF new
<1>3. users' \in [DOMAIN users -> User] /\ users'[u] = new
      /\ \A i \in DOMAIN users \ {u} : users'[i] = users[i]
  BY <1>1, <1>2 DEF Typed
<1>4. users' \in Seq(User) /\ Len(users') = Len(users) /\ DOMAIN users' = DOMAIN users
  BY <1>3, Marked DEF Typed
<1>5. Here' = Here \ {u}
  BY <1>2, <1>3, <1>4 DEF Here
<1>6. UsersGrow
  <2>1. Len(users') <= MaxUsers /\ Len(users) <= Len(users')
    BY <1>4 DEF Typed, TypeOK
  <2> QED
    BY <1>2, <1>3, <1>4, <2>1 DEF UsersGrow
<1>7. identities' \in [Subjects -> 0..Len(users')]
  <2>1. Len(users') \in Nat /\ identities \in [Subjects -> 0..Len(users')]
    BY <1>4 DEF Typed, TypeOK
  <2> QED
    BY <2>1 DEF DeleteUser
<1>8. ASSUME NEW t \in DOMAIN tokens
      PROVE  /\ tokens'[t] \in Token
             /\ tokens'[t].user = tokens[t].user /\ tokens'[t].family = tokens[t].family
             /\ tokens'[t].parent = tokens[t].parent /\ tokens'[t].pw = tokens[t].pw
             /\ tokens'[t].sub = tokens[t].sub
             /\ tokens'[t].here <=> tokens[t].here /\ tokens[t].user # u
             /\ tokens'[t].revoked = tokens[t].revoked
             /\ tokens'[t].exempt = tokens[t].exempt
             /\ tokens'[t].raced = tokens[t].raced
  <2> DEFINE b == tokens[t].here /\ tokens[t].user # u
  <2>0. tokens[t] \in Token /\ tokens'[t] = [tokens[t] EXCEPT !.here = b]
    BY DEF DeleteUser, Typed
  <2>1. tokens'[t] = [tokens[t] EXCEPT !.here = b] /\ tokens[t] \in Token /\ b \in BOOLEAN
    BY <2>0 DEF Token
  <2> HIDE DEF b
  <2>2. /\ tokens'[t] \in Token
        /\ tokens'[t].user = tokens[t].user /\ tokens'[t].family = tokens[t].family
        /\ tokens'[t].parent = tokens[t].parent /\ tokens'[t].pw = tokens[t].pw
        /\ tokens'[t].sub = tokens[t].sub
        /\ tokens'[t].here <=> b
        /\ tokens'[t].revoked = tokens[t].revoked
        /\ tokens'[t].exempt = tokens[t].exempt
        /\ tokens'[t].raced = tokens[t].raced
    BY <2>1 DEF Token
  <2> QED
    BY <2>2 DEF b
<1>9. tokens' \in [DOMAIN tokens -> Token]
  BY <1>8 DEF DeleteUser
<1>10. \A t \in DOMAIN tokens : tokens'[t].here => tokens[t].user \in Here'
  BY <1>5, <1>8 DEF Typed, TypeOK
<1>11. TokensGrow /\ DOMAIN tokens' = DOMAIN tokens
       /\ \A t \in DOMAIN tokens' : tokens'[t].here => tokens'[t].user \in Here'
  BY <1>8, <1>9, <1>10, MarkedTokens
<1>12. ASSUME NEW k \in DOMAIN tickets
       PROVE  /\ tickets'[k] \in Ticket
              /\ tickets'[k].user = tickets[k].user /\ tickets'[k].kind = tickets[k].kind
              /\ tickets'[k].here => tickets[k].here /\ tickets[k].user # u
  <2> DEFINE b == tickets[k].here /\ tickets[k].user # u
  <2>0. tickets[k] \in Ticket /\ tickets'[k] = [tickets[k] EXCEPT !.here = b]
    BY DEF DeleteUser, Typed
  <2>1. tickets'[k] = [tickets[k] EXCEPT !.here = b] /\ tickets[k] \in Ticket /\ b \in BOOLEAN
    BY <2>0 DEF Ticket
  <2> HIDE DEF b
  <2>2. /\ tickets'[k] \in Ticket
        /\ tickets'[k].user = tickets[k].user /\ tickets'[k].kind = tickets[k].kind
        /\ tickets'[k].here => b
    BY <2>1 DEF Ticket
  <2> QED
    BY <2>2 DEF b
<1>13. tickets' \in [DOMAIN tickets -> Ticket]
  BY <1>12 DEF DeleteUser
<1>14. \A k \in DOMAIN tickets : tickets'[k].here => tickets[k].user \in Here'
  BY <1>5, <1>12 DEF Typed, TypeOK
<1>15. TicketsGrow /\ \A k \in DOMAIN tickets' : tickets'[k].here => tickets'[k].user \in Here'
  BY <1>12, <1>13, <1>14, TicketsMarked
<1>16. Referring
  BY <1>11, <1>15 DEF Referring
<1>17. Typed'
  BY <1>1, <1>6, <1>7, <1>11, <1>15, <1>16, RowsStep
<1> QED
  BY SMTT(20), <1>2, <1>3, <1>4, <1>5, <1>6, <1>8, <1>11, <1>15, <1>17

\* Expiry and the nightly clean-up: types.
LEMMA ExpireTyped ==
  ASSUME Typed, Expire \/ Cleanup
  PROVE  /\ Typed' /\ TokensGrow /\ TicketsGrow /\ DOMAIN tokens' = DOMAIN tokens
         /\ UNCHANGED <<users, identities, reqs, condemned>>
         /\ \A t \in DOMAIN tokens : /\ tokens'[t].revoked <=> tokens[t].revoked
                                     /\ tokens'[t].exempt <=> tokens[t].exempt
<1>1. UNCHANGED <<users, identities, reqs, condemned>> /\ Here' = Here
  BY DEF Expire, Cleanup, Here
<1>2. /\ tokens' \in [DOMAIN tokens -> Token]
      /\ \A t \in DOMAIN tokens :
           /\ tokens'[t].user = tokens[t].user /\ tokens'[t].family = tokens[t].family
           /\ tokens'[t].parent = tokens[t].parent /\ tokens'[t].pw = tokens[t].pw
           /\ tokens'[t].sub = tokens[t].sub
           /\ tokens'[t].here => tokens[t].here
           /\ tokens'[t].revoked = tokens[t].revoked
           /\ tokens'[t].exempt = tokens[t].exempt
           /\ tokens'[t].raced = tokens[t].raced
  <2>1. tokens \in [DOMAIN tokens -> Token]
    BY DEF Typed
  <2>2. CASE UNCHANGED tokens
    BY <2>1, <2>2
  <2>3. ASSUME NEW t \in DOMAIN tokens, tokens' = [tokens EXCEPT ![t].expired = TRUE]
        PROVE  <1>2!1 /\ <1>2!2
    <3> DEFINE new == [tokens[t] EXCEPT !.expired = TRUE]
    <3>1. tokens' = [tokens EXCEPT ![t] = new] /\ tokens[t] \in Token
      BY <2>1, <2>3
    <3>2. /\ new \in Token /\ new.user = tokens[t].user /\ new.family = tokens[t].family
          /\ new.parent = tokens[t].parent /\ new.pw = tokens[t].pw /\ new.sub = tokens[t].sub
          /\ new.here = tokens[t].here /\ new.revoked = tokens[t].revoked
          /\ new.exempt = tokens[t].exempt /\ new.raced = tokens[t].raced
      BY <3>1 DEF Token
    <3> HIDE DEF new
    <3> QED
      BY <2>1, <3>1, <3>2
  <2>4. ASSUME NEW old, tokens' = [t \in DOMAIN tokens |->
                    [tokens[t] EXCEPT !.here = @ /\ ~tokens[t].expired /\ t \notin old]]
        PROVE  <1>2!1 /\ <1>2!2
    <3>1. ASSUME NEW t \in DOMAIN tokens
          PROVE  /\ tokens'[t] \in Token
                 /\ tokens'[t].user = tokens[t].user /\ tokens'[t].family = tokens[t].family
                 /\ tokens'[t].parent = tokens[t].parent /\ tokens'[t].pw = tokens[t].pw
                 /\ tokens'[t].sub = tokens[t].sub
                 /\ tokens'[t].here => tokens[t].here
                 /\ tokens'[t].revoked = tokens[t].revoked
                 /\ tokens'[t].exempt = tokens[t].exempt
                 /\ tokens'[t].raced = tokens[t].raced
      <4> DEFINE b == tokens[t].here /\ ~tokens[t].expired /\ t \notin old
      <4>1. tokens'[t] = [tokens[t] EXCEPT !.here = b] /\ tokens[t] \in Token
        BY <2>1, <2>4
      <4>2. b \in BOOLEAN /\ (b => tokens[t].here)
        BY <4>1 DEF Token
      <4> HIDE DEF b
      <4> QED
        BY <4>1, <4>2 DEF Token
    <3> QED
      BY <2>4, <3>1
  <2> QED
    BY <2>2, <2>3, <2>4 DEF Expire, Cleanup
<1>3. /\ tickets' \in [DOMAIN tickets -> Ticket]
      /\ \A k \in DOMAIN tickets :
           /\ tickets'[k].user = tickets[k].user /\ tickets'[k].kind = tickets[k].kind
           /\ tickets'[k].here => tickets[k].here
  <2>1. tickets \in [DOMAIN tickets -> Ticket]
    BY DEF Typed
  <2>2. CASE UNCHANGED tickets
    BY <2>1, <2>2
  <2>3. ASSUME NEW k \in DOMAIN tickets, tickets' = [tickets EXCEPT ![k].expired = TRUE]
        PROVE  <1>3!1 /\ <1>3!2
    <3> DEFINE new == [tickets[k] EXCEPT !.expired = TRUE]
    <3>1. tickets' = [tickets EXCEPT ![k] = new] /\ tickets[k] \in Ticket
      BY <2>1, <2>3
    <3>2. new \in Ticket /\ new.user = tickets[k].user /\ new.kind = tickets[k].kind
          /\ new.here = tickets[k].here
      BY <3>1 DEF Ticket
    <3> HIDE DEF new
    <3> QED
      BY <2>1, <3>1, <3>2
  <2>4. ASSUME tickets' = [k \in DOMAIN tickets |->
                             [tickets[k] EXCEPT !.here = @ /\ Redeemable(k)]]
        PROVE  <1>3!1 /\ <1>3!2
    <3>1. ASSUME NEW k \in DOMAIN tickets
          PROVE  /\ tickets'[k] \in Ticket
                 /\ tickets'[k].user = tickets[k].user /\ tickets'[k].kind = tickets[k].kind
                 /\ tickets'[k].here => tickets[k].here
      <4> DEFINE b == tickets[k].here /\ Redeemable(k)
      <4>1. tickets'[k] = [tickets[k] EXCEPT !.here = b] /\ tickets[k] \in Ticket
        BY <2>1, <2>4
      <4>2. b \in BOOLEAN /\ (b => tickets[k].here)
        BY <4>1 DEF Ticket
      <4> HIDE DEF b
      <4> QED
        BY <4>1, <4>2 DEF Ticket
    <3> QED
      BY <2>4, <3>1
  <2> QED
    BY <2>2, <2>3, <2>4 DEF Expire, Cleanup
<1>4. TokensGrow /\ DOMAIN tokens' = DOMAIN tokens
      /\ \A t \in DOMAIN tokens' : tokens'[t].here => tokens'[t].user \in Here'
  <2>1. \A t \in DOMAIN tokens : tokens'[t].here => tokens[t].user \in Here'
    BY <1>1, <1>2 DEF Typed, TypeOK
  <2> QED
    BY <1>2, <2>1, MarkedTokens
<1>5. TicketsGrow /\ \A k \in DOMAIN tickets' : tickets'[k].here => tickets'[k].user \in Here'
  <2>1. \A k \in DOMAIN tickets : tickets'[k].here => tickets[k].user \in Here'
    BY <1>1, <1>3 DEF Typed, TypeOK
  <2> QED
    BY <1>3, <2>1, TicketsMarked
<1>6. UsersGrow /\ identities' \in [Subjects -> 0..Len(users')]
  BY <1>1, NothingGrows
<1>7. Referring
  BY <1>4, <1>5 DEF Referring
<1>8. Typed'
  BY <1>1, <1>4, <1>5, <1>6, <1>7, RowsStep
<1> QED
  BY <1>1, <1>2, <1>4, <1>5, <1>8

\* The empty tables and idle requests have their types.
THEOREM InitTyped == Init => Typed
<1> SUFFICES ASSUME Init
             PROVE  Typed
  OBVIOUS
<1>1. /\ users = <<>> /\ tokens = <<>> /\ tickets = <<>> /\ condemned = {}
      /\ identities \in [Subjects -> 0..Len(users)]
      /\ reqs \in [Requests -> Request] /\ \A r \in Requests : reqs[r] = Idle
  BY IdleFormed DEF Init
<1>2. \A r \in Requests : Formed(reqs[r])
  BY <1>1, IdleFormed
<1>3. users \in Seq(User) /\ tokens \in Seq(Token) /\ tickets \in Seq(Ticket)
  BY <1>1
<1>4. TypeOK
  BY <1>1, IdleFormed, NumbersOfBounds DEF TypeOK, Here
<1> QED
  BY <1>1, <1>2, <1>3, <1>4 DEF Typed

\* Every statement keeps the types of rows and requests, and their references.
THEOREM NextTyped == Typed /\ [Next]_vars => Typed'
<1> SUFFICES ASSUME Typed, [Next]_vars
             PROVE  Typed'
  OBVIOUS
<1>1. CASE UNCHANGED vars
  <2>1. UsersGrow /\ TokensGrow /\ TicketsGrow /\ Referring
        /\ identities' \in [Subjects -> 0..Len(users')]
    BY <1>1, NothingGrows DEF vars
  <2> QED
    BY <1>1, <2>1, RowsStep DEF vars
<1>2. ASSUME NEW r \in Requests,
             \/ \E n \in Names, e \in Emails \cup {None} : Signup(r, n, e)
             \/ Anonymous(r)
             \/ \E u \in DOMAIN users : Login(r, u) \/ SuspendUser(r, u) \/ RevokeSessions(r, u)
             \/ \E t \in DOMAIN tokens : Refresh(r, t) \/ Logout(r, t)
             \/ \E k \in DOMAIN tickets : Present(r, k) \/ OtpVerify(r, k)
             \/ \E s \in Subjects : OAuthGoogleCallback(r, s)
      PROVE  Typed'
  BY <1>2, SignedUpTyped, LoginTyped, SuspendTyped, RefreshTyped, RedeemTyped, OAuthTyped
<1>3. ASSUME NEW r \in Requests,
             \/ FindUser(r) \/ RevokeToken(r) \/ Revoke(r) \/ Issue(r)
             \/ Attempt(r) \/ Mark(r) \/ SetVerified(r) \/ Password(r)
             \/ CreateOAuthUser(r) \/ CreateOAuthIdentity(r) \/ Refused(r)
             \/ Fail(r)
      PROVE  Typed'
  <2>1. CASE Refused(r)
    BY <2>1, EndTyped DEF Refused
  <2> QED
    BY <1>3, <2>1, FindUserTyped, RevokeTokenTyped, RevokeTyped, IssueTyped, AttemptTyped,
       MarkTyped, SetVerifiedTyped, PasswordTyped, CreateUserTyped, CreateIdentityTyped, FailTyped
<1>4. CASE \/ \E u \in DOMAIN users :
                Forgot(u) \/ EmailVerifyRequest(u) \/ Unsuspend(u) \/ DeleteUser(u)
           \/ \E e \in Emails : MagicLinkRequest(e)
           \/ \E p \in Phones : OtpRequest(p)
           \/ Expire \/ Cleanup
  BY <1>4, ForgotTyped, CodeTyped, UnsuspendTyped, DeleteTyped, ExpireTyped
<1> QED
  BY <1>1, <1>2, <1>3, <1>4 DEF Next

\* Rows and requests keep their types and refer to rows that were inserted.
THEOREM SpecTyped == Spec => []Typed
<1> QED
  BY InitTyped, NextTyped, PTL DEF Spec

-----------------------------------------------------------------------------
(***************************************************************************)
(* Sessions.  A revocation in progress covers what is not revoked yet, and *)
(* a request carries what the token it may mint will be judged by.         *)
(***************************************************************************)
Ending == {tokens[reqs[r].tok].family : r \in {q \in Requests : reqs[q].pc = "killFamily"}}
Resetting == {reqs[r].user : r \in {q \in Requests : reqs[q].op = "reset"
                                                     /\ reqs[q].pc = "revokeAll"}}
Suspending == {reqs[r].user : r \in {q \in Requests : reqs[q].op = "suspend"
                                                      /\ reqs[q].pc = "revokeAll"}}

\* A session of user u in family F, started with password pw, as subject sub,
\* is as it should be, or a revocation is at it, or it overlapped one (ex), or
\* it will be refused (bl).
Session(u, F, pw, sub, ex, bl) ==
  /\ F \in condemned => ex \/ F \in Ending
  /\ (pw # 0 /\ u \in DOMAIN users /\ pw < users[u].pw) => ex \/ u \in Resetting
  /\ (u \in DOMAIN users /\ users[u].suspended) => ex \/ bl \/ u \in Suspending
  /\ (sub # None /\ u \in Here) => identities[sub] = u

TokenSound(t) ==
  Live(t) => Session(tokens[t].user, tokens[t].family, tokens[t].pw, tokens[t].sub,
                     tokens[t].exempt, FALSE)

Family(r) == IF reqs[r].op = "refresh" THEN tokens[reqs[r].tok].family ELSE 0
Subject(r) == IF reqs[r].pc \in {"createUser", "identity", "refused"} THEN None ELSE reqs[r].sub

RequestSound(r) ==
  LET q == reqs[r] IN
  /\ q.op \in Minting => Session(q.user, Family(r), q.pw, Subject(r), q.late, q.blocked)
  /\ q.blocked => q.user \in DOMAIN users /\ users[q.user].suspended
  /\ \/ q.pc \in {"issue", "createUser", "identity"}
     \/ q.pc = "setVerified" /\ q.op = "magic"
     \/ q.pc = "revokeToken" /\ q.op = "refresh"
     => ~q.blocked

Sessions == /\ \A t \in DOMAIN tokens : TokenSound(t)
            /\ \A r \in Requests : RequestSound(r)

\* What a step may do to the facts that sessions are judged by.
Frame ==
  /\ condemned' \subseteq condemned \cup Ending'
  /\ Ending \subseteq Ending'
  /\ Resetting \subseteq Resetting'
  /\ Suspending \subseteq Suspending'
  /\ \A u \in DOMAIN users :
       /\ users'[u].pw = users[u].pw \/ u \in Resetting'
       /\ users'[u].suspended => users[u].suspended \/ u \in Suspending'
  /\ \A s \in Subjects : identities[s] \in Here' => identities'[s] = identities[s]

\* Accounts that were there before a step.
LEMMA UsersStay ==
  ASSUME Typed, UsersGrow, NEW u \in 0..Len(users)
  PROVE  /\ u \in DOMAIN users' <=> u \in DOMAIN users
         /\ u \in Here' => u \in Here
<1>1. /\ DOMAIN users = 1..Len(users) /\ DOMAIN users' = 1..Len(users')
      /\ Len(users) \in Nat /\ Len(users') \in Nat /\ Len(users) <= Len(users')
  BY DEF Typed, UsersGrow
<1>2. u \in DOMAIN users' <=> u \in DOMAIN users
  BY <1>1
<1> QED
  BY <1>2 DEF Here, UsersGrow

\* Within the frame, a session stays as it should be.
LEMMA FrameKeeps ==
  ASSUME Typed, UsersGrow, Frame, NEW u \in 0..Len(users), NEW F, NEW pw,
         NEW sub \in Subjects \cup {None}, NEW ex \in BOOLEAN, NEW bl \in BOOLEAN,
         Session(u, F, pw, sub, ex, bl)
  PROVE  Session(u, F, pw, sub, ex, bl)'
<1>1. (u \in DOMAIN users' <=> u \in DOMAIN users) /\ (u \in Here' => u \in Here)
  BY UsersStay
<1>2. F \in condemned' => ex \/ F \in Ending'
  BY DEF Session, Frame
<1>3. (pw # 0 /\ u \in DOMAIN users' /\ pw < users'[u].pw) => ex \/ u \in Resetting'
  BY <1>1 DEF Session, Frame
<1>4. (u \in DOMAIN users' /\ users'[u].suspended) => ex \/ bl \/ u \in Suspending'
  BY <1>1 DEF Session, Frame
<1>5. (sub # None /\ u \in Here') => identities'[sub] = u
  BY <1>1 DEF Session, Frame
<1> QED
  BY <1>2, <1>3, <1>4, <1>5 DEF Session

\* A session that is sound stays so when it is excused.
LEMMA SessionWeakens ==
  ASSUME NEW u, NEW F, NEW pw, NEW sub, NEW ex, NEW bl, NEW ey, NEW bm,
         Session(u, F, pw, sub, ex, bl), ex => ey, bl => bm
  PROVE  Session(u, F, pw, sub, ey, bm)
  BY DEF Session

\* The fields of rows and requests that Session takes.
LEMMA SessionTypes ==
  ASSUME Typed
  PROVE  /\ \A t \in DOMAIN tokens :
              /\ tokens[t].user \in 0..Len(users) /\ tokens[t].user \in DOMAIN users
              /\ tokens[t].sub \in Subjects \cup {None}
              /\ tokens[t].exempt \in BOOLEAN /\ tokens[t].family \in 1..t /\ tokens[t].pw \in Nat
              /\ tokens[t].revoked \in BOOLEAN /\ tokens[t].here \in BOOLEAN
              /\ tokens[t].here => tokens[t].user \in Here
         /\ \A r \in Requests :
              /\ reqs[r].user \in 0..Len(users) /\ Subject(r) \in Subjects \cup {None}
              /\ reqs[r].late \in BOOLEAN /\ reqs[r].blocked \in BOOLEAN /\ reqs[r].pw \in Nat
              /\ reqs[r].sub \in Subjects \cup {None}
<1>1. \A t \in DOMAIN tokens : /\ tokens[t] \in Token /\ tokens[t].user \in DOMAIN users
                               /\ tokens[t].family \in 1..t
                               /\ tokens[t].here => tokens[t].user \in Here
  BY DEF Typed, TypeOK
<1>2. \A r \in Requests : reqs[r] \in Request /\ reqs[r].user \in 0..Len(users)
  BY DEF Typed, TypeOK
<1>3. DOMAIN users \subseteq 0..Len(users)
  BY DEF Typed
<1>4. ASSUME NEW t \in DOMAIN tokens
      PROVE  /\ tokens[t].user \in 0..Len(users)
             /\ tokens[t].sub \in Subjects \cup {None}
             /\ tokens[t].exempt \in BOOLEAN /\ tokens[t].pw \in Nat
             /\ tokens[t].revoked \in BOOLEAN /\ tokens[t].here \in BOOLEAN
  <2>1. tokens[t] \in Token /\ tokens[t].user \in 0..Len(users)
    BY <1>1, <1>3
  <2> QED
    BY <2>1 DEF Token
<1>5. ASSUME NEW r \in Requests
      PROVE  /\ reqs[r].late \in BOOLEAN /\ reqs[r].blocked \in BOOLEAN /\ reqs[r].pw \in Nat
             /\ reqs[r].sub \in Subjects \cup {None} /\ Subject(r) \in Subjects \cup {None}
  <2>1. reqs[r] \in Request
    BY <1>2
  <2>2. /\ reqs[r].late \in BOOLEAN /\ reqs[r].blocked \in BOOLEAN /\ reqs[r].pw \in Nat
        /\ reqs[r].sub \in Subjects \cup {None}
    BY <2>1 DEF Request
  <2> QED
    BY <2>2 DEF Subject
<1> QED
  BY <1>1, <1>2, <1>4, <1>5

\* The tokens of before stay sound.
LEMMA TokensStaySound ==
  ASSUME Typed, UsersGrow, TokensGrow, Frame, Sessions,
         NEW t \in DOMAIN tokens
  PROVE  TokenSound(t)'
<1> SUFFICES ASSUME Live(t)'
             PROVE  Session(tokens[t].user, tokens[t].family, tokens[t].pw, tokens[t].sub,
                            tokens[t].exempt, FALSE)'
  BY DEF TokenSound
<1>1. PICK u \in 0..Len(users), F \in Nat, pw \in Nat, sub \in Subjects \cup {None},
           ex \in BOOLEAN, bl \in BOOLEAN :
        u = tokens[t].user /\ F = tokens[t].family /\ pw = tokens[t].pw /\ sub = tokens[t].sub
        /\ ex = tokens[t].exempt /\ ~bl
  <2>1. PICK bl \in BOOLEAN : ~bl
    OBVIOUS
  <2>2. tokens[t].family \in Nat
    BY SessionTypes DEF Typed
  <2> QED
    BY <2>1, <2>2, SessionTypes
<1>2. /\ tokens'[t].user = u /\ tokens'[t].family = F /\ tokens'[t].pw = pw
      /\ tokens'[t].sub = sub /\ (ex => tokens'[t].exempt)
      /\ tokens'[t].here => tokens[t].here
      /\ tokens[t].revoked => tokens'[t].revoked
  BY <1>1 DEF TokensGrow
<1>3. Live(t)
  BY <1>2 DEF Live
<1>4. Session(u, F, pw, sub, ex, bl)
  BY <1>1, <1>3 DEF Sessions, TokenSound, Session
<1>5. Session(u, F, pw, sub, ex, bl)'
  BY <1>4, FrameKeeps
<1> QED
  BY <1>1, <1>2, <1>5 DEF Session

\* Request s comes to a statement that refuses a suspended account before it.
Cleared(s) ==
  \/ reqs[s].pc \in {"issue", "createUser", "identity"}
  \/ reqs[s].pc = "setVerified" /\ reqs[s].op = "magic"
  \/ reqs[s].pc = "revokeToken" /\ reqs[s].op = "refresh"

\* A request that goes on stays sound.
LEMMA CarriedStaysSound ==
  ASSUME Typed, UsersGrow, TokensGrow, Frame, Sessions, NEW s \in Requests,
         reqs'[s].op = reqs[s].op, reqs'[s].user = reqs[s].user, reqs'[s].tok = reqs[s].tok,
         reqs'[s].pw = reqs[s].pw, Subject(s)' = Subject(s) \/ Subject(s)' = None,
         Cleared(s)' => ~reqs'[s].blocked,
         reqs'[s].late \in BOOLEAN, reqs[s].late => reqs'[s].late,
         reqs'[s].blocked => reqs[s].blocked,
         reqs[s].user \in DOMAIN users =>
           (reqs[s].blocked /\ users'[reqs[s].user].suspended <=> reqs'[s].blocked)
  PROVE  RequestSound(s)'
<1>1. PICK u \in 0..Len(users), F \in Nat, pw \in Nat, sub \in Subjects \cup {None},
           ex \in BOOLEAN, bl \in BOOLEAN :
        /\ u = reqs[s].user /\ F = Family(s) /\ pw = reqs[s].pw /\ sub = Subject(s)
        /\ ex = reqs[s].late /\ bl = reqs[s].blocked
  <2>1. Family(s) \in Nat
    <3>1. CASE reqs[s].op = "refresh"
      <4>1. reqs[s].tok \in DOMAIN tokens
        BY <3>1 DEF Typed, Formed, Presenting
      <4>2. tokens[reqs[s].tok].family \in 1..reqs[s].tok
        BY <4>1, SessionTypes
      <4> QED
        BY <3>1, <4>2 DEF Family
    <3> QED
      BY <3>1 DEF Family
  <2> QED
    BY <2>1, SessionTypes
<1>2. Family(s)' = F /\ (Subject(s)' = sub \/ Subject(s)' = None)
  <2>1. reqs[s].op = "refresh" => reqs[s].tok \in DOMAIN tokens
    BY DEF Typed, Formed, Presenting
  <2>2. reqs[s].op = "refresh" => tokens'[reqs[s].tok].family = tokens[reqs[s].tok].family
    BY <2>1 DEF TokensGrow
  <2> QED
    BY <1>1, <2>2 DEF Family
<1>3. reqs'[s].user = u /\ reqs'[s].pw = pw /\ reqs'[s].op = reqs[s].op
  BY <1>1
<1>4. RequestSound(s)
  BY DEF Sessions
<1>5. reqs'[s].blocked => u \in DOMAIN users' /\ users'[u].suspended
  <2>1. reqs[s].blocked => u \in DOMAIN users
    BY <1>1, <1>4 DEF RequestSound
  <2> QED
    BY <1>1, <2>1, UsersStay
<1>6. ASSUME reqs[s].op \in Minting
      PROVE  Session(reqs[s].user, Family(s), reqs[s].pw, Subject(s), reqs[s].late,
                     reqs[s].blocked)'
  <2>1. Session(u, F, pw, sub, ex, bl)
    BY <1>1, <1>4, <1>6 DEF RequestSound
  <2>2. Session(u, F, pw, sub, ex, bl)'
    BY <2>1, FrameKeeps
  <2>3. u \in DOMAIN users' => u \in DOMAIN users
    BY UsersStay
  <2>4. u \in DOMAIN users' /\ users'[u].suspended /\ bl => reqs'[s].blocked
    BY <1>1, <2>3
  <2> QED
    BY <1>1, <1>2, <1>3, <2>2, <2>4 DEF Session
<1> QED
  BY <1>3, <1>5, <1>6 DEF RequestSound, Cleared

\* A request that only its history changes in stays sound.
LEMMA AlikeStaysSound ==
  ASSUME Typed, UsersGrow, TokensGrow, Frame, Sessions, NEW s \in Requests,
         Alike(reqs'[s], reqs[s]), reqs'[s].late \in BOOLEAN, reqs[s].late => reqs'[s].late,
         reqs'[s].blocked => reqs[s].blocked,
         reqs[s].user \in DOMAIN users =>
           (reqs[s].blocked /\ users'[reqs[s].user].suspended <=> reqs'[s].blocked)
  PROVE  RequestSound(s)'
<1>1. RequestSound(s)
  BY DEF Sessions
<1>2. Cleared(s)' => ~reqs'[s].blocked
  BY <1>1 DEF RequestSound, Cleared, Alike
<1>3. Subject(s)' = Subject(s)
  BY DEF Subject, Alike
<1> QED
  BY <1>2, <1>3, CarriedStaysSound DEF Alike


\* A step of request r keeps sessions sound when it leaves r, and the token it
\* inserts, if any, sound.
LEMMA SessionsStep ==
  ASSUME Typed, UsersGrow, TokensGrow, Frame, Sessions, NEW r \in Requests,
         \A u \in DOMAIN users : users[u].suspended => users'[u].suspended,
         \A s \in Requests \ {r} : reqs'[s] = reqs[s],
         RequestSound(r)',
         \A t \in DOMAIN tokens' \ DOMAIN tokens : TokenSound(t)'
  PROVE  Sessions'
<1>1. \A t \in DOMAIN tokens' : TokenSound(t)'
  BY TokensStaySound
<1>2. ASSUME NEW s \in Requests \ {r}
      PROVE  RequestSound(s)'
  <2>1. reqs'[s] = reqs[s] /\ reqs[s].late \in BOOLEAN /\ reqs[s].blocked \in BOOLEAN
    BY SessionTypes
  <2>2. RequestSound(s)
    BY DEF Sessions
  <2>3. reqs[s].blocked => users[reqs[s].user].suspended
    BY <2>2 DEF RequestSound
  <2>4. reqs[s].user \in DOMAIN users =>
           (reqs[s].blocked /\ users'[reqs[s].user].suspended <=> reqs'[s].blocked)
    BY <2>1, <2>3
  <2>5. Alike(reqs'[s], reqs[s])
    BY <2>1 DEF Alike
  <2> QED
    BY <2>1, <2>4, <2>5, AlikeStaysSound
<1> QED
  BY <1>1, <1>2 DEF Sessions

\* A request that is not at a revocation leaves those in progress.
LEMMA RevokersStay ==
  ASSUME Typed, TokensGrow, NEW r \in Requests, reqs[r].pc \notin {"killFamily", "revokeAll"},
         \A s \in Requests \ {r} : reqs'[s] = reqs[s]
  PROVE  Ending \subseteq Ending' /\ Resetting \subseteq Resetting'
         /\ Suspending \subseteq Suspending'
<1>1. \A s \in Requests : reqs[s].pc \in {"killFamily", "revokeAll"} => reqs'[s] = reqs[s]
  OBVIOUS
<1>2. ASSUME NEW s \in Requests, reqs[s].pc = "killFamily"
      PROVE  tokens[reqs[s].tok].family \in Ending'
  <2>1. reqs[s].tok \in DOMAIN tokens
    BY <1>2 DEF Typed, Formed, Presenting
  <2>2. tokens'[reqs[s].tok].family = tokens[reqs[s].tok].family
    BY <2>1 DEF TokensGrow
  <2> QED
    BY <1>1, <1>2, <2>2 DEF Ending
<1>3. Ending \subseteq Ending'
  BY <1>2 DEF Ending
<1>4. Resetting \subseteq Resetting' /\ Suspending \subseteq Suspending'
  BY <1>1 DEF Resetting, Suspending
<1> QED
  BY <1>3, <1>4

\* A step that changes no account and condemns no family is in the frame.
LEMMA QuietFrame ==
  ASSUME Typed, TokensGrow, NEW r \in Requests, reqs[r].pc \notin {"killFamily", "revokeAll"},
         \A s \in Requests \ {r} : reqs'[s] = reqs[s], UNCHANGED <<users, condemned>>,
         \A s \in Subjects : identities[s] \in Here' => identities'[s] = identities[s]
  PROVE  Frame /\ \A u \in DOMAIN users : users[u].suspended => users'[u].suspended
  BY RevokersStay DEF Frame

\* A request that has ended carries nothing.
LEMMA IdleSound ==
  ASSUME NEW r \in Requests, reqs'[r] = Idle
  PROVE  RequestSound(r)'
<1>1. Idle.op = "none" /\ ~Idle.blocked
  BY ForTyped DEF Ops, Pcs
<1> QED
  BY <1>1 DEF RequestSound, Minting

\* A request goes on: its account was not suspended, or it is not cleared.
LEMMA GoesOnSound ==
  ASSUME Typed, UsersGrow, TokensGrow, Frame, Sessions, NEW r \in Requests, NEW pc \in Pcs,
         Then(r, pc), \A u \in DOMAIN users : users[u].suspended => users'[u].suspended,
         reqs[r].pc \notin {"createUser", "identity", "refused"} \/ pc = "refused",
         Cleared(r)' => ~reqs[r].blocked
  PROVE  RequestSound(r)'
<1>1. /\ reqs'[r].pc = pc /\ reqs'[r].op = reqs[r].op /\ reqs'[r].user = reqs[r].user
      /\ reqs'[r].tok = reqs[r].tok
      /\ reqs'[r].pw = reqs[r].pw /\ reqs'[r].sub = reqs[r].sub
      /\ reqs'[r].late = reqs[r].late /\ reqs'[r].blocked = reqs[r].blocked
  BY GoesOn
<1>2. Subject(r)' = Subject(r) \/ Subject(r)' = None
  BY <1>1 DEF Subject
<1>3. reqs[r].late \in BOOLEAN /\ reqs[r].blocked \in BOOLEAN
  BY SessionTypes
<1>4. reqs[r].blocked => users[reqs[r].user].suspended
  BY DEF Sessions, RequestSound
<1>5. reqs[r].user \in DOMAIN users =>
        (reqs[r].blocked /\ users'[reqs[r].user].suspended <=> reqs'[r].blocked)
  BY <1>1, <1>3, <1>4
<1> QED
  BY <1>1, <1>2, <1>3, <1>5, CarriedStaysSound

\* A step of the rows alone.
LEMMA SessionsRows ==
  ASSUME Typed, UsersGrow, TokensGrow, Frame, Sessions, UNCHANGED reqs,
         \A u \in DOMAIN users : users[u].suspended => users'[u].suspended,
         DOMAIN tokens' = DOMAIN tokens
  PROVE  Sessions'
<1>1. \A t \in DOMAIN tokens' : TokenSound(t)'
  BY TokensStaySound
<1>2. ASSUME NEW s \in Requests
      PROVE  RequestSound(s)'
  <2>1. reqs'[s] = reqs[s] /\ reqs[s].late \in BOOLEAN /\ reqs[s].blocked \in BOOLEAN
    BY SessionTypes
  <2>2. reqs[s].blocked => users[reqs[s].user].suspended
    BY DEF Sessions, RequestSound
  <2>3. reqs[s].user \in DOMAIN users =>
           (reqs[s].blocked /\ users'[reqs[s].user].suspended <=> reqs'[s].blocked)
    BY <2>1, <2>2
  <2>4. Alike(reqs'[s], reqs[s])
    BY <2>1 DEF Alike
  <2> QED
    BY <2>1, <2>3, <2>4, AlikeStaysSound
<1> QED
  BY <1>1, <1>2 DEF Sessions

\* A request for an account begins, with no token and as no subject, and the
\* account's row is as it reads it.
LEMMA BegunSound ==
  ASSUME Typed, Typed', NEW r \in Requests, NEW u \in DOMAIN users', reqs'[r].user = u,
         reqs'[r].op # "refresh", reqs'[r].sub = None,
         reqs'[r].pw = 0 \/ reqs'[r].pw = users'[u].pw,
         reqs'[r].blocked <=> users'[u].suspended,
         Cleared(r)' => ~reqs'[r].blocked
  PROVE  RequestSound(r)'
<1>1. Family(r)' = 0 /\ Subject(r)' = None
  BY DEF Family, Subject
<1>2. 0 \notin condemned'
  BY DEF Typed, TypeOK
<1>3. users'[u] \in User
  BY DEF Typed
<1>4. users'[u].pw \in Nat
  BY <1>3 DEF User
<1>5. Session(reqs[r].user, Family(r), reqs[r].pw, Subject(r), reqs[r].late, reqs[r].blocked)'
  BY <1>1, <1>2, <1>4 DEF Session
<1> QED
  BY <1>5 DEF RequestSound, Cleared

\* An account is inserted, and the revocations in progress stay.
LEMMA InsertedFrame ==
  ASSUME Typed, TokensGrow, UsersGrow, UNCHANGED <<condemned, identities>>,
         \A u \in DOMAIN users : users'[u] = users[u],
         Ending \subseteq Ending', Resetting \subseteq Resetting', Suspending \subseteq Suspending'
  PROVE  Frame /\ \A u \in DOMAIN users : users[u].suspended => users'[u].suspended
  BY DEF Frame

-----------------------------------------------------------------------------
(***************************************************************************)
(* Every step keeps sessions sound.                                        *)
(***************************************************************************)
LEMMA SignupSound ==
  ASSUME Typed, Typed', Sessions, NEW r \in Requests, NEW row \in User, NEW q \in Request,
         row.here, ~row.suspended, Len(users) < MaxUsers, users' = Append(users, row),
         Begin(r, q), UNCHANGED <<identities, tokens, tickets, condemned>>,
         q.op = "login", q.user = Len(users) + 1, q.sub = None, ~q.blocked,
         q.pw = 0 \/ q.pw = row.pw
  PROVE  Sessions'
<1>1. /\ UsersGrow /\ TokensGrow /\ users'[Len(users) + 1] = row
      /\ DOMAIN users' = DOMAIN users \cup {Len(users) + 1}
      /\ \A u \in DOMAIN users : users'[u] = users[u]
  BY UserInserted
<1>2. /\ reqs'[r] = q /\ \A s \in Requests \ {r} : reqs'[s] = reqs[s]
      /\ reqs[r].pc = "idle"
  BY Begins
<1>3. Frame /\ \A u \in DOMAIN users : users[u].suspended => users'[u].suspended
  BY <1>1, <1>2, RevokersStay, InsertedFrame
<1>4. PICK u \in DOMAIN users' : u = Len(users) + 1
  BY <1>1
<1>5. /\ reqs'[r].user = u /\ reqs'[r].op # "refresh" /\ reqs'[r].sub = None
      /\ reqs'[r].pw = 0 \/ reqs'[r].pw = users'[u].pw
      /\ reqs'[r].blocked <=> users'[u].suspended
      /\ ~reqs'[r].blocked
  BY <1>1, <1>2, <1>4
<1>6. RequestSound(r)'
  BY <1>5, BegunSound
<1>7. DOMAIN tokens' = DOMAIN tokens
  OBVIOUS
<1> QED
  BY <1>1, <1>2, <1>3, <1>6, <1>7, SessionsStep

\* Sign-up and anonymous sign-in keep sessions sound.
LEMMA SignedUpSound ==
  ASSUME Typed, Typed', Sessions, NEW r \in Requests,
         Anonymous(r) \/ \E n \in Names, e \in Emails \cup {None} : Signup(r, n, e)
  PROVE  Sessions'
<1> DEFINE u == Len(users) + 1
           f == For("login", u, "issue")
<1>1. /\ f \in Request /\ f.op = "login" /\ f.user = u /\ f.sub = None /\ f.pw = 0
      /\ ~f.blocked
  <2>1. "login" \in Ops /\ "issue" \in Pcs /\ u \in Nat /\ u \notin DOMAIN users
    BY DEF Ops, Minting, Pcs, Typed
  <2> HIDE DEF u
  <2> QED
    BY <2>1, ForTyped
<1>2. CASE Anonymous(r)
  <2> DEFINE row == UserRow(None, None, None, 0, FALSE)
  <2>1. row \in User /\ row.here /\ ~row.suspended
    BY UserNew
  <2>2. Begin(r, f) /\ UNCHANGED <<identities, tokens, tickets, condemned>>
        /\ users' = Append(users, row) /\ Len(users) < MaxUsers
    BY <1>2 DEF Anonymous
  <2> HIDE DEF f, row
  <2> QED
    BY <1>1, <2>1, <2>2, SignupSound
<1>3. CASE \E n \in Names, e \in Emails \cup {None} : Signup(r, n, e)
  <2>1. PICK n \in Names, e \in Emails \cup {None} : Signup(r, n, e)
    BY <1>3
  <2> DEFINE row == UserRow(n, e, None, 1, FALSE)
             q == [f EXCEPT !.pw = 1]
  <2>2. row \in User /\ row.here /\ ~row.suspended /\ row.pw = 1
    <3>1. row.pw = 1
      BY DEF UserRow
    <3> QED
      BY <3>1, UserNew
  <2>3. Begin(r, q) /\ UNCHANGED <<identities, tokens, tickets, condemned>>
        /\ users' = Append(users, row) /\ Len(users) < MaxUsers
    BY <2>1 DEF Signup
  <2> HIDE DEF f, row
  <2>4. q \in Request /\ q.op = "login" /\ q.user = u /\ q.sub = None /\ ~q.blocked /\ q.pw = 1
    BY <1>1 DEF Request
  <2> HIDE DEF q
  <2> QED
    BY <2>2, <2>3, <2>4, SignupSound
<1> QED
  BY <1>2, <1>3

\* handleLogin keeps sessions sound.
LEMMA LoginSound ==
  ASSUME Typed, Typed', Sessions, NEW r \in Requests, NEW u \in DOMAIN users, Login(r, u)
  PROVE  Sessions'
<1> DEFINE f == For("login", u, "issue")
           q == [f EXCEPT !.pw = users[u].pw]
<1>1. users[u] \in User /\ u \in Nat /\ "login" \in Ops /\ "issue" \in Pcs
  BY DEF Typed, Ops, Minting, Pcs
<1>2. users[u].pw \in Nat
  BY <1>1 DEF User
<1>3. Begin(r, q) /\ UNCHANGED <<users, identities, tokens, tickets, condemned>>
      /\ ~users[u].suspended
  BY DEF Login
<1>4. /\ f \in Request /\ f.op = "login" /\ f.user = u /\ f.sub = None
      /\ (f.blocked <=> (u \in DOMAIN users /\ users[u].suspended))
  BY <1>1, ForTyped
<1> HIDE DEF f
<1>5. /\ q \in Request /\ q.op = "login" /\ q.user = u /\ q.sub = None /\ ~q.blocked
      /\ q.pw = users[u].pw
  BY <1>2, <1>3, <1>4 DEF Request
<1> HIDE DEF q
<1>6. /\ reqs'[r] = q /\ \A s \in Requests \ {r} : reqs'[s] = reqs[s]
      /\ reqs[r].pc = "idle"
  BY <1>3, <1>5, Begins
<1>7. UsersGrow /\ TokensGrow
  BY <1>3, NothingGrows
<1>8. Frame /\ \A i \in DOMAIN users : users[i].suspended => users'[i].suspended
  BY <1>3, <1>6, <1>7, QuietFrame
<1>9. RequestSound(r)'
  <2>1. u \in DOMAIN users' /\ users'[u] = users[u]
    BY <1>3
  <2>2. /\ reqs'[r].user = u /\ reqs'[r].op # "refresh" /\ reqs'[r].sub = None
        /\ reqs'[r].pw = users'[u].pw
        /\ reqs'[r].blocked <=> users'[u].suspended
        /\ ~reqs'[r].blocked
    BY <1>3, <1>5, <1>6, <2>1
  <2> QED
    BY <2>1, <2>2, BegunSound
<1> QED
  BY <1>3, <1>6, <1>7, <1>8, <1>9, SessionsStep

\* A suspension keeps sessions sound: the requests it meets are now blocked.
LEMMA SuspendSound ==
  ASSUME Typed, Typed', Sessions, NEW r \in Requests, NEW u \in DOMAIN users, SuspendUser(r, u)
  PROVE  Sessions'
<1> DEFINE new == [users[u] EXCEPT !.suspended = TRUE]
           f == For("suspend", u, "revokeAll")
           q == [f EXCEPT !.blocked = FALSE]
<1>1. u \in Nat /\ users[u] \in User /\ "suspend" \in Ops /\ "revokeAll" \in Pcs
  BY DEF Typed, Ops, Pcs
<1>2. /\ users' = [users EXCEPT ![u] = new] /\ Begin(r, q)
      /\ UNCHANGED <<identities, tokens, tickets, condemned>>
  BY DEF SuspendUser
<1>3. /\ new \in User /\ (new.here <=> users[u].here) /\ new.pw = users[u].pw /\ new.suspended
  BY <1>1 DEF User
<1> HIDE DEF new
<1>4. /\ UsersGrow /\ TokensGrow /\ DOMAIN users' = DOMAIN users
      /\ users'[u] = new /\ \A i \in DOMAIN users \ {u} : users'[i] = users[i]
  BY <1>2, <1>3, UserMarked
<1>5. f \in Request /\ f.op = "suspend" /\ f.pc = "revokeAll" /\ f.user = u
  BY <1>1, ForTyped
<1> HIDE DEF f
<1>6. q \in Request /\ q.op = "suspend" /\ q.pc = "revokeAll" /\ q.user = u /\ ~q.blocked
  BY <1>5 DEF Request
<1> HIDE DEF q
<1>7. /\ reqs'[r] = q /\ \A s \in Requests \ {r} : reqs'[s] = reqs[s]
      /\ reqs[r].pc = "idle"
  BY <1>2, <1>6, Begins
<1>8. u \in Suspending'
  BY <1>6, <1>7 DEF Suspending
<1>9. Frame /\ \A i \in DOMAIN users : users[i].suspended => users'[i].suspended
  <2>1. Ending \subseteq Ending' /\ Resetting \subseteq Resetting' /\ Suspending \subseteq Suspending'
    BY <1>4, <1>7, RevokersStay
  <2> QED
    BY <1>2, <1>3, <1>4, <1>8, <2>1 DEF Frame
<1>10. RequestSound(r)'
  BY <1>6, <1>7 DEF RequestSound, Minting
<1> QED
  BY <1>2, <1>4, <1>7, <1>9, <1>10, SessionsStep

\* The admin service's revocation keeps sessions sound.
LEMMA RevokeSessionsSound ==
  ASSUME Typed, Typed', Sessions, NEW r \in Requests, NEW u \in DOMAIN users,
         RevokeSessions(r, u)
  PROVE  Sessions'
<1> DEFINE q == For("revoke", u, "revokeAll")
<1>1. u \in Nat /\ "revoke" \in Ops /\ "revokeAll" \in Pcs
  BY DEF Typed, Ops, Pcs
<1>2. /\ q \in Request /\ q.op = "revoke" /\ q.pc = "revokeAll" /\ q.user = u
      /\ (q.blocked <=> (u \in DOMAIN users /\ users[u].suspended))
  BY <1>1, ForTyped
<1>3. Begin(r, q) /\ UNCHANGED <<users, identities, tokens, tickets, condemned>>
  BY DEF RevokeSessions
<1> HIDE DEF q
<1>4. /\ reqs'[r] = q /\ \A s \in Requests \ {r} : reqs'[s] = reqs[s]
      /\ reqs[r].pc = "idle"
  BY <1>2, <1>3, Begins
<1>5. UsersGrow /\ TokensGrow
  BY <1>3, NothingGrows
<1>6. Frame /\ \A i \in DOMAIN users : users[i].suspended => users'[i].suspended
  BY <1>3, <1>4, <1>5, QuietFrame
<1>7. RequestSound(r)'
  BY <1>2, <1>3, <1>4 DEF RequestSound, Minting
<1> QED
  BY <1>3, <1>4, <1>5, <1>6, <1>7, SessionsStep

\* A token is presented: what the request carries is what the token is judged
\* by, and a request that is to end the family does so.
LEMMA PresentedSound ==
  ASSUME Typed, Typed', Sessions, NEW r \in Requests, NEW t \in DOMAIN tokens,
         NEW op \in Presenting, NEW pc \in {"killFamily", "revokeToken", "findUser"},
         Begin(r, Presented(op, t, pc)), TokensGrow, DOMAIN tokens' = DOMAIN tokens,
         UNCHANGED <<users, identities>>,
         op = "refresh" => Live(t) /\ pc = "findUser",
         \/ UNCHANGED condemned
         \/ pc = "killFamily" /\ condemned' = condemned \cup {tokens[t].family}
  PROVE  Sessions'
<1> DEFINE q == Presented(op, t, pc)
<1>1. /\ q \in Request /\ q.op = op /\ q.pc = pc /\ q.tok = t /\ q.user = tokens[t].user
      /\ q.pw = tokens[t].pw /\ q.sub = tokens[t].sub /\ q.late = tokens[t].exempt
      /\ q.blocked <=> (q.user \in DOMAIN users /\ users[q.user].suspended)
  <2>1. pc \in Pcs
    BY DEF Pcs
  <2> QED
    BY <2>1, PresentedTyped
<1> HIDE DEF q
<1>2. /\ reqs'[r] = q /\ \A s \in Requests \ {r} : reqs'[s] = reqs[s]
      /\ reqs[r].pc = "idle"
  <2>1. Begin(r, q)
    BY DEF q
  <2> QED
    BY <1>1, <2>1, Begins
<1>3. UsersGrow
  BY NothingGrows
<1>4. tokens'[t].family = tokens[t].family
  BY DEF TokensGrow
<1>5. condemned' \subseteq condemned \cup Ending'
  <2>1. pc = "killFamily" => tokens[t].family \in Ending'
    BY <1>1, <1>2, <1>4 DEF Ending
  <2> QED
    BY <2>1
<1>6. Frame /\ \A u \in DOMAIN users : users[u].suspended => users'[u].suspended
  <2>1. Ending \subseteq Ending' /\ Resetting \subseteq Resetting' /\ Suspending \subseteq Suspending'
    BY <1>2, RevokersStay
  <2> QED
    BY <1>5, <2>1 DEF Frame
<1>7. RequestSound(r)'
  <2>1. reqs'[r].blocked => reqs'[r].user \in DOMAIN users' /\ users'[reqs'[r].user].suspended
    BY <1>1, <1>2
  <2>2. ~Cleared(r)'
    BY <1>1, <1>2 DEF Cleared
  <2>3. ASSUME op = "refresh"
        PROVE  Session(reqs[r].user, Family(r), reqs[r].pw, Subject(r), reqs[r].late,
                       reqs[r].blocked)'
    <3>1. PICK u \in 0..Len(users), F \in Nat, pw \in Nat, sub \in Subjects \cup {None},
               ex \in BOOLEAN, bl \in BOOLEAN :
            u = tokens[t].user /\ F = tokens[t].family /\ pw = tokens[t].pw
            /\ sub = tokens[t].sub /\ ex = tokens[t].exempt /\ ~bl
      <4>1. PICK bl \in BOOLEAN : ~bl
        OBVIOUS
      <4>2. tokens[t].family \in Nat
        BY SessionTypes DEF Typed
      <4> QED
        BY <4>1, <4>2, SessionTypes
    <3>2. Session(u, F, pw, sub, ex, bl)
      BY <2>3, <3>1 DEF Sessions, TokenSound, Session
    <3>3. Session(u, F, pw, sub, ex, bl)'
      BY <1>3, <1>6, <3>2, FrameKeeps
    <3>4. /\ reqs'[r].user = u /\ reqs'[r].pw = pw /\ reqs'[r].late = ex
          /\ Family(r)' = F /\ Subject(r)' = sub
      BY <1>1, <1>2, <1>4, <2>3, <3>1 DEF Family, Subject
    <3> QED
      BY <3>1, <3>3, <3>4 DEF Session
  <2>4. reqs'[r].op \in Minting => op = "refresh"
    BY <1>1, <1>2 DEF Minting, Presenting
  <2> QED
    BY <2>1, <2>2, <2>3, <2>4 DEF RequestSound, Cleared
<1>8. \A i \in DOMAIN tokens' \ DOMAIN tokens : TokenSound(i)'
  OBVIOUS
<1> QED
  BY <1>2, <1>3, <1>6, <1>7, <1>8, SessionsStep

\* The first read of a rotation or log-out keeps sessions sound.
LEMMA RefreshSound ==
  ASSUME Typed, Typed', Sessions, NEW r \in Requests, NEW t \in DOMAIN tokens,
         Refresh(r, t) \/ Logout(r, t)
  PROVE  Sessions'
<1>1. TokensGrow /\ UNCHANGED <<users, identities>> /\ DOMAIN tokens' = DOMAIN tokens
  <2>1. TokensGrow
    BY RefreshTyped
  <2>2. DOMAIN tokens' = DOMAIN tokens
    BY DEF Refresh, Logout
  <2> QED
    BY <2>1, <2>2 DEF Refresh, Logout
<1>2. CASE /\ Begin(r, Presented("reuse", t, "killFamily"))
           /\ condemned' = condemned \cup {tokens[t].family}
  BY <1>1, <1>2, PresentedSound DEF Presenting
<1>3. CASE Begin(r, Presented("expiry", t, "revokeToken")) /\ UNCHANGED condemned
  BY <1>1, <1>3, PresentedSound DEF Presenting
<1>4. CASE /\ Begin(r, Presented("refresh", t, "findUser")) /\ UNCHANGED condemned
           /\ Live(t)
  BY <1>1, <1>4, PresentedSound DEF Presenting
<1>5. CASE /\ Begin(r, Presented("logout", t, "killFamily"))
           /\ condemned' = condemned \cup {tokens[t].family}
  BY <1>1, <1>5, PresentedSound DEF Presenting
<1> QED
  BY <1>2, <1>3, <1>4, <1>5 DEF Refresh, Logout

\* A request that goes on or ends, and changes no account.
LEMMA QuietSound ==
  ASSUME Typed, Typed', Sessions, NEW r \in Requests,
         reqs[r].pc \notin {"killFamily", "revokeAll"},
         UNCHANGED <<users, identities, condemned>>, TokensGrow, DOMAIN tokens' = DOMAIN tokens,
         \/ End(r)
         \/ \E pc \in Pcs : /\ Then(r, pc)
                            /\ reqs[r].pc \notin {"createUser", "identity", "refused"}
                               \/ pc = "refused"
                            /\ Cleared(r)' => ~reqs[r].blocked
  PROVE  Sessions'
<1>1. UsersGrow
  BY NothingGrows
<1>2. \A s \in Requests \ {r} : reqs'[s] = reqs[s]
  BY EndsIdle, GoesOn
<1>3. Frame /\ \A u \in DOMAIN users : users[u].suspended => users'[u].suspended
  BY <1>2, QuietFrame
<1>4. RequestSound(r)'
  <2>1. CASE End(r)
    BY <2>1, EndsIdle, IdleSound
  <2>2. CASE \E pc \in Pcs : /\ Then(r, pc)
                             /\ reqs[r].pc \notin {"createUser", "identity", "refused"}
                                \/ pc = "refused"
                             /\ Cleared(r)' => ~reqs[r].blocked
    BY <1>1, <1>3, <2>2, GoesOnSound
  <2> QED
    BY <2>1, <2>2
<1> QED
  BY <1>1, <1>2, <1>3, <1>4, SessionsStep

\* findUserById keeps sessions sound.
LEMMA FindUserSound ==
  ASSUME Typed, Typed', Sessions, NEW r \in Requests, FindUser(r)
  PROVE  Sessions'
<1>1. reqs[r].pc = "findUser" /\ UNCHANGED <<users, identities, tokens, tickets, condemned>>
  BY DEF FindUser
<1>2. TokensGrow
  BY <1>1, NothingGrows
<1>3. CASE Active(reqs[r].user)
  <2>1. PICK pc \in {"revokeToken", "setVerified", "issue"} : Then(r, pc)
    BY <1>3 DEF FindUser
  <2>2. ~reqs[r].blocked
    BY <1>3 DEF Active, Sessions, RequestSound
  <2>3. pc \in Pcs
    BY DEF Pcs
  <2> QED
    BY <1>1, <1>2, <2>1, <2>2, <2>3, QuietSound
<1>4. CASE ~Active(reqs[r].user) /\ reqs[r].op = "refresh"
  <2>1. Then(r, "killFamily") /\ "killFamily" \in Pcs
    BY <1>4 DEF FindUser, Pcs
  <2>2. ~Cleared(r)'
    BY <2>1, GoesOn DEF Cleared
  <2> QED
    BY <1>1, <1>2, <2>1, <2>2, QuietSound
<1>5. CASE ~Active(reqs[r].user) /\ reqs[r].op # "refresh"
  BY <1>1, <1>2, <1>5, QuietSound DEF FindUser
<1> QED
  BY <1>3, <1>4, <1>5

\* The revocation of the old token keeps sessions sound.
LEMMA RevokeTokenSound ==
  ASSUME Typed, Typed', Sessions, NEW r \in Requests, RevokeToken(r)
  PROVE  Sessions'
<1>1. reqs[r].pc = "revokeToken" /\ UNCHANGED <<users, identities, condemned>>
      /\ DOMAIN tokens' = DOMAIN tokens
  BY DEF RevokeToken
<1>2. TokensGrow
  BY RevokeTokenTyped
<1>3. CASE reqs[r].op = "refresh"
  <2>1. Then(r, "issue") /\ "issue" \in Pcs
    BY <1>3 DEF RevokeToken, Pcs
  <2>2. ~reqs[r].blocked
    BY <1>1, <1>3 DEF Sessions, RequestSound
  <2> QED
    BY <1>1, <1>2, <2>1, <2>2, QuietSound
<1>4. CASE reqs[r].op # "refresh"
  BY <1>1, <1>2, <1>4, QuietSound DEF RevokeToken
<1> QED
  BY <1>3, <1>4

\* The end of a revocation leaves the others in progress.
LEMMA RevokersBut ==
  ASSUME Typed, TokensGrow, NEW r \in Requests, EndMarking(r)
  PROVE  /\ \A F \in Ending : \/ F \in Ending'
                              \/ reqs[r].pc = "killFamily" /\ F = tokens[reqs[r].tok].family
         /\ \A u \in Resetting : \/ u \in Resetting'
                                 \/ reqs[r].pc = "revokeAll" /\ u = reqs[r].user
         /\ \A u \in Suspending : \/ u \in Suspending'
                                  \/ reqs[r].pc = "revokeAll" /\ u = reqs[r].user
<1>1. \A s \in Requests \ {r} : /\ reqs'[s].pc = reqs[s].pc /\ reqs'[s].op = reqs[s].op
                                /\ reqs'[s].user = reqs[s].user /\ reqs'[s].tok = reqs[s].tok
  BY Marks DEF Alike
<1>2. ASSUME NEW s \in Requests \ {r}, reqs[s].pc = "killFamily"
      PROVE  tokens[reqs[s].tok].family \in Ending'
  <2>1. reqs[s].tok \in DOMAIN tokens
    BY <1>2 DEF Typed, Formed, Presenting
  <2>2. tokens'[reqs[s].tok].family = tokens[reqs[s].tok].family
    BY <2>1 DEF TokensGrow
  <2> QED
    BY <1>1, <1>2, <2>2 DEF Ending
<1>3. ASSUME NEW F \in Ending
      PROVE  \/ F \in Ending'
             \/ reqs[r].pc = "killFamily" /\ F = tokens[reqs[r].tok].family
  <2>1. PICK s \in Requests : reqs[s].pc = "killFamily" /\ F = tokens[reqs[s].tok].family
    BY DEF Ending
  <2> QED
    BY <1>2, <2>1
<1>4. ASSUME NEW u \in Resetting
      PROVE  u \in Resetting' \/ (reqs[r].pc = "revokeAll" /\ u = reqs[r].user)
  BY <1>1 DEF Resetting
<1>5. ASSUME NEW u \in Suspending
      PROVE  u \in Suspending' \/ (reqs[r].pc = "revokeAll" /\ u = reqs[r].user)
  BY <1>1 DEF Suspending
<1> QED
  BY <1>3, <1>4, <1>5

\* Sessions that the revocation does not cover stay as they should be.
LEMMA OutsideStays ==
  ASSUME Typed, TokensGrow, NEW r \in Requests, EndMarking(r),
         UNCHANGED <<users, identities, condemned>>,
         NEW u, NEW F, NEW pw, NEW sub, NEW ex \in BOOLEAN, NEW bl \in BOOLEAN,
         Session(u, F, pw, sub, ex, bl),
         \/ ex
         \/ /\ reqs[r].pc = "killFamily" => F # tokens[reqs[r].tok].family
            /\ reqs[r].pc = "revokeAll" => u # reqs[r].user
  PROVE  Session(u, F, pw, sub, ex, bl)'
<1>1. Here' = Here
  BY DEF Here
<1>2. F \in condemned' => ex \/ F \in Ending'
  BY RevokersBut DEF Session
<1>3. (pw # 0 /\ u \in DOMAIN users' /\ pw < users'[u].pw) => ex \/ u \in Resetting'
  BY RevokersBut DEF Session
<1>4. (u \in DOMAIN users' /\ users'[u].suspended) => ex \/ bl \/ u \in Suspending'
  BY RevokersBut DEF Session
<1>5. (sub # None /\ u \in Here') => identities'[sub] = u
  BY <1>1 DEF Session
<1> QED
  BY <1>2, <1>3, <1>4, <1>5 DEF Session

\* A revocation that ends, done or failed, keeps sessions sound when what it
\* leaves alive is excused.
LEMMA EndMarkingSound ==
  ASSUME Typed, Typed', Sessions, NEW r \in Requests, EndMarking(r), TokensGrow,
         DOMAIN tokens' = DOMAIN tokens, UNCHANGED <<users, identities, condemned>>,
         \A t \in Scope(r) : Live(t)' => tokens'[t].exempt
  PROVE  Sessions'
<1>1. /\ reqs'[r] = Idle
      /\ \A s \in Requests \ {r} :
           /\ Alike(reqs'[s], reqs[s]) /\ reqs'[s].blocked = reqs[s].blocked
           /\ reqs'[s].late = (reqs[s].late \/ s \in Overlapping(r))
  BY Marks
<1>2. ASSUME NEW t \in DOMAIN tokens, Live(t)'
      PROVE  Session(tokens[t].user, tokens[t].family, tokens[t].pw, tokens[t].sub,
                     tokens[t].exempt, FALSE)'
  <2>1. PICK u \in 0..Len(users), F \in Nat, pw \in Nat, sub \in Subjects \cup {None},
             ex \in BOOLEAN, bl \in BOOLEAN :
          /\ u = tokens[t].user /\ F = tokens[t].family /\ pw = tokens[t].pw
          /\ sub = tokens[t].sub /\ (ex <=> tokens[t].exempt \/ t \in Scope(r)) /\ ~bl
    <3>1. PICK bl \in BOOLEAN : ~bl
      OBVIOUS
    <3>2. PICK ex \in BOOLEAN : ex <=> tokens[t].exempt \/ t \in Scope(r)
      OBVIOUS
    <3>3. tokens[t].family \in Nat
      BY SessionTypes DEF Typed
    <3> QED
      BY <3>1, <3>2, <3>3, SessionTypes
  <2>2. /\ tokens'[t].user = u /\ tokens'[t].family = F /\ tokens'[t].pw = pw
        /\ tokens'[t].sub = sub /\ (tokens[t].exempt => tokens'[t].exempt)
        /\ tokens'[t].here => tokens[t].here
        /\ tokens[t].revoked => tokens'[t].revoked
    BY <2>1 DEF TokensGrow
  <2>3. Live(t)
    BY <1>2, <2>2 DEF Live
  <2>4. Session(u, F, pw, sub, ex, bl)
    BY <2>1, <2>3 DEF Sessions, TokenSound, Session
  <2>5. ex => tokens'[t].exempt
    BY <1>2, <2>1, <2>2
  <2>6. ~ex => /\ reqs[r].pc = "killFamily" => F # tokens[reqs[r].tok].family
               /\ reqs[r].pc = "revokeAll" => u # reqs[r].user
    BY <2>1 DEF Scope
  <2>7. Session(u, F, pw, sub, ex, bl)'
    BY <2>4, <2>6, OutsideStays
  <2> QED
    BY <2>1, <2>2, <2>5, <2>7 DEF Session
<1>3. ASSUME NEW s \in Requests \ {r}
      PROVE  RequestSound(s)'
  <2>1. /\ reqs'[s].user = reqs[s].user /\ reqs'[s].pw = reqs[s].pw /\ reqs'[s].op = reqs[s].op
        /\ reqs'[s].pc = reqs[s].pc /\ reqs'[s].tok = reqs[s].tok /\ reqs'[s].sub = reqs[s].sub
        /\ reqs'[s].blocked = reqs[s].blocked
        /\ reqs'[s].late = (reqs[s].late \/ s \in Overlapping(r))
    BY <1>1 DEF Alike
  <2>2. RequestSound(s)
    BY DEF Sessions
  <2>3. /\ reqs'[s].blocked => reqs'[s].user \in DOMAIN users' /\ users'[reqs'[s].user].suspended
        /\ Cleared(s)' => ~reqs'[s].blocked
    BY <2>1, <2>2 DEF RequestSound, Cleared
  <2>4. ASSUME reqs[s].op \in Minting
        PROVE  Session(reqs[s].user, Family(s), reqs[s].pw, Subject(s), reqs[s].late,
                       reqs[s].blocked)'
    <3>1. reqs[s].op = "refresh" => /\ reqs[s].tok \in DOMAIN tokens
                                    /\ tokens[reqs[s].tok].family \in Nat
                                    /\ tokens[reqs[s].tok].user = reqs[s].user
                                    /\ tokens'[reqs[s].tok].family = tokens[reqs[s].tok].family
      <4> SUFFICES ASSUME reqs[s].op = "refresh"
                   PROVE  /\ reqs[s].tok \in DOMAIN tokens
                          /\ tokens[reqs[s].tok].family \in Nat
                          /\ tokens[reqs[s].tok].user = reqs[s].user
                          /\ tokens'[reqs[s].tok].family = tokens[reqs[s].tok].family
        OBVIOUS
      <4>1. reqs[s].tok \in DOMAIN tokens /\ tokens[reqs[s].tok].user = reqs[s].user
        BY DEF Typed, Formed, Presenting
      <4>2. tokens[reqs[s].tok].family \in Nat
        BY <4>1, SessionTypes DEF Typed
      <4> QED
        BY <4>1, <4>2 DEF TokensGrow
    <3>2. PICK u \in 0..Len(users), F \in Nat, pw \in Nat, sub \in Subjects \cup {None},
               ex \in BOOLEAN, bl \in BOOLEAN :
            /\ u = reqs[s].user /\ F = Family(s) /\ pw = reqs[s].pw /\ sub = Subject(s)
            /\ (ex <=> reqs[s].late \/ s \in Overlapping(r)) /\ bl = reqs[s].blocked
      <4>1. PICK ex \in BOOLEAN : ex <=> reqs[s].late \/ s \in Overlapping(r)
        OBVIOUS
      <4>2. Family(s) \in Nat
        BY <3>1 DEF Family
      <4> QED
        BY <4>1, <4>2, SessionTypes
    <3>3. Session(u, F, pw, sub, ex, bl)
      BY <2>2, <2>4, <3>2 DEF RequestSound, Session
    <3>4. ~ex => /\ reqs[r].pc = "killFamily" => F # tokens[reqs[r].tok].family
                 /\ reqs[r].pc = "revokeAll" => u # reqs[r].user
      <4>1. CASE reqs[s].op = "refresh"
        <5>1. ~ex => reqs[s].tok \notin Scope(r)
          BY <3>2, <4>1 DEF Overlapping
        <5> QED
          BY <3>1, <3>2, <4>1, <5>1 DEF Scope, Family
      <4>2. CASE reqs[s].op # "refresh"
        <5>1. F = 0
          BY <3>2, <4>2 DEF Family
        <5>2. reqs[r].pc = "killFamily" => tokens[reqs[r].tok].family # 0
          <6>1. reqs[r].pc = "killFamily" => reqs[r].tok \in DOMAIN tokens
            BY DEF Typed, Formed, Presenting
          <6> QED
            BY <6>1, SessionTypes
        <5>3. ~ex => ~(reqs[r].pc = "revokeAll" /\ reqs[s].user = reqs[r].user)
          BY <2>4, <3>2, <4>2 DEF Overlapping, Minting
        <5> QED
          BY <3>2, <5>1, <5>2, <5>3
      <4> QED
        BY <4>1, <4>2
    <3>5. Session(u, F, pw, sub, ex, bl)'
      BY <3>3, <3>4, OutsideStays
    <3>6. Family(s)' = F /\ Subject(s)' = sub
      BY <2>1, <3>1, <3>2 DEF Family, Subject
    <3> QED
      BY <2>1, <3>2, <3>5, <3>6 DEF Session
  <2> QED
    BY <2>1, <2>3, <2>4 DEF RequestSound, Cleared
<1> QED
  BY <1>1, <1>2, <1>3, IdleSound DEF Sessions, TokenSound

\* The UPDATE that revokes a family or an account keeps sessions sound.
LEMMA RevokeSound ==
  ASSUME Typed, Typed', Sessions, NEW r \in Requests, Revoke(r)
  PROVE  Sessions'
<1>1. TokensGrow /\ EndMarking(r) /\ UNCHANGED <<users, identities, condemned>>
      /\ DOMAIN tokens' = DOMAIN tokens
  BY RevokeTyped DEF Revoke
<1>2. ASSUME NEW t \in Scope(r)
      PROVE  ~Live(t)'
  <2>1. t \in DOMAIN tokens
    BY DEF Scope
  <2>2. tokens'[t] = [tokens[t] EXCEPT !.revoked = @ \/ t \in Scope(r)]
    BY <2>1 DEF Revoke
  <2>3. tokens[t] \in Token
    BY <2>1 DEF Typed
  <2>4. tokens'[t].revoked
    BY <2>2, <2>3 DEF Token
  <2> QED
    BY <2>4 DEF Live
<1> QED
  BY <1>1, <1>2, EndMarkingSound

\* A statement that throws keeps sessions sound.
LEMMA FailSound ==
  ASSUME Typed, Typed', Sessions, NEW r \in Requests, Fail(r)
  PROVE  Sessions'
<1>1. TokensGrow /\ EndMarking(r) /\ UNCHANGED <<users, identities, condemned>>
      /\ DOMAIN tokens' = DOMAIN tokens
  BY FailTyped DEF Fail
<1>2. ASSUME NEW t \in Scope(r), Live(t)'
      PROVE  tokens'[t].exempt
  <2>1. t \in DOMAIN tokens
    BY DEF Scope
  <2>2. tokens'[t] = [tokens[t] EXCEPT !.exempt = @ \/ (t \in Scope(r) /\ Live(t))]
    BY <2>1 DEF Fail
  <2>3. tokens[t] \in Token /\ Live(t)
    <3>1. /\ tokens[t] \in Token
          /\ tokens'[t].here => tokens[t].here
          /\ tokens[t].revoked => tokens'[t].revoked
      BY <1>1, <2>1 DEF Typed, TokensGrow
    <3> QED
      BY <1>2, <3>1 DEF Live
  <2> QED
    BY <2>2, <2>3 DEF Token
<1> QED
  BY <1>1, <1>2, EndMarkingSound

\* issueTokens keeps sessions sound: the new token inherits the request's excuse.
LEMMA IssueSound ==
  ASSUME Typed, Typed', Sessions, NEW r \in Requests, Issue(r)
  PROVE  Sessions'
<1> DEFINE n == Len(tokens) + 1
           new == [here |-> TRUE, user |-> reqs[r].user, revoked |-> FALSE, expired |-> FALSE,
                   family |-> IF reqs[r].op = "refresh" THEN tokens[reqs[r].tok].family ELSE n,
                   parent |-> reqs[r].tok, pw |-> reqs[r].pw, sub |-> reqs[r].sub,
                   exempt |-> reqs[r].late, raced |-> FALSE]
<1>1. /\ reqs[r].pc = "issue" /\ End(r) /\ UNCHANGED <<users, identities, condemned>>
      /\ tokens' = IF reqs[r].user \notin Here THEN tokens ELSE Append(tokens, new)
  BY DEF Issue
<1>2. TokensGrow /\ UsersGrow
  BY <1>1, IssueTyped, NothingGrows
<1>3. reqs'[r] = Idle /\ \A s \in Requests \ {r} : reqs'[s] = reqs[s]
  BY <1>1, EndsIdle
<1>4. Frame /\ \A u \in DOMAIN users : users[u].suspended => users'[u].suspended
  BY <1>1, <1>2, <1>3, QuietFrame
<1>5. RequestSound(r)'
  BY <1>3, IdleSound
<1>6. CASE reqs[r].user \notin Here
  <2>1. \A t \in DOMAIN tokens' \ DOMAIN tokens : TokenSound(t)'
    BY <1>1, <1>6
  <2> QED
    BY <1>2, <1>3, <1>4, <1>5, <2>1, SessionsStep
<1>7. CASE reqs[r].user \in Here
  <2>1. /\ new.user = reqs[r].user /\ new.pw = reqs[r].pw /\ new.sub = reqs[r].sub
        /\ new.exempt = reqs[r].late
        /\ new.family = (IF reqs[r].op = "refresh" THEN tokens[reqs[r].tok].family ELSE n)
    OBVIOUS
  <2>2. tokens' = Append(tokens, new) /\ tokens \in Seq(Token)
    BY <1>1, <1>7 DEF Typed
  <2> HIDE DEF new
  <2>3. DOMAIN tokens' = DOMAIN tokens \cup {n} /\ tokens'[n] = new /\ n \notin DOMAIN tokens
        /\ n \in Nat
    BY <2>2
  <2>4. reqs[r].op \in Minting /\ ~reqs[r].blocked /\ RequestSound(r)
        /\ (reqs[r].op = "refresh" => reqs[r].tok \in DOMAIN tokens)
    BY <1>1 DEF Sessions, RequestSound, Typed, Formed, Presenting
  <2>5. PICK u \in 0..Len(users), F \in Nat, pw \in Nat, sub \in Subjects \cup {None},
             ex \in BOOLEAN, bl \in BOOLEAN :
          /\ u = reqs[r].user /\ F = new.family /\ pw = reqs[r].pw /\ sub = reqs[r].sub
          /\ ex = reqs[r].late /\ ~bl
    <3>1. PICK bl \in BOOLEAN : ~bl
      OBVIOUS
    <3>2. new.family \in Nat
      <4>1. CASE reqs[r].op = "refresh"
        <5>1. tokens[reqs[r].tok].family \in 1..reqs[r].tok
          BY <2>4, <4>1, SessionTypes
        <5> QED
          BY <2>1, <4>1, <5>1
      <4> QED
        BY <2>1, <2>3, <4>1
    <3> QED
      BY <3>1, <3>2, SessionTypes
  <2>6. Session(u, F, pw, sub, ex, bl)
    <3>1. Session(u, Family(r), pw, sub, ex, bl)
      BY <1>1, <2>4, <2>5 DEF RequestSound, Session, Subject
    <3>2. n \notin condemned
      BY <2>3 DEF Typed, TypeOK
    <3> QED
      BY <2>1, <2>5, <3>1, <3>2 DEF Session, Family
  <2>7. Session(u, F, pw, sub, ex, bl)'
    BY <1>2, <1>4, <2>6, FrameKeeps
  <2>8. \A t \in DOMAIN tokens' \ DOMAIN tokens : TokenSound(t)'
    <3>1. /\ tokens'[n].user = u /\ tokens'[n].family = F /\ tokens'[n].pw = pw
          /\ tokens'[n].sub = sub /\ tokens'[n].exempt = ex
      BY <2>1, <2>3, <2>5
    <3>2. PICK m \in DOMAIN tokens' : m = n
      BY <2>3
    <3>3. TokenSound(m)'
      BY <2>5, <2>7, <3>1, <3>2 DEF TokenSound, Session
    <3> HIDE DEF n
    <3>4. \A t \in DOMAIN tokens' \ DOMAIN tokens : t = m
      BY <2>3, <3>2
    <3> QED
      BY <3>3, <3>4
  <2> QED
    BY <1>2, <1>3, <1>4, <1>5, <2>8, SessionsStep
<1> QED
  BY <1>6, <1>7

\* Presenting a one-time token or code keeps sessions sound.
LEMMA RedeemSound ==
  ASSUME Typed, Typed', Sessions, NEW r \in Requests, NEW k \in DOMAIN tickets,
         Present(r, k) \/ OtpVerify(r, k)
  PROVE  Sessions'
<1>1. PICK pc \in {"mark", "attempt"} : Redeem(r, k, pc)
  BY DEF Present, OtpVerify
<1>2. tickets[k].here /\ tickets[k] \in Ticket
  BY DEF Present, OtpVerify, Redeemable, Typed
<1>3. /\ tickets[k].user \in DOMAIN users /\ tickets[k].kind \in Redeeming /\ k \in Nat
      /\ tickets[k].user \in Nat
  <2>1. tickets[k].user \in Here
    BY <1>2 DEF Typed, TypeOK
  <2>2. tickets[k].kind \in Redeeming /\ tickets[k].user \in Nat
    BY <1>2 DEF Ticket
  <2> QED
    BY <2>1, <2>2 DEF Typed, Here
<1> DEFINE f == For(tickets[k].kind, tickets[k].user, pc)
           q == [f EXCEPT !.ticket = k]
<1>4. Begin(r, q) /\ UNCHANGED <<users, identities, tokens, condemned>>
  BY <1>1 DEF Redeem
<1>5. /\ f \in Request /\ f.op = tickets[k].kind /\ f.user = tickets[k].user /\ f.pc = pc
      /\ f.sub = None /\ f.pw = 0
      /\ f.blocked <=> (tickets[k].user \in DOMAIN users /\ users[tickets[k].user].suspended)
  <2>1. pc \in Pcs /\ tickets[k].kind \in Ops
    BY <1>3 DEF Pcs, Ops
  <2> QED
    BY <1>3, <2>1, ForTyped
<1> HIDE DEF f
<1>6. /\ q \in Request /\ q.op = tickets[k].kind /\ q.user = tickets[k].user /\ q.pc = pc
      /\ q.sub = None /\ q.pw = 0 /\ q.blocked = f.blocked
  BY <1>3, <1>5 DEF Request
<1> HIDE DEF q
<1>7. /\ reqs'[r] = q /\ \A s \in Requests \ {r} : reqs'[s] = reqs[s]
      /\ reqs[r].pc = "idle"
  BY <1>4, <1>6, Begins
<1>8. UsersGrow /\ TokensGrow
  BY <1>4, NothingGrows
<1>9. Frame /\ \A u \in DOMAIN users : users[u].suspended => users'[u].suspended
  BY <1>4, <1>7, <1>8, QuietFrame
<1>10. RequestSound(r)'
  <2>1. PICK u \in DOMAIN users' : u = tickets[k].user
    BY <1>3, <1>4
  <2>2. /\ reqs'[r].user = u /\ reqs'[r].op # "refresh" /\ reqs'[r].sub = None
        /\ reqs'[r].pw = 0
        /\ reqs'[r].blocked <=> users'[u].suspended
        /\ ~Cleared(r)'
    BY <1>3, <1>4, <1>5, <1>6, <1>7, <2>1 DEF Redeeming, Cleared
  <2> QED
    BY <2>2, BegunSound
<1> QED
  BY <1>4, <1>7, <1>8, <1>9, <1>10, SessionsStep

\* Marking, counting or refusing a one-time token keeps sessions sound.
LEMMA MarkSound ==
  ASSUME Typed, Typed', Sessions, NEW r \in Requests, Mark(r) \/ Attempt(r) \/ Refused(r)
  PROVE  Sessions'
<1>1. UNCHANGED <<users, identities, tokens, condemned>>
  BY DEF Mark, Attempt, Refused
<1>2. TokensGrow
  BY <1>1, NothingGrows
<1>3. reqs[r].pc \in {"mark", "attempt", "refused"}
  BY DEF Mark, Attempt, Refused
<1>4. CASE End(r)
  BY <1>1, <1>2, <1>3, <1>4, QuietSound
<1>5. CASE Mark(r)
  <2>1. reqs[r].pc = "mark" /\ reqs[r].op \in Redeeming
        /\ tickets[reqs[r].ticket].kind = reqs[r].op
    BY <1>5 DEF Mark, Typed, Formed
  <2>2. PICK pc \in Pcs :
          /\ Then(r, pc) /\ pc \in {"password", "setVerified", "findUser"}
          /\ pc = "setVerified" => reqs[r].op = "verify"
    BY <1>5, <2>1 DEF Mark, Pcs, Redeeming
  <2>3. reqs'[r].pc = pc /\ reqs'[r].op = reqs[r].op
    BY <2>2, GoesOn
  <2>4. ~Cleared(r)'
    BY <2>2, <2>3 DEF Cleared
  <2> QED
    BY <1>1, <1>2, <1>3, <2>1, <2>2, <2>4, QuietSound
<1> QED
  BY <1>4, <1>5 DEF Mark, Attempt, Refused

\* setEmailVerified and its kin keep sessions sound.
LEMMA SetVerifiedSound ==
  ASSUME Typed, Typed', Sessions, NEW r \in Requests, SetVerified(r)
  PROVE  Sessions'
<1>1. PICK u \in DOMAIN users : u = reqs[r].user
  BY DEF SetVerified, Typed, Formed, Redeeming
<1> DEFINE new == [users[u] EXCEPT !.verified = TRUE]
<1>2. /\ users' = [users EXCEPT ![u] = new] /\ UNCHANGED <<identities, tokens, tickets, condemned>>
      /\ reqs[r].pc = "setVerified" /\ users[u] \in User
  BY <1>1 DEF SetVerified, Typed
<1>3. /\ new \in User /\ (new.here <=> users[u].here) /\ new.pw = users[u].pw
      /\ new.suspended = users[u].suspended
  BY <1>2 DEF User
<1> HIDE DEF new
<1>4. /\ UsersGrow /\ TokensGrow
      /\ users'[u] = new /\ \A i \in DOMAIN users \ {u} : users'[i] = users[i]
  BY <1>2, <1>3, UserMarked
<1>5. \A i \in DOMAIN users : /\ users'[i].pw = users[i].pw
                              /\ users'[i].suspended = users[i].suspended
  BY <1>3, <1>4
<1>6. \A s \in Requests \ {r} : reqs'[s] = reqs[s]
  BY EndsIdle, GoesOn DEF SetVerified, Pcs
<1>7. Frame /\ \A i \in DOMAIN users : users[i].suspended => users'[i].suspended
  <2>1. Ending \subseteq Ending' /\ Resetting \subseteq Resetting' /\ Suspending \subseteq Suspending'
    BY <1>2, <1>4, <1>6, RevokersStay
  <2> QED
    BY <1>2, <1>5, <2>1 DEF Frame
<1>8. RequestSound(r)'
  <2>1. CASE reqs[r].op = "magic"
    <3>1. Then(r, "issue") /\ "issue" \in Pcs
      BY <2>1 DEF SetVerified, Pcs
    <3>2. ~reqs[r].blocked
      BY <1>2, <2>1 DEF Sessions, RequestSound
    <3> QED
      BY <1>2, <1>4, <1>7, <3>1, <3>2, GoesOnSound
  <2>2. CASE reqs[r].op # "magic"
    BY <2>2, EndsIdle, IdleSound DEF SetVerified
  <2> QED
    BY <2>1, <2>2
<1> QED
  BY <1>2, <1>4, <1>6, <1>7, <1>8, SessionsStep

\* The new password keeps sessions sound: its reset is revoking them.
LEMMA PasswordSound ==
  ASSUME Typed, Typed', Sessions, NEW r \in Requests, Password(r)
  PROVE  Sessions'
<1>1. PICK u \in DOMAIN users : u = reqs[r].user
  BY DEF Password, Typed, Formed, Redeeming
<1> DEFINE v == IF users[u].pw < MaxPassword THEN users[u].pw + 1 ELSE users[u].pw
           new == [users[u] EXCEPT !.pw = v]
<1>2. /\ users' = [users EXCEPT ![u] = new] /\ UNCHANGED <<identities, tokens, tickets, condemned>>
      /\ reqs[r].pc = "password" /\ reqs[r].op = "reset" /\ users[u] \in User
  BY <1>1 DEF Password, Typed, Formed
<1>3. v \in Nat
  BY <1>2 DEF User
<1> HIDE DEF v
<1>4. new \in User /\ (new.here <=> users[u].here) /\ new.suspended = users[u].suspended
  BY <1>2, <1>3 DEF User
<1> HIDE DEF new
<1>5. /\ UsersGrow /\ TokensGrow
      /\ users'[u] = new /\ \A i \in DOMAIN users \ {u} : users'[i] = users[i]
  BY <1>2, <1>4, UserMarked
<1>6. Then(r, "revokeAll") /\ "revokeAll" \in Pcs
  BY DEF Password, Pcs
<1>7. /\ \A s \in Requests \ {r} : reqs'[s] = reqs[s]
      /\ reqs'[r].pc = "revokeAll" /\ reqs'[r].op = reqs[r].op /\ reqs'[r].user = reqs[r].user
  BY <1>6, GoesOn
<1>8. u \in Resetting'
  BY <1>1, <1>2, <1>7 DEF Resetting
<1>9. Frame /\ \A i \in DOMAIN users : users[i].suspended => users'[i].suspended
  <2>1. Ending \subseteq Ending' /\ Resetting \subseteq Resetting' /\ Suspending \subseteq Suspending'
    BY <1>2, <1>5, <1>7, RevokersStay
  <2> QED
    BY <1>2, <1>4, <1>5, <1>8, <2>1 DEF Frame
<1>10. RequestSound(r)'
  <2>1. ~Cleared(r)'
    BY <1>7 DEF Cleared
  <2> QED
    BY <1>2, <1>5, <1>6, <1>9, <2>1, GoesOnSound
<1> QED
  BY <1>2, <1>5, <1>7, <1>9, <1>10, SessionsStep

\* The Google callback's first read keeps sessions sound.
LEMMA OAuthSound ==
  ASSUME Typed, Typed', Sessions, NEW r \in Requests, NEW s \in Subjects,
         OAuthGoogleCallback(r, s)
  PROVE  Sessions'
<1>1. PICK u \in 0..Len(users), pc \in {"createUser", "findUser"} :
        /\ Begin(r, [For("google", u, pc) EXCEPT !.sub = s])
        /\ u = identities[s] /\ (pc = "createUser" <=> u = 0)
  <2>1. identities[s] \in 0..Len(users)
    BY DEF Typed, TypeOK
  <2> QED
    BY <2>1 DEF OAuthGoogleCallback
<1>2. UNCHANGED <<users, identities, tokens, tickets, condemned>>
  BY DEF OAuthGoogleCallback
<1> DEFINE q == [For("google", u, pc) EXCEPT !.sub = s]
<1>3. /\ q \in Request /\ q.op = "google" /\ q.pc = pc /\ q.user = u
      /\ q.pw = 0 /\ q.sub = s
      /\ q.blocked <=> (u \in DOMAIN users /\ users[u].suspended)
  <2>1. u \in Nat /\ pc \in Pcs
    BY DEF Typed, Pcs
  <2> QED
    BY <2>1, GoogleRequest
<1> HIDE DEF q
<1>4. /\ reqs'[r] = q /\ \A i \in Requests \ {r} : reqs'[i] = reqs[i]
      /\ reqs[r].pc = "idle"
  <2>1. Begin(r, q)
    BY <1>1 DEF q
  <2> QED
    BY <1>3, <2>1, Begins
<1>5. UsersGrow /\ TokensGrow
  BY <1>2, NothingGrows
<1>6. Frame /\ \A i \in DOMAIN users : users[i].suspended => users'[i].suspended
  BY <1>2, <1>4, <1>5, QuietFrame
<1>7. RequestSound(r)'
  <2>1. Family(r)' = 0 /\ (Subject(r)' = None \/ Subject(r)' = s)
    BY <1>3, <1>4 DEF Family, Subject
  <2>2. 0 \notin condemned' /\ 0 \notin DOMAIN users'
    BY SMTT(20) DEF Typed, TypeOK
  <2>3. pc = "createUser" => ~reqs'[r].blocked
    BY <1>1, <1>2, <1>3, <1>4, <2>2
  <2>4. Session(reqs[r].user, Family(r), reqs[r].pw, Subject(r), reqs[r].late,
                reqs[r].blocked)'
    BY <1>1, <1>2, <1>3, <1>4, <2>1, <2>2 DEF Session
  <2> QED
    BY <1>2, <1>3, <1>4, <2>3, <2>4 DEF RequestSound
<1> QED
  BY <1>2, <1>4, <1>5, <1>6, <1>7, SessionsStep

\* The account of a first Google sign-in keeps sessions sound.
LEMMA CreateUserSound ==
  ASSUME Typed, Typed', Sessions, NEW r \in Requests, CreateOAuthUser(r)
  PROVE  Sessions'
<1>1. /\ reqs[r].pc = "createUser" /\ reqs[r].op = "google"
      /\ reqs[r].sub \in Subjects /\ reqs[r] \in Request
      /\ UNCHANGED <<identities, tokens, tickets, condemned>> /\ Len(users) < MaxUsers
  BY DEF CreateOAuthUser, Typed, Formed
<1>2. PICK email \in EmailsOf[reqs[r].sub], verified \in BOOLEAN :
        LET row == UserRow(None, email, None, 0, verified) IN
        \/ Then(r, "refused") /\ UNCHANGED users
        \/ /\ users' = Append(users, row)
           /\ reqs' = [reqs EXCEPT ![r].user = Len(users) + 1, ![r].pc = "identity"]
  BY DEF CreateOAuthUser
<1> DEFINE row == UserRow(None, email, None, 0, verified)
<1>3. row \in User /\ row.here /\ ~row.suspended
  <2>1. email \in Emails \cup {None}
    BY <1>1
  <2> QED
    BY <2>1, UserNew
<1>4. CASE Then(r, "refused") /\ UNCHANGED users
  <2>1. TokensGrow /\ UsersGrow
    BY <1>1, <1>4, NothingGrows
  <2>2. reqs'[r].pc = "refused" /\ "refused" \in Pcs
    BY <1>4, GoesOn DEF Pcs
  <2>3. ~Cleared(r)'
    BY <2>2 DEF Cleared
  <2> QED
    BY <1>1, <1>4, <2>1, <2>2, <2>3, QuietSound
<1>5. CASE /\ users' = Append(users, row)
           /\ reqs' = [reqs EXCEPT ![r].user = Len(users) + 1, ![r].pc = "identity"]
  <2> DEFINE n == Len(users) + 1
             q == [reqs[r] EXCEPT !.user = n, !.pc = "identity"]
  <2>1. n \in Nat
    BY DEF Typed
  <2>2. reqs' = [reqs EXCEPT ![r] = q]
    <3>1. \A f \in [Requests -> Request] :
            [f EXCEPT ![r].user = n, ![r].pc = "identity"]
              = [f EXCEPT ![r] = [f[r] EXCEPT !.user = n, !.pc = "identity"]]
      BY DEF Request
    <3> QED
      BY <1>5, <3>1 DEF Typed
  <2> HIDE DEF row
  <2>3. /\ q.pc = "identity" /\ q.op = "google" /\ q.user = n /\ q.pw = reqs[r].pw
        /\ q.blocked = reqs[r].blocked
    BY <1>1, <2>1 DEF Request
  <2> HIDE DEF n, q
  <2>4. reqs'[r] = q /\ \A s \in Requests \ {r} : reqs'[s] = reqs[s]
    BY <2>2 DEF Typed
  <2>5. /\ UsersGrow /\ TokensGrow /\ users'[n] = row
        /\ DOMAIN users' = DOMAIN users \cup {n}
        /\ \A u \in DOMAIN users : users'[u] = users[u]
    BY <1>1, <1>3, <1>5, UserInserted DEF n
  <2>6. Frame /\ \A u \in DOMAIN users : users[u].suspended => users'[u].suspended
    BY <1>1, <2>4, <2>5, RevokersStay, InsertedFrame
  <2>7. RequestSound(r)'
    <3>1. ~reqs[r].blocked /\ reqs[r].pw = 0
      BY <1>1 DEF Sessions, RequestSound, Typed, Formed
    <3>2. Family(r)' = 0 /\ Subject(r)' = None
      BY <2>3, <2>4 DEF Family, Subject
    <3>3. 0 \notin condemned'
      BY DEF Typed, TypeOK
    <3>4. Session(reqs[r].user, Family(r), reqs[r].pw, Subject(r), reqs[r].late,
                  reqs[r].blocked)'
      BY <1>3, <2>3, <2>4, <2>5, <3>1, <3>2, <3>3 DEF Session
    <3> QED
      BY <2>3, <2>4, <3>1, <3>4 DEF RequestSound
  <2> QED
    BY <1>1, <2>4, <2>5, <2>6, <2>7, SessionsStep
<1> QED
  BY <1>2, <1>4, <1>5

\* The identity of a first Google sign-in keeps sessions sound.
LEMMA CreateIdentitySound ==
  ASSUME Typed, Typed', Sessions, NEW r \in Requests, CreateOAuthIdentity(r)
  PROVE  Sessions'
<1>1. /\ reqs[r].pc = "identity" /\ reqs[r].op = "google" /\ reqs[r].sub \in Subjects
      /\ UNCHANGED <<users, tokens, tickets, condemned>>
  BY DEF CreateOAuthIdentity, Typed, Formed
<1>2. TokensGrow /\ UsersGrow
  BY <1>1, NothingGrows
<1>3. CASE End(r) /\ UNCHANGED identities
  BY <1>1, <1>2, <1>3, QuietSound
<1>4. CASE /\ identities[reqs[r].sub] = 0
           /\ identities' = [identities EXCEPT ![reqs[r].sub] = reqs[r].user]
           /\ Then(r, "issue")
  <2>1. /\ \A s \in Requests \ {r} : reqs'[s] = reqs[s]
        /\ reqs'[r].pc = "issue" /\ reqs'[r].op = reqs[r].op /\ reqs'[r].user = reqs[r].user
        /\ reqs'[r].pw = reqs[r].pw /\ reqs'[r].sub = reqs[r].sub
        /\ reqs'[r].late = reqs[r].late /\ reqs'[r].blocked = reqs[r].blocked
    BY <1>4, GoesOn DEF Pcs
  <2>2. \A s \in Subjects : identities[s] \in Here' => identities'[s] = identities[s]
    <3>1. 0 \notin Here'
      BY DEF Typed, Here
    <3> QED
      BY <1>4, <3>1 DEF Typed, TypeOK
  <2>3. Frame /\ \A u \in DOMAIN users : users[u].suspended => users'[u].suspended
    BY <1>1, <1>2, <2>1, <2>2, QuietFrame
  <2>4. RequestSound(r)'
    <3>1. PICK u \in 0..Len(users), F \in {0}, pw \in Nat, sub \in Subjects \cup {None},
               ex \in BOOLEAN, bl \in BOOLEAN :
            /\ u = reqs[r].user /\ pw = reqs[r].pw /\ sub = None
            /\ ex = reqs[r].late /\ bl = reqs[r].blocked
      BY SessionTypes
    <3>2. Session(u, F, pw, sub, ex, bl)
      BY <1>1, <3>1 DEF Sessions, RequestSound, Family, Subject, Minting
    <3>3. Session(u, F, pw, sub, ex, bl)'
      BY <1>2, <2>3, <3>2, FrameKeeps
    <3>4. Family(r)' = F /\ identities'[reqs[r].sub] = u /\ Subject(r)' = reqs[r].sub
      BY <1>1, <1>4, <2>1, <3>1 DEF Family, Subject, Typed, TypeOK
    <3>5. Session(reqs[r].user, Family(r), reqs[r].pw, Subject(r), reqs[r].late,
                  reqs[r].blocked)'
      BY <2>1, <3>1, <3>3, <3>4 DEF Session
    <3>6. ~reqs'[r].blocked
      BY <1>1, <2>1 DEF Sessions, RequestSound
    <3> QED
      BY <3>5, <3>6 DEF RequestSound
  <2> QED
    BY <1>1, <1>2, <2>1, <2>3, <2>4, SessionsStep
<1> QED
  BY <1>3, <1>4 DEF CreateOAuthIdentity

\* The end of a suspension keeps sessions sound.
LEMMA UnsuspendSound ==
  ASSUME Typed, Typed', Sessions, NEW u \in DOMAIN users, Unsuspend(u)
  PROVE  Sessions'
<1> DEFINE new == [users[u] EXCEPT !.suspended = FALSE]
<1>1. /\ users' = [users EXCEPT ![u] = new] /\ UNCHANGED <<identities, tokens, tickets, condemned>>
      /\ users[u] \in User /\ users[u].suspended
  BY DEF Unsuspend, Typed
<1>2. new \in User /\ (new.here <=> users[u].here) /\ new.pw = users[u].pw /\ ~new.suspended
  BY <1>1 DEF User
<1> HIDE DEF new
<1>3. /\ UsersGrow /\ TokensGrow
      /\ users'[u] = new /\ \A i \in DOMAIN users \ {u} : users'[i] = users[i]
  BY <1>1, <1>2, UserMarked
<1>4. \A s \in Requests : /\ Alike(reqs'[s], reqs[s]) /\ reqs'[s].late = reqs[s].late
                          /\ reqs'[s].blocked <=> reqs[s].blocked /\ reqs[s].user # u
  BY UnsuspendTyped
<1>5. Frame
  <2>1. Ending = Ending' /\ Resetting = Resetting' /\ Suspending = Suspending'
    BY <1>1, <1>4 DEF Ending, Resetting, Suspending, Alike
  <2> QED
    BY <1>1, <1>2, <1>3, <2>1 DEF Frame
<1>6. ASSUME NEW s \in Requests
      PROVE  RequestSound(s)'
  <2>1. reqs[s].late \in BOOLEAN /\ reqs'[s].late = reqs[s].late
    BY <1>4, SessionTypes
  <2>2. reqs[s].blocked => users[reqs[s].user].suspended
    BY DEF Sessions, RequestSound
  <2>3. reqs[s].user \in DOMAIN users =>
          (reqs[s].blocked /\ users'[reqs[s].user].suspended <=> reqs'[s].blocked)
    BY <1>2, <1>3, <1>4, <2>2
  <2> QED
    BY <1>3, <1>4, <1>5, <2>1, <2>3, AlikeStaysSound
<1>7. \A t \in DOMAIN tokens' : TokenSound(t)'
  BY <1>1, <1>3, <1>5, TokensStaySound
<1> QED
  BY <1>6, <1>7 DEF Sessions

\* The deletion of a user keeps sessions sound.
LEMMA DeleteSound ==
  ASSUME Typed, Typed', Sessions, NEW u \in DOMAIN users, DeleteUser(u)
  PROVE  Sessions'
<1>1. /\ UsersGrow /\ TokensGrow
      /\ Here' = Here \ {u} /\ DOMAIN tokens' = DOMAIN tokens
      /\ \A i \in DOMAIN users : /\ users'[i].pw = users[i].pw
                                 /\ users'[i].suspended <=> users[i].suspended
  BY DeleteTyped
<1>2. UNCHANGED <<reqs, condemned>>
      /\ identities' = [s \in Subjects |-> IF identities[s] = u THEN 0 ELSE identities[s]]
  BY DEF DeleteUser
<1>3. Ending \subseteq Ending' /\ Resetting \subseteq Resetting' /\ Suspending \subseteq Suspending'
  <2>1. ASSUME NEW s \in Requests, reqs[s].pc = "killFamily"
        PROVE  tokens'[reqs[s].tok].family = tokens[reqs[s].tok].family
    BY <1>1, <2>1 DEF Typed, Formed, Presenting, TokensGrow
  <2> QED
    BY <1>2, <2>1 DEF Ending, Resetting, Suspending
<1>4. Frame
  BY <1>1, <1>2, <1>3 DEF Frame
<1> QED
  BY <1>1, <1>2, <1>4, SessionsRows

\* Rows that only grow keep sessions sound.
LEMMA RowsSound ==
  ASSUME Typed, Typed', Sessions, UsersGrow, TokensGrow, DOMAIN tokens' = DOMAIN tokens,
         \A u \in DOMAIN users : users'[u] = users[u],
         UNCHANGED <<reqs, identities, condemned>>
  PROVE  Sessions'
<1>1. Ending \subseteq Ending' /\ Resetting \subseteq Resetting' /\ Suspending \subseteq Suspending'
  <2>1. ASSUME NEW s \in Requests, reqs[s].pc = "killFamily"
        PROVE  tokens'[reqs[s].tok].family = tokens[reqs[s].tok].family
    BY <2>1 DEF Typed, Formed, Presenting, TokensGrow
  <2> QED
    BY <2>1 DEF Ending, Resetting, Suspending
<1>2. Frame
  BY <1>1 DEF Frame
<1> QED
  BY <1>2, SessionsRows

\* Requests for links and codes keep sessions sound.
LEMMA ForgotSound ==
  ASSUME Typed, Typed', Sessions,
         \/ \E u \in DOMAIN users : Forgot(u) \/ EmailVerifyRequest(u)
         \/ \E e \in Emails : MagicLinkRequest(e)
         \/ \E p \in Phones : OtpRequest(p)
  PROVE  Sessions'
<1>1. UNCHANGED <<reqs, identities, condemned, tokens>>
  BY DEF Forgot, EmailVerifyRequest, MagicLinkRequest, OtpRequest, FindOrCreate, AddTicket
<1>2. TokensGrow /\ UsersGrow
  BY <1>1, NothingGrows, ForgotTyped, CodeTyped
<1>3. UNCHANGED users \/ \E row : users' = Append(users, row)
  BY DEF Forgot, EmailVerifyRequest, MagicLinkRequest, OtpRequest, FindOrCreate
<1>4. \A u \in DOMAIN users : users'[u] = users[u]
  <2> SUFFICES ASSUME NEW row, users' = Append(users, row)
               PROVE  \A u \in DOMAIN users : users'[u] = users[u]
    BY <1>3
  <2>1. users \in Seq(User \cup {row})
    BY DEF Typed
  <2> QED
    BY <2>1, Appended
<1> QED
  BY <1>1, <1>2, <1>4, RowsSound

\* There is no session yet.
THEOREM InitSound == Init => Sessions
<1> SUFFICES ASSUME Init
             PROVE  Sessions
  OBVIOUS
<1>1. \A r \in Requests : reqs[r].op = "none" /\ ~reqs[r].blocked
  BY ForTyped DEF Init, Ops, Pcs
<1> QED
  BY <1>1 DEF Init, Sessions, RequestSound, Minting

\* Every statement keeps what sessions and requests are judged by (handlers.ts).
THEOREM NextSound == Typed /\ Sessions /\ [Next]_vars => Sessions'
<1> SUFFICES ASSUME Typed, Sessions, [Next]_vars
             PROVE  Sessions'
  OBVIOUS
<1>0. Typed'
  BY NextTyped
<1>1. CASE UNCHANGED vars
  <2>1. UsersGrow /\ TokensGrow
    BY <1>1, NothingGrows DEF vars
  <2> QED
    BY <1>0, <1>1, <2>1, RowsSound DEF vars
<1>2. ASSUME NEW r \in Requests,
             \/ \E n \in Names, e \in Emails \cup {None} : Signup(r, n, e)
             \/ Anonymous(r)
             \/ \E u \in DOMAIN users : Login(r, u) \/ SuspendUser(r, u) \/ RevokeSessions(r, u)
             \/ \E t \in DOMAIN tokens : Refresh(r, t) \/ Logout(r, t)
             \/ \E k \in DOMAIN tickets : Present(r, k) \/ OtpVerify(r, k)
             \/ \E s \in Subjects : OAuthGoogleCallback(r, s)
      PROVE  Sessions'
  BY <1>0, <1>2, SignedUpSound, LoginSound, SuspendSound, RevokeSessionsSound, RefreshSound,
     RedeemSound, OAuthSound
<1>3. ASSUME NEW r \in Requests,
             \/ FindUser(r) \/ RevokeToken(r) \/ Revoke(r) \/ Issue(r)
             \/ Attempt(r) \/ Mark(r) \/ SetVerified(r) \/ Password(r)
             \/ CreateOAuthUser(r) \/ CreateOAuthIdentity(r) \/ Refused(r)
             \/ Fail(r)
      PROVE  Sessions'
  BY <1>0, <1>3, FindUserSound, RevokeTokenSound, RevokeSound, IssueSound, MarkSound,
     SetVerifiedSound, PasswordSound, CreateUserSound, CreateIdentitySound, FailSound
<1>4. CASE \/ \E u \in DOMAIN users : Unsuspend(u) \/ DeleteUser(u)
           \/ \E u \in DOMAIN users : Forgot(u) \/ EmailVerifyRequest(u)
           \/ \E e \in Emails : MagicLinkRequest(e)
           \/ \E p \in Phones : OtpRequest(p)
  BY <1>0, <1>4, UnsuspendSound, DeleteSound, ForgotSound
<1>5. CASE Expire \/ Cleanup
  <2>1. TokensGrow /\ DOMAIN tokens' = DOMAIN tokens
        /\ UNCHANGED <<users, identities, reqs, condemned>>
    BY <1>5, ExpireTyped
  <2>2. UsersGrow
    BY <2>1, NothingGrows
  <2> QED
    BY <1>0, <2>1, <2>2, RowsSound
<1> QED
  BY <1>1, <1>2, <1>3, <1>4, <1>5 DEF Next

\* Sound sessions are what the two properties ask for.
LEMMA SoundTakes ==
  ASSUME Typed, Sessions
  PROVE  RevocationsTake /\ OneAccountPerIdentity
<1>1. ASSUME NEW t \in LiveTokens
      PROVE  /\ t \in DOMAIN tokens /\ tokens[t].user \in DOMAIN users /\ tokens[t].user \in Here
             /\ Session(tokens[t].user, tokens[t].family, tokens[t].pw, tokens[t].sub,
                        tokens[t].exempt, FALSE)
  BY SessionTypes DEF LiveTokens, Live, Sessions, TokenSound
<1>2. CondemnedFamiliesEnd
  <2> SUFFICES ASSUME NEW t \in LiveTokens, tokens[t].family \in Ending
               PROVE  \E r \in Requests : reqs[r].pc = "killFamily" /\ t \in Scope(r)
    BY <1>1 DEF CondemnedFamiliesEnd, Session
  <2>1. PICK r \in Requests : reqs[r].pc = "killFamily"
                              /\ tokens[t].family = tokens[reqs[r].tok].family
    BY DEF Ending
  <2> QED
    BY <1>1, <2>1 DEF Scope
<1>3. ResetEndsSessions
  <2> SUFFICES ASSUME NEW t \in LiveTokens, tokens[t].user \in Resetting
               PROVE  \E r \in Requests : /\ reqs[r].op = "reset" /\ reqs[r].pc = "revokeAll"
                                          /\ t \in Scope(r)
    BY <1>1 DEF ResetEndsSessions, Session
  <2>1. PICK r \in Requests : reqs[r].op = "reset" /\ reqs[r].pc = "revokeAll"
                              /\ tokens[t].user = reqs[r].user
    BY DEF Resetting
  <2> QED
    BY <1>1, <2>1 DEF Scope
<1>4. SuspensionEndsSessions
  <2> SUFFICES ASSUME NEW t \in LiveTokens, tokens[t].user \in Suspending
               PROVE  \E r \in Requests : /\ reqs[r].op = "suspend" /\ reqs[r].pc = "revokeAll"
                                          /\ t \in Scope(r)
    BY <1>1 DEF SuspensionEndsSessions, Session
  <2>1. PICK r \in Requests : reqs[r].op = "suspend" /\ reqs[r].pc = "revokeAll"
                              /\ tokens[t].user = reqs[r].user
    BY DEF Suspending
  <2> QED
    BY <1>1, <2>1 DEF Scope
<1>5. NoTokenWhileSuspended
  BY DEF NoTokenWhileSuspended, Sessions, RequestSound
<1>6. OneAccountPerIdentity
  BY <1>1 DEF OneAccountPerIdentity, Session
<1> QED
  BY <1>2, <1>3, <1>4, <1>5, <1>6 DEF RevocationsTake, Typed

\* Log-out, reuse, reset and suspension each end the sessions they are meant
\* to end, and suspension starts none, for any number of requests and rows
\* (handlers.ts of auth and admin).
THEOREM RevocationsAlwaysTake == Spec => []RevocationsTake
<1>1. Typed /\ Sessions => RevocationsTake
  BY SoundTakes
<1> QED
  BY <1>1, InitTyped, InitSound, NextTyped, NextSound, PTL DEF Spec

\* All sessions of a Google account belong to one user, also when its first
\* sign-ins run at the same time (handleOAuthGoogleCallback).
THEOREM OneAccountAlways == Spec => []OneAccountPerIdentity
<1>1. Typed /\ Sessions => OneAccountPerIdentity
  BY SoundTakes
<1> QED
  BY <1>1, InitTyped, InitSound, NextTyped, NextSound, PTL DEF Spec

-----------------------------------------------------------------------------
(***************************************************************************)
(* Using up.  Who has read a row and not yet updated it.                   *)
(***************************************************************************)
Marking(r, k) == reqs[r].ticket = k /\ reqs[r].pc = "mark"
Guessing(k) == {r \in Requests : reqs[r].ticket = k /\ reqs[r].pc = "attempt"}

TicketSound(k) ==
  /\ tickets[k].wins >= 1 => tickets[k].used
  /\ tickets[k].wins > 1 => tickets[k].raced
  /\ \A r \in Requests : Marking(r, k) =>
       /\ tickets[k].wins >= 1 => tickets[k].raced
       /\ \A s \in Requests \ {r} : Marking(s, k) => tickets[k].raced
  /\ tickets[k].attempts + Cardinality(Guessing(k)) < MaxAttempts + Cardinality(Requests)

ExchangeSound(t) ==
  /\ \A c \in DOMAIN tokens : tokens[c].parent = t =>
       /\ tokens[t].revoked
       /\ \A d \in DOMAIN tokens \ {c} : tokens[d].parent = t => tokens[t].raced
       /\ \A r \in Requests : InRefresh(r, t) => tokens[t].raced
  /\ \A r \in Requests : InRefresh(r, t) =>
       /\ reqs[r].pc = "issue" => tokens[t].revoked
       /\ \A s \in Requests \ {r} : InRefresh(s, t) => tokens[t].raced

Using == /\ \A k \in DOMAIN tickets : TicketSound(k)
         /\ \A t \in DOMAIN tokens : ExchangeSound(t)

\* No request comes to read a row that is to be used up, nor to mint from one.
NoNews ==
  \A r \in Requests :
    /\ reqs'[r].pc \in {"mark", "attempt"} =>
         reqs'[r].pc = reqs[r].pc /\ reqs'[r].ticket = reqs[r].ticket
    /\ reqs'[r].op = "refresh" =>
         /\ reqs[r].op = "refresh" /\ reqs'[r].tok = reqs[r].tok
         /\ reqs'[r].pc = "issue" => reqs[r].pc = "issue"

\* No request comes to exchange a token, nor to mint from one.
NoExchange ==
  \A r \in Requests :
    reqs'[r].op = "refresh" =>
      /\ reqs[r].op = "refresh" /\ reqs'[r].tok = reqs[r].tok
      /\ reqs'[r].pc = "issue" => reqs[r].pc = "issue"

\* What is counted of the tickets stays.
CountsStay ==
  \A k \in DOMAIN tickets : /\ tickets'[k].wins = tickets[k].wins
                            /\ tickets'[k].attempts = tickets[k].attempts
                            /\ tickets[k].used => tickets'[k].used
                            /\ tickets[k].raced => tickets'[k].raced

\* The requests that guess at a code are finitely many.
LEMMA GuessingCounts ==
  ASSUME NEW k
  PROVE  /\ IsFiniteSet(Guessing(k)) /\ Cardinality(Guessing(k)) \in Nat
         /\ Cardinality(Requests) \in Nat
         /\ Cardinality(Guessing(k)) <= Cardinality(Requests)
         /\ \A r \in Requests : r \notin Guessing(k) =>
              Cardinality(Guessing(k)) + 1 <= Cardinality(Requests)
<1>1. IsFiniteSet(Requests) /\ Guessing(k) \subseteq Requests
  BY DEF Guessing
<1>2. IsFiniteSet(Guessing(k)) /\ Cardinality(Guessing(k)) <= Cardinality(Requests)
  BY <1>1, FS_Subset
<1>3. Cardinality(Guessing(k)) \in Nat /\ Cardinality(Requests) \in Nat
  BY <1>1, <1>2, FS_CardinalityType
<1>4. ASSUME NEW r \in Requests, r \notin Guessing(k)
      PROVE  Cardinality(Guessing(k)) + 1 <= Cardinality(Requests)
  <2>1. Cardinality(Guessing(k) \cup {r}) = Cardinality(Guessing(k)) + 1
    BY <1>2, <1>4, FS_AddElement
  <2>2. Guessing(k) \cup {r} \subseteq Requests
    BY <1>1
  <2>3. Cardinality(Guessing(k) \cup {r}) <= Cardinality(Requests)
    BY <1>1, <2>2, FS_Subset
  <2> QED
    BY <2>1, <2>3
<1> QED
  BY <1>1, <1>2, <1>3, <1>4

\* Fewer guesses in flight.
LEMMA GuessingFalls ==
  ASSUME NEW k, Guessing(k)' \subseteq Guessing(k)
  PROVE  Cardinality(Guessing(k)') \in Nat
         /\ Cardinality(Guessing(k)') <= Cardinality(Guessing(k))
<1>1. IsFiniteSet(Guessing(k))
  BY GuessingCounts
<1>2. IsFiniteSet(Guessing(k)') /\ Cardinality(Guessing(k)') <= Cardinality(Guessing(k))
  BY <1>1, FS_Subset
<1> QED
  BY <1>2, FS_CardinalityType

\* The counters of a one-time token are numbers.
LEMMA CountTypes ==
  ASSUME Typed
  PROVE  \A k \in DOMAIN tickets : /\ tickets[k].attempts \in Nat /\ tickets[k].wins \in Nat
                                   /\ tickets[k].used \in BOOLEAN /\ tickets[k].raced \in BOOLEAN
<1> SUFFICES ASSUME NEW k \in DOMAIN tickets
             PROVE  /\ tickets[k].attempts \in Nat /\ tickets[k].wins \in Nat
                    /\ tickets[k].used \in BOOLEAN /\ tickets[k].raced \in BOOLEAN
  OBVIOUS
<1>1. tickets[k] \in Ticket
  BY DEF Typed
<1> QED
  BY <1>1 DEF Ticket

\* A ticket that no request comes to, and that is not counted at, stays sound.
LEMMA TicketStaysSound ==
  ASSUME Typed, Using, NEW k \in DOMAIN tickets,
         \A r \in Requests : reqs'[r].ticket = k /\ reqs'[r].pc \in {"mark", "attempt"} =>
           reqs'[r].pc = reqs[r].pc /\ reqs'[r].ticket = reqs[r].ticket,
         tickets'[k].wins = tickets[k].wins, tickets'[k].attempts = tickets[k].attempts,
         tickets[k].used => tickets'[k].used, tickets[k].raced => tickets'[k].raced
  PROVE  TicketSound(k)'
<1>1. TicketSound(k)
  BY DEF Using
<1>2. \A r \in Requests : Marking(r, k)' => Marking(r, k)
  BY DEF Marking
<1>3. Guessing(k)' \subseteq Guessing(k)
  BY DEF Guessing
<1>4. tickets'[k].attempts + Cardinality(Guessing(k)') < MaxAttempts + Cardinality(Requests)
  <2>1. tickets[k].attempts + Cardinality(Guessing(k)) < MaxAttempts + Cardinality(Requests)
    BY <1>1 DEF TicketSound
  <2> QED
    BY <1>3, <2>1, GuessingFalls, GuessingCounts, CountTypes, NumbersOfBounds
<1>5. /\ tickets'[k].wins >= 1 => tickets'[k].used
      /\ tickets'[k].wins > 1 => tickets'[k].raced
  BY <1>1 DEF TicketSound
<1>6. \A r \in Requests : Marking(r, k)' =>
         /\ tickets'[k].wins >= 1 => tickets'[k].raced
         /\ \A s \in Requests \ {r} : Marking(s, k)' => tickets'[k].raced
  BY <1>1, <1>2 DEF TicketSound
<1> QED
  BY <1>4, <1>5, <1>6 DEF TicketSound

\* Rows that are not exchanged stay sound.
LEMMA ExchangesStaySound ==
  ASSUME Typed, Using, TokensGrow, DOMAIN tokens' = DOMAIN tokens, NoExchange
  PROVE  \A t \in DOMAIN tokens : ExchangeSound(t)'
<1> SUFFICES ASSUME NEW t \in DOMAIN tokens
             PROVE  ExchangeSound(t)'
  OBVIOUS
<1>1. ExchangeSound(t)
  BY DEF Using
<1>2. /\ \A c \in DOMAIN tokens : tokens'[c].parent = tokens[c].parent
      /\ tokens[t].revoked => tokens'[t].revoked
      /\ tokens[t].raced => tokens'[t].raced
  BY DEF TokensGrow
<1>3. \A r \in Requests : InRefresh(r, t)' => /\ InRefresh(r, t)
                                              /\ reqs'[r].pc = "issue" => reqs[r].pc = "issue"
  BY DEF NoExchange, InRefresh
<1>4. \A c \in DOMAIN tokens' : tokens'[c].parent = t =>
         /\ tokens'[t].revoked
         /\ \A d \in DOMAIN tokens' \ {c} : tokens'[d].parent = t => tokens'[t].raced
         /\ \A r \in Requests : InRefresh(r, t)' => tokens'[t].raced
  BY <1>1, <1>2, <1>3 DEF ExchangeSound
<1>5. \A r \in Requests : InRefresh(r, t)' =>
         /\ reqs'[r].pc = "issue" => tokens'[t].revoked
         /\ \A s \in Requests \ {r} : InRefresh(s, t)' => tokens'[t].raced
  BY <1>1, <1>2, <1>3 DEF ExchangeSound
<1> QED
  BY <1>4, <1>5 DEF ExchangeSound

\* Where nothing is presented, nothing is used up.
LEMMA UsingStays ==
  ASSUME Typed, Using, TokensGrow, DOMAIN tokens' = DOMAIN tokens, NoNews,
         DOMAIN tickets' = DOMAIN tickets, CountsStay
  PROVE  Using'
<1>1. \A k \in DOMAIN tickets' : TicketSound(k)'
  BY TicketStaysSound DEF NoNews, CountsStay
<1>2. NoExchange
  BY DEF NoNews, NoExchange
<1> QED
  BY <1>1, <1>2, ExchangesStaySound DEF Using

-----------------------------------------------------------------------------
(***************************************************************************)
(* Every step keeps rows used up.                                          *)
(***************************************************************************)
\* Rows that do not change.
LEMMA UsingQuiet ==
  ASSUME Typed, Using, TokensGrow, DOMAIN tokens' = DOMAIN tokens, UNCHANGED tickets, NoNews
  PROVE  Using'
  BY UsingStays DEF CountsStay

\* A handler's first statement changes its own request only.
LEMMA BeginsWith ==
  ASSUME Typed, NEW r \in Requests, NEW q, Begin(r, q)
  PROVE  reqs'[r] = q /\ \A s \in Requests \ {r} : reqs'[s] = reqs[s]
  BY DEF Typed, Begin

\* The fields of a request that For makes.
LEMMA ForOps ==
  ASSUME NEW op, NEW u, NEW pc, NEW x
  PROVE  LET f == For(op, u, pc) IN
         /\ f.op = op /\ f.pc = pc
         /\ [f EXCEPT !.pw = x].op = op /\ [f EXCEPT !.pw = x].pc = pc
         /\ [f EXCEPT !.sub = x].op = op /\ [f EXCEPT !.sub = x].pc = pc
  BY DEF For, Idle

\* A request that begins without reading a row that is to be used up.
LEMMA BeginsUsing ==
  ASSUME Typed, Using, NEW r \in Requests,
         \/ Anonymous(r) \/ \E n \in Names, e \in Emails \cup {None} : Signup(r, n, e)
         \/ \E u \in DOMAIN users : Login(r, u) \/ SuspendUser(r, u) \/ RevokeSessions(r, u)
         \/ \E t \in DOMAIN tokens : Logout(r, t)
         \/ \E s \in Subjects : OAuthGoogleCallback(r, s)
  PROVE  Using'
<1>1. UNCHANGED <<tokens, tickets>>
  BY DEF Anonymous, Signup, Login, SuspendUser, RevokeSessions, Logout, OAuthGoogleCallback
<1>2. /\ reqs'[r].op # "refresh" /\ reqs'[r].pc \notin {"mark", "attempt"}
      /\ \A s \in Requests \ {r} : reqs'[s] = reqs[s]
  <2>1. CASE Anonymous(r)
    <3>1. Begin(r, For("login", Len(users) + 1, "issue"))
      BY <2>1 DEF Anonymous
    <3> QED
      BY <3>1, BeginsWith, ForOps
  <2>2. CASE \E n \in Names, e \in Emails \cup {None} : Signup(r, n, e)
    <3>1. Begin(r, [For("login", Len(users) + 1, "issue") EXCEPT !.pw = 1])
      BY <2>2 DEF Signup
    <3> DEFINE q == [For("login", Len(users) + 1, "issue") EXCEPT !.pw = 1]
    <3>2. Begin(r, q)
      BY <3>1
    <3>3. q.op = "login" /\ q.pc = "issue"
      BY ForOps
    <3> HIDE DEF q
    <3> QED
      BY <3>2, <3>3, BeginsWith
  <2>3. CASE \E u \in DOMAIN users : Login(r, u)
    <3>1. PICK u \in DOMAIN users : Begin(r, [For("login", u, "issue") EXCEPT !.pw = users[u].pw])
      BY <2>3 DEF Login
    <3> DEFINE q == [For("login", u, "issue") EXCEPT !.pw = users[u].pw]
    <3>2. Begin(r, q)
      BY <3>1
    <3>3. q.op = "login" /\ q.pc = "issue"
      BY ForOps
    <3> HIDE DEF q
    <3> QED
      BY <3>2, <3>3, BeginsWith
  <2>4. CASE \E u \in DOMAIN users : SuspendUser(r, u)
    <3>1. PICK u \in DOMAIN users :
            Begin(r, [For("suspend", u, "revokeAll") EXCEPT !.blocked = FALSE])
      BY <2>4 DEF SuspendUser
    <3> DEFINE f == For("suspend", u, "revokeAll")
               q == [f EXCEPT !.blocked = FALSE]
    <3>2. Begin(r, q)
      BY <3>1
    <3>3. f.op = "suspend" /\ f.pc = "revokeAll"
      BY ForOps
    <3> HIDE DEF f
    <3>4. q.op = f.op /\ q.pc = f.pc
      OBVIOUS
    <3> HIDE DEF q
    <3> QED
      BY <3>2, <3>3, <3>4, BeginsWith
  <2>5. CASE \E u \in DOMAIN users : RevokeSessions(r, u)
    <3>1. PICK u \in DOMAIN users : Begin(r, For("revoke", u, "revokeAll"))
      BY <2>5 DEF RevokeSessions
    <3> QED
      BY <3>1, BeginsWith, ForOps
  <2>6. CASE \E t \in DOMAIN tokens : Logout(r, t)
    <3>1. PICK t \in DOMAIN tokens : Begin(r, Presented("logout", t, "killFamily"))
      BY <2>6 DEF Logout
    <3> QED
      BY <3>1, BeginsWith, PresentedTyped DEF Presenting, Pcs
  <2>7. CASE \E s \in Subjects : OAuthGoogleCallback(r, s)
    <3>1. PICK s \in Subjects, u \in 0..Len(users), pc \in {"createUser", "findUser"} :
            Begin(r, [For("google", u, pc) EXCEPT !.sub = s])
      <4>1. \A s \in Subjects : identities[s] \in 0..Len(users)
        BY DEF Typed, TypeOK
      <4> QED
        BY <2>7, <4>1 DEF OAuthGoogleCallback
    <3> DEFINE q == [For("google", u, pc) EXCEPT !.sub = s]
    <3>2. Begin(r, q)
      BY <3>1
    <3>3. q.op = "google" /\ q.pc = pc
      BY ForOps
    <3> HIDE DEF q
    <3> QED
      BY <3>2, <3>3, BeginsWith
  <2> QED
    BY <2>1, <2>2, <2>3, <2>4, <2>5, <2>6, <2>7
<1>3. NoNews
  BY <1>2 DEF NoNews
<1>4. TokensGrow
  BY <1>1, NothingGrows
<1> QED
  BY <1>1, <1>3, <1>4, UsingQuiet

\* A request that goes on or ends without reading or updating such a row.
LEMMA GoesOnUsing ==
  ASSUME Typed, Using, NEW r \in Requests, UNCHANGED <<tokens, tickets>>,
         \/ End(r)
         \/ \E pc \in Pcs \ {"mark", "attempt"} :
              /\ Then(r, pc)
              /\ pc = "issue" => reqs[r].op # "refresh" \/ reqs[r].pc = "issue"
         \/ reqs' = [reqs EXCEPT ![r].user = Len(users) + 1, ![r].pc = "identity"]
  PROVE  Using'
<1>1. reqs \in [Requests -> Request] /\ reqs[r] \in Request
  BY DEF Typed
<1>2. NoNews
  <2>1. CASE End(r)
    BY <1>1, <2>1 DEF NoNews, End, Idle
  <2>2. CASE \E pc \in Pcs \ {"mark", "attempt"} :
              /\ Then(r, pc)
              /\ pc = "issue" => reqs[r].op # "refresh" \/ reqs[r].pc = "issue"
    <3>1. PICK pc \in Pcs \ {"mark", "attempt"} :
              /\ Then(r, pc)
              /\ pc = "issue" => reqs[r].op # "refresh" \/ reqs[r].pc = "issue"
      BY <2>2
    <3>2. /\ \A s \in Requests \ {r} : reqs'[s] = reqs[s]
          /\ reqs'[r].pc = pc /\ reqs'[r].op = reqs[r].op /\ reqs'[r].tok = reqs[r].tok
      BY <3>1, GoesOn
    <3> QED
      BY <3>1, <3>2 DEF NoNews
  <2>3. CASE reqs' = [reqs EXCEPT ![r].user = Len(users) + 1, ![r].pc = "identity"]
    <3>1. \A f \in [Requests -> Request] :
            LET g == [f EXCEPT ![r].user = Len(users) + 1, ![r].pc = "identity"] IN
            /\ \A s \in Requests \ {r} : g[s] = f[s]
            /\ g[r].pc = "identity" /\ g[r].op = f[r].op /\ g[r].tok = f[r].tok
      BY DEF Request
    <3>2. /\ \A s \in Requests \ {r} : reqs'[s] = reqs[s]
          /\ reqs'[r].pc = "identity" /\ reqs'[r].op = reqs[r].op /\ reqs'[r].tok = reqs[r].tok
      BY <1>1, <2>3, <3>1
    <3> QED
      BY <3>2 DEF NoNews
  <2> QED
    BY <2>1, <2>2, <2>3
<1>3. TokensGrow
  BY NothingGrows
<1> QED
  BY <1>2, <1>3, UsingQuiet

\* Statements that touch no one-time token leave its use sound.
LEMMA StatementsUsing ==
  ASSUME Typed, Using, NEW r \in Requests,
         \/ FindUser(r) \/ SetVerified(r) \/ Password(r)
         \/ CreateOAuthUser(r) \/ CreateOAuthIdentity(r) \/ Refused(r)
  PROVE  Using'
<1>1. UNCHANGED <<tokens, tickets>>
  BY DEF FindUser, SetVerified, Password, CreateOAuthUser, CreateOAuthIdentity, Refused
<1>2. Formed(reqs[r])
  BY DEF Typed
<1>3. \/ End(r)
      \/ \E pc \in Pcs \ {"mark", "attempt"} :
           /\ Then(r, pc)
           /\ pc = "issue" => reqs[r].op # "refresh" \/ reqs[r].pc = "issue"
      \/ reqs' = [reqs EXCEPT ![r].user = Len(users) + 1, ![r].pc = "identity"]
  <2>1. CASE FindUser(r)
    BY <2>1 DEF FindUser, Pcs
  <2>2. CASE SetVerified(r)
    BY <2>2 DEF SetVerified, Pcs
  <2>3. CASE Password(r)
    BY <2>3 DEF Password, Pcs
  <2>4. CASE CreateOAuthUser(r)
    <3>1. \/ Then(r, "refused")
          \/ reqs' = [reqs EXCEPT ![r].user = Len(users) + 1, ![r].pc = "identity"]
      BY <2>4 DEF CreateOAuthUser
    <3> QED
      BY <3>1 DEF Pcs
  <2>5. CASE CreateOAuthIdentity(r)
    BY <1>2, <2>5 DEF CreateOAuthIdentity, Pcs, Formed
  <2>6. CASE Refused(r)
    BY <2>6 DEF Refused
  <2> QED
    BY <2>1, <2>2, <2>3, <2>4, <2>5, <2>6
<1> QED
  BY <1>1, <1>3, GoesOnUsing

\* The end of a revocation leaves the use of one-time tokens sound.
LEMMA EndMarkingUsing ==
  ASSUME Typed, Using, NEW r \in Requests, Revoke(r) \/ Fail(r)
  PROVE  Using'
<1>1. EndMarking(r) /\ UNCHANGED tickets /\ DOMAIN tokens' = DOMAIN tokens /\ TokensGrow
  BY RevokeTyped, FailTyped DEF Revoke, Fail
<1>2. reqs'[r] = Idle /\ \A s \in Requests \ {r} : Alike(reqs'[s], reqs[s])
  BY <1>1, Marks
<1>3. NoNews
  BY <1>2 DEF NoNews, Alike, Idle
<1> QED
  BY <1>1, <1>3, UsingQuiet

\* A token is presented: an exchange under way at the same time is marked.
LEMMA RefreshUsing ==
  ASSUME Typed, Using, NEW r \in Requests, NEW i \in DOMAIN tokens, Refresh(r, i)
  PROVE  Using'
<1>1. TokensGrow /\ UNCHANGED tickets /\ DOMAIN tokens' = DOMAIN tokens
  <2>1. TokensGrow
    BY RefreshTyped
  <2> QED
    BY <2>1 DEF Refresh
<1>2. CASE \/ Begin(r, Presented("reuse", i, "killFamily"))
           \/ Begin(r, Presented("expiry", i, "revokeToken"))
  <2>1. /\ reqs'[r].op # "refresh" /\ reqs'[r].pc \notin {"mark", "attempt"}
        /\ \A s \in Requests \ {r} : reqs'[s] = reqs[s]
    <3>1. CASE Begin(r, Presented("reuse", i, "killFamily"))
      BY <3>1, BeginsWith, PresentedTyped DEF Presenting, Pcs
    <3>2. CASE Begin(r, Presented("expiry", i, "revokeToken"))
      BY <3>2, BeginsWith, PresentedTyped DEF Presenting, Pcs
    <3> QED
      BY <1>2, <3>1, <3>2
  <2>2. NoNews
    BY <2>1 DEF NoNews
  <2> QED
    BY <1>1, <2>2, UsingQuiet
<1>3. CASE /\ Live(i) /\ Begin(r, Presented("refresh", i, "findUser"))
           /\ tokens' = [tokens EXCEPT ![i].raced = @ \/ \E q \in Requests : InRefresh(q, i)]
  <2>1. /\ reqs'[r].op = "refresh" /\ reqs'[r].tok = i /\ reqs'[r].pc = "findUser"
        /\ \A s \in Requests \ {r} : reqs'[s] = reqs[s]
    <3>1. "refresh" \in Presenting /\ "findUser" \in Pcs
      BY DEF Presenting, Pcs
    <3> QED
      BY <1>3, <3>1, BeginsWith, PresentedTyped
  <2>2. \A k \in DOMAIN tickets' : TicketSound(k)'
    BY <1>1, <2>1, TicketStaysSound
  <2>3. tokens'[i].raced <=> tokens[i].raced \/ \E q \in Requests : InRefresh(q, i)
    <3>1. tokens[i] \in Token /\ tokens \in [DOMAIN tokens -> Token]
      BY DEF Typed
    <3> DEFINE b == tokens[i].raced \/ \E q \in Requests : InRefresh(q, i)
    <3>2. tokens' = [tokens EXCEPT ![i] = [tokens[i] EXCEPT !.raced = b]]
      BY <1>3
    <3> HIDE DEF b
    <3>3. tokens'[i].raced = b
      BY <3>1, <3>2 DEF Token
    <3> QED
      BY <3>3 DEF b
  <2>4. ASSUME NEW t \in DOMAIN tokens
        PROVE  ExchangeSound(t)'
    <3>1. ExchangeSound(t)
      BY DEF Using
    <3>2. /\ \A c \in DOMAIN tokens : tokens'[c].parent = tokens[c].parent
          /\ tokens[t].revoked => tokens'[t].revoked
          /\ tokens[t].raced => tokens'[t].raced
      BY <1>1 DEF TokensGrow
    <3>3. \A s \in Requests : InRefresh(s, t)' => (s = r /\ t = i) \/ (s # r /\ InRefresh(s, t))
      BY <2>1 DEF InRefresh
    <3>4. t = i => \A c \in DOMAIN tokens : tokens[c].parent # t
      BY <1>3, <3>1 DEF ExchangeSound, Live
    <3>5. \A c \in DOMAIN tokens' : tokens'[c].parent = t =>
             /\ tokens'[t].revoked
             /\ \A d \in DOMAIN tokens' \ {c} : tokens'[d].parent = t => tokens'[t].raced
             /\ \A s \in Requests : InRefresh(s, t)' => tokens'[t].raced
      BY <1>1, <3>1, <3>2, <3>3, <3>4 DEF ExchangeSound
    <3>6. ASSUME NEW p \in Requests, NEW s \in Requests \ {p}, InRefresh(p, t)', InRefresh(s, t)'
          PROVE  tokens'[t].raced
      <4>1. CASE p = r \/ s = r
        BY <2>3, <3>3, <3>6, <4>1
      <4>2. CASE p # r /\ s # r
        BY <3>1, <3>2, <3>3, <3>6, <4>2 DEF ExchangeSound
      <4> QED
        BY <4>1, <4>2
    <3>7. ASSUME NEW p \in Requests, InRefresh(p, t)', reqs'[p].pc = "issue"
          PROVE  tokens'[t].revoked
      BY <2>1, <3>1, <3>2, <3>3, <3>7 DEF ExchangeSound
    <3> QED
      BY <3>5, <3>6, <3>7 DEF ExchangeSound
  <2> QED
    BY <1>1, <2>2, <2>4 DEF Using
<1> QED
  BY <1>2, <1>3 DEF Refresh

\* The guarded revocation of the old token: one rotation per token.
LEMMA RevokeTokenUsing ==
  ASSUME Typed, Using, NEW r \in Requests, RevokeToken(r)
  PROVE  Using'
<1>1. TokensGrow /\ UNCHANGED tickets /\ DOMAIN tokens' = DOMAIN tokens
  <2>1. TokensGrow
    BY RevokeTokenTyped
  <2> QED
    BY <2>1 DEF RevokeToken
<1>2. reqs[r].op \in {"refresh", "expiry"} /\ reqs[r].tok \in DOMAIN tokens
  BY DEF RevokeToken, Typed, Formed, Presenting
<1>3. tokens'[reqs[r].tok].revoked
  <2> DEFINE t == reqs[r].tok
             new == [tokens[t] EXCEPT !.revoked = TRUE]
  <2>1. tokens[t] \in Token /\ tokens' = [tokens EXCEPT ![t] = new]
    BY <1>2 DEF RevokeToken, Typed
  <2>2. new.revoked
    BY <2>1 DEF Token
  <2> HIDE DEF new
  <2> QED
    BY <1>2, <2>1, <2>2 DEF Typed
<1>4. CASE reqs[r].op # "refresh"
  <2>1. End(r)
    BY <1>4 DEF RevokeToken
  <2>2. NoNews
    BY <2>1 DEF NoNews, End, Idle, Typed
  <2> QED
    BY <1>1, <2>2, UsingQuiet
<1>5. CASE reqs[r].op = "refresh"
  <2>1. Then(r, "issue") /\ "issue" \in Pcs
    BY <1>5 DEF RevokeToken, Pcs
  <2>2. /\ reqs'[r].op = "refresh" /\ reqs'[r].tok = reqs[r].tok /\ reqs'[r].pc = "issue"
        /\ \A s \in Requests \ {r} : reqs'[s] = reqs[s]
    BY <1>5, <2>1, GoesOn
  <2>3. \A k \in DOMAIN tickets' : TicketSound(k)'
    BY <1>1, <2>2, TicketStaysSound
  <2>4. ASSUME NEW t \in DOMAIN tokens
        PROVE  ExchangeSound(t)'
    <3>1. ExchangeSound(t)
      BY DEF Using
    <3>2. /\ \A c \in DOMAIN tokens : tokens'[c].parent = tokens[c].parent
          /\ tokens[t].revoked => tokens'[t].revoked
          /\ tokens[t].raced => tokens'[t].raced
      BY <1>1 DEF TokensGrow
    <3>3. \A s \in Requests : InRefresh(s, t)' => InRefresh(s, t)
      BY <1>5, <2>2 DEF InRefresh
    <3>4. \A c \in DOMAIN tokens' : tokens'[c].parent = t =>
             /\ tokens'[t].revoked
             /\ \A d \in DOMAIN tokens' \ {c} : tokens'[d].parent = t => tokens'[t].raced
             /\ \A s \in Requests : InRefresh(s, t)' => tokens'[t].raced
      BY <1>1, <3>1, <3>2, <3>3 DEF ExchangeSound
    <3>5. \A p \in Requests : InRefresh(p, t)' =>
            \A s \in Requests \ {p} : InRefresh(s, t)' => tokens'[t].raced
      BY <3>1, <3>2, <3>3 DEF ExchangeSound
    <3>6. ASSUME NEW p \in Requests, InRefresh(p, t)', reqs'[p].pc = "issue"
          PROVE  tokens'[t].revoked
      <4>1. CASE p = r
        BY <1>3, <2>2, <3>6, <4>1 DEF InRefresh
      <4>2. CASE p # r
        BY <2>2, <3>1, <3>2, <3>3, <3>6, <4>2 DEF ExchangeSound
      <4> QED
        BY <4>1, <4>2
    <3> QED
      BY <3>4, <3>5, <3>6 DEF ExchangeSound
  <2> QED
    BY <1>1, <2>3, <2>4 DEF Using
<1> QED
  BY <1>4, <1>5

\* A token is minted: from a refresh token that is revoked by now, and raced
\* if there is another successor or another exchange under way.
LEMMA IssueUsing ==
  ASSUME Typed, Using, NEW r \in Requests, Issue(r)
  PROVE  Using'
<1>0. PICK n \in Nat : n = Len(tokens) + 1
  BY DEF Typed
<1>1. Typed' /\ TokensGrow
  BY IssueTyped
<1>2. /\ UNCHANGED tickets /\ End(r) /\ reqs[r].pc = "issue" /\ Formed(reqs[r])
      /\ reqs[r].user \in Here =>
           \E new : /\ tokens' = Append(tokens, new) /\ new.parent = reqs[r].tok
      /\ reqs[r].user \notin Here => UNCHANGED tokens
  BY DEF Issue, Typed
<1>3. CASE reqs[r].user \notin Here
  BY <1>2, <1>3, GoesOnUsing
<1>4. CASE reqs[r].user \in Here
  <2>1. /\ reqs'[r].pc = "idle" /\ reqs'[r].op = "none"
        /\ \A s \in Requests \ {r} : reqs'[s] = reqs[s]
    BY <1>2, EndsIdle
  <2>2. /\ DOMAIN tokens' = DOMAIN tokens \cup {n} /\ n \notin DOMAIN tokens /\ n \in Nat
        /\ DOMAIN tokens = 1..Len(tokens) /\ Len(tokens) \in Nat
        /\ \A t \in DOMAIN tokens : tokens'[t] = tokens[t]
        /\ tokens'[n].parent = reqs[r].tok
    <3>1. PICK new : /\ tokens' = Append(tokens, new) /\ new.parent = reqs[r].tok
      BY <1>2, <1>4
    <3>2. tokens \in Seq(Token \cup {new})
      BY DEF Typed
    <3> QED
      BY <1>0, <3>1, <3>2, Appended
  <2>3. \A s \in Requests, t \in DOMAIN tokens' :
          InRefresh(s, t)' => s # r /\ InRefresh(s, t) /\ t \in DOMAIN tokens
    <3>1. \A s \in Requests : reqs[s].op = "refresh" => reqs[s].tok \in DOMAIN tokens
      BY DEF Typed, Formed, Presenting
    <3> QED
      BY <2>1, <3>1 DEF InRefresh
  <2>4. \A k \in DOMAIN tickets' : TicketSound(k)'
    BY <1>2, <2>1, TicketStaysSound
  <2>5. ExchangeSound(n)'
    <3>1. \A c \in DOMAIN tokens' : tokens'[c].parent # n
      <4> SUFFICES ASSUME NEW c \in DOMAIN tokens'
                   PROVE  tokens'[c].parent # n
        OBVIOUS
      <4>1. tokens'[c].parent \in 0..(c - 1)
        BY <1>1 DEF Typed, TypeOK
      <4>2. c \in 1..n
        BY <1>0, <2>2
      <4> QED
        BY <2>2, <4>1, <4>2
    <3> QED
      BY <2>2, <2>3, <3>1 DEF ExchangeSound
  <2>6. ASSUME NEW t \in DOMAIN tokens
        PROVE  ExchangeSound(t)'
    <3>1. ExchangeSound(t)
      BY DEF Using
    <3>2. tokens'[t] = tokens[t] /\ t # n
      BY <2>2
    <3>3. \A s \in Requests : InRefresh(s, t)' => s # r /\ InRefresh(s, t)
      BY <2>2, <2>3
    <3>4. tokens'[n].parent = t => InRefresh(r, t)
      BY <1>2, <2>2 DEF InRefresh, Formed, Minting, Presenting
    <3>5. \A c \in DOMAIN tokens' : tokens'[c].parent = t =>
            \/ c = n /\ InRefresh(r, t)
            \/ c \in DOMAIN tokens /\ tokens[c].parent = t
      BY <2>2, <3>4
    <3>6. \A c \in DOMAIN tokens' : tokens'[c].parent = t => tokens[t].revoked
      BY <1>2, <3>1, <3>5 DEF ExchangeSound
    <3>7. ASSUME NEW c \in DOMAIN tokens', tokens'[c].parent = t,
                 NEW d \in DOMAIN tokens' \ {c}, tokens'[d].parent = t
          PROVE  tokens[t].raced
      <4>1. CASE c = n \/ d = n
        BY <3>1, <3>5, <3>7, <4>1 DEF ExchangeSound
      <4>2. CASE c # n /\ d # n
        BY <3>1, <3>5, <3>7, <4>2 DEF ExchangeSound
      <4> QED
        BY <4>1, <4>2
    <3>8. ASSUME NEW c \in DOMAIN tokens', tokens'[c].parent = t,
                 NEW s \in Requests, InRefresh(s, t)'
          PROVE  tokens[t].raced
      BY <3>1, <3>3, <3>5, <3>8 DEF ExchangeSound
    <3>9. \A s \in Requests : InRefresh(s, t)' =>
            /\ reqs'[s].pc = "issue" => tokens[t].revoked
            /\ \A p \in Requests \ {s} : InRefresh(p, t)' => tokens[t].raced
      BY <2>1, <3>1, <3>3 DEF ExchangeSound
    <3> QED
      BY <3>2, <3>6, <3>7, <3>8, <3>9 DEF ExchangeSound
  <2> QED
    BY <2>2, <2>4, <2>5, <2>6 DEF Using
<1> QED
  BY <1>3, <1>4

\* Sets of requests are finite.
LEMMA RequestsCount ==
  ASSUME NEW S \in SUBSET Requests
  PROVE  /\ Cardinality(S) \in Nat /\ Cardinality(Requests) \in Nat
         /\ Cardinality(S) <= Cardinality(Requests)
<1>1. IsFiniteSet(S) /\ Cardinality(S) <= Cardinality(Requests)
  BY FS_Subset
<1> QED
  BY <1>1, FS_CardinalityType

\* A link or a code is presented: it is unused, so no request accepted it yet,
\* and one that is about to is marked.
LEMMA RedeemUsing ==
  ASSUME Typed, Using, NEW r \in Requests, NEW k \in DOMAIN tickets,
         Present(r, k) \/ OtpVerify(r, k)
  PROVE  Using'
<1> DEFINE old == tickets[k]
<1>1. PICK pc \in {"mark", "attempt"} :
         Redeem(r, k, pc) /\ (pc = "attempt" => old.attempts < MaxAttempts)
  BY DEF Present, OtpVerify
<1>2. ~old.used /\ old \in Ticket
  BY DEF Present, OtpVerify, Redeemable, Typed
<1>3. old.kind # "refresh" /\ old.wins \in Nat /\ old.attempts \in Nat /\ old.raced \in BOOLEAN
  BY <1>2 DEF Ticket, Redeeming
<1>4. /\ reqs'[r].op # "refresh" /\ reqs'[r].pc = pc /\ reqs'[r].ticket = k
      /\ \A s \in Requests \ {r} : reqs'[s] = reqs[s]
      /\ UNCHANGED tokens
  <2> DEFINE g == For(old.kind, old.user, pc)
             q == [g EXCEPT !.ticket = k]
  <2>1. Begin(r, q) /\ UNCHANGED tokens
    BY <1>1 DEF Redeem
  <2>2. g.op = old.kind /\ g.pc = pc
    BY ForOps
  <2>3. q.ticket = k /\ q.op = old.kind /\ q.pc = pc
    <3>1. DOMAIN g = DOMAIN Idle /\ "ticket" \in DOMAIN Idle
      BY DEF For, Idle
    <3> HIDE DEF g
    <3> QED
      BY <2>2, <3>1
  <2> HIDE DEF q
  <2> QED
    BY <1>3, <2>1, <2>3, BeginsWith
<1>5. /\ DOMAIN tickets' = DOMAIN tickets
      /\ \A i \in DOMAIN tickets \ {k} : tickets'[i] = tickets[i]
      /\ tickets'[k].wins = old.wins /\ tickets'[k].attempts = old.attempts
      /\ tickets'[k].raced <=> old.raced \/ \E q \in Requests : Marking(q, k)
  <2> DEFINE b == old.raced \/ \E q \in Requests : Marking(q, k)
             new == [old EXCEPT !.raced = b]
  <2>1. tickets' = [tickets EXCEPT ![k] = new]
    BY <1>1 DEF Redeem, Marking
  <2>2. b \in BOOLEAN
    OBVIOUS
  <2> HIDE DEF b
  <2>3. new.wins = old.wins /\ new.attempts = old.attempts /\ new.raced = b
    BY <1>2 DEF Ticket
  <2> HIDE DEF new
  <2>4. /\ DOMAIN tickets' = DOMAIN tickets /\ tickets'[k] = new
        /\ \A i \in DOMAIN tickets \ {k} : tickets'[i] = tickets[i]
    BY <2>1 DEF Typed
  <2> QED
    BY <2>3, <2>4 DEF b
<1>6. ASSUME NEW i \in DOMAIN tickets \ {k}
      PROVE  TicketSound(i)'
  BY <1>4, <1>5, <1>6, TicketStaysSound
<1>7. TicketSound(k)'
  <2>1. TicketSound(k) /\ old.wins = 0
    BY <1>2, <1>3 DEF Using, TicketSound
  <2>2. \A s \in Requests \ {r} : Marking(s, k)' => Marking(s, k)
    BY <1>4 DEF Marking
  <2>3. ASSUME NEW p \in Requests, NEW s \in Requests \ {p}, Marking(p, k)', Marking(s, k)'
        PROVE  tickets'[k].raced
    <3>1. PICK q \in {p, s} : q # r
      OBVIOUS
    <3>2. q \in Requests /\ Marking(q, k)
      BY <2>2, <2>3, <3>1
    <3> QED
      BY <1>5, <3>2
  <2>4. tickets'[k].attempts + Cardinality(Guessing(k)') < MaxAttempts + Cardinality(Requests)
    <3>1. CASE pc = "mark"
      <4>1. Guessing(k)' \subseteq Guessing(k)
        BY <1>4, <3>1 DEF Guessing
      <4>2. old.attempts + Cardinality(Guessing(k)) < MaxAttempts + Cardinality(Requests)
        BY <2>1 DEF TicketSound
      <4> QED
        BY <1>3, <1>5, <4>1, <4>2, GuessingFalls, GuessingCounts, NumbersOfBounds
    <3>2. CASE pc = "attempt"
      <4>1. Guessing(k)' \in SUBSET Requests
        BY DEF Guessing
      <4> QED
        BY <1>1, <1>3, <1>5, <3>2, <4>1, RequestsCount, NumbersOfBounds
    <3> QED
      BY <3>1, <3>2
  <2> QED
    BY <1>5, <2>1, <2>3, <2>4 DEF TicketSound
<1>8. TokensGrow /\ NoExchange /\ DOMAIN tokens' = DOMAIN tokens
  BY <1>4, NothingGrows DEF NoExchange
<1> QED
  BY <1>5, <1>6, <1>7, <1>8, ExchangesStaySound DEF Using

\* A wrong guess is counted: one fewer is in flight.
LEMMA AttemptUsing ==
  ASSUME Typed, Using, NEW r \in Requests, Attempt(r)
  PROVE  Using'
<1>1. PICK k \in DOMAIN tickets : k = reqs[r].ticket
  BY DEF Attempt, Typed, Formed, Redeeming
<1> DEFINE old == tickets[k]
           new == [old EXCEPT !.attempts = @ + 1]
<1>2. tickets' = [tickets EXCEPT ![k] = new] /\ End(r) /\ reqs[r].pc = "attempt"
      /\ UNCHANGED tokens /\ old \in Ticket
  BY <1>1 DEF Attempt, Typed
<1>3. /\ new.wins = old.wins /\ new.used = old.used /\ new.raced = old.raced
      /\ new.attempts = old.attempts + 1 /\ old.attempts \in Nat
  BY <1>2 DEF Ticket
<1> HIDE DEF new
<1>4. /\ DOMAIN tickets' = DOMAIN tickets /\ tickets'[k] = new
      /\ \A i \in DOMAIN tickets \ {k} : tickets'[i] = tickets[i]
  BY <1>2 DEF Typed
<1>5. /\ reqs'[r].pc = "idle" /\ reqs'[r].op = "none"
      /\ \A s \in Requests \ {r} : reqs'[s] = reqs[s]
  BY <1>2, EndsIdle
<1>6. ASSUME NEW i \in DOMAIN tickets \ {k}
      PROVE  TicketSound(i)'
  BY <1>4, <1>5, <1>6, TicketStaysSound
<1>7. TicketSound(k)'
  <2>1. TicketSound(k)
    BY DEF Using
  <2>2. \A s \in Requests : Marking(s, k)' => Marking(s, k)
    BY <1>5 DEF Marking
  <2>3. Guessing(k)' = Guessing(k) \ {r} /\ r \in Guessing(k)
    BY <1>1, <1>2, <1>5 DEF Guessing
  <2>4. Cardinality(Guessing(k)') = Cardinality(Guessing(k)) - 1
    <3> PICK G : G = Guessing(k)
      OBVIOUS
    <3>1. IsFiniteSet(G)
      BY GuessingCounts
    <3>2. Cardinality(G \ {r}) = Cardinality(G) - 1
      BY <2>3, <3>1, FS_RemoveElement
    <3> QED
      BY <2>3, <3>2
  <2>5. tickets'[k].attempts + Cardinality(Guessing(k)') < MaxAttempts + Cardinality(Requests)
    <3>1. old.attempts + Cardinality(Guessing(k)) < MaxAttempts + Cardinality(Requests)
      BY <2>1 DEF TicketSound
    <3> QED
      BY <1>3, <1>4, <2>4, <3>1, GuessingCounts, NumbersOfBounds
  <2> QED
    BY <1>3, <1>4, <2>1, <2>2, <2>5 DEF TicketSound
<1>8. TokensGrow /\ NoExchange /\ DOMAIN tokens' = DOMAIN tokens
  BY <1>2, <1>5, NothingGrows DEF NoExchange
<1> QED
  BY <1>4, <1>6, <1>7, <1>8, ExchangesStaySound DEF Using

\* A link or a code is accepted, once more if the ticket is raced.
LEMMA MarkUsing ==
  ASSUME Typed, Using, NEW r \in Requests, Mark(r)
  PROVE  Using'
<1>1. PICK k \in DOMAIN tickets : k = reqs[r].ticket
  BY DEF Mark, Typed, Formed
<1> DEFINE old == tickets[k]
<1>2. old \in Ticket /\ UNCHANGED tokens /\ Marking(r, k)
  BY <1>1 DEF Mark, Typed, Marking
<1>3. /\ DOMAIN tickets' = DOMAIN tickets
      /\ \A i \in DOMAIN tickets \ {k} : tickets'[i] = tickets[i]
      /\ tickets'[k].used /\ tickets'[k].attempts = old.attempts /\ tickets'[k].raced = old.raced
      /\ tickets'[k].wins = IF old.wins < 2 THEN old.wins + 1 ELSE old.wins
  <2> DEFINE w == IF old.wins < 2 THEN old.wins + 1 ELSE old.wins
             new == [old EXCEPT !.used = TRUE, !.wins = w]
  <2>1. \A f \in Seq(Ticket) : k \in DOMAIN f =>
          [f EXCEPT ![k].used = TRUE, ![k].wins = IF @ < 2 THEN @ + 1 ELSE @]
            = [f EXCEPT ![k] = [f[k] EXCEPT !.used = TRUE, !.wins = IF @ < 2 THEN @ + 1 ELSE @]]
    BY DEF Ticket
  <2>2. tickets' = [tickets EXCEPT ![k] = new]
    BY <1>1, <2>1 DEF Mark, Typed
  <2> HIDE DEF w
  <2>3. new.used /\ new.wins = w /\ new.attempts = old.attempts /\ new.raced = old.raced
    BY <1>2 DEF Ticket
  <2> HIDE DEF new
  <2>4. /\ DOMAIN tickets' = DOMAIN tickets /\ tickets'[k] = new
        /\ \A i \in DOMAIN tickets \ {k} : tickets'[i] = tickets[i]
    BY <2>2 DEF Typed
  <2> QED
    BY <2>3, <2>4 DEF w
<1>4. PICK pc \in Pcs \ {"mark", "attempt", "issue"} : Then(r, pc)
  BY DEF Mark, Pcs
<1>5. /\ reqs'[r].pc = pc /\ reqs'[r].op = reqs[r].op /\ reqs'[r].tok = reqs[r].tok
      /\ \A s \in Requests \ {r} : reqs'[s] = reqs[s]
  BY <1>4, GoesOn
<1>6. ASSUME NEW i \in DOMAIN tickets \ {k}
      PROVE  TicketSound(i)'
  BY <1>3, <1>4, <1>5, <1>6, TicketStaysSound
<1>7. TicketSound(k)'
  <2>1. TicketSound(k) /\ old.wins \in Nat /\ old.attempts \in Nat
    BY CountTypes DEF Using
  <2>2. \A s \in Requests : Marking(s, k)' => s # r /\ Marking(s, k)
    BY <1>4, <1>5 DEF Marking
  <2>3. Guessing(k)' \subseteq Guessing(k)
    BY <1>4, <1>5 DEF Guessing
  <2>4. tickets'[k].attempts + Cardinality(Guessing(k)') < MaxAttempts + Cardinality(Requests)
    <3>1. old.attempts + Cardinality(Guessing(k)) < MaxAttempts + Cardinality(Requests)
      BY <2>1 DEF TicketSound
    <3> QED
      BY <1>3, <2>1, <2>3, <3>1, GuessingFalls, GuessingCounts, NumbersOfBounds
  <2>5. old.wins >= 1 => old.raced
    BY <1>2, <2>1 DEF TicketSound
  <2>6. \A s \in Requests : Marking(s, k)' => old.raced
    BY <1>2, <2>1, <2>2 DEF TicketSound
  <2> QED
    BY <1>3, <2>1, <2>4, <2>5, <2>6 DEF TicketSound
<1>8. TokensGrow /\ NoExchange /\ DOMAIN tokens' = DOMAIN tokens
  BY <1>2, <1>4, <1>5, NothingGrows DEF NoExchange
<1> QED
  BY <1>3, <1>6, <1>7, <1>8, ExchangesStaySound DEF Using

\* A token, a link or a code is asked for: nothing is counted at it yet.
LEMMA AskedUsing ==
  ASSUME Typed, Using,
         \/ \E u \in DOMAIN users : Forgot(u) \/ EmailVerifyRequest(u)
         \/ \E e \in Emails : MagicLinkRequest(e)
         \/ \E p \in Phones : OtpRequest(p)
  PROVE  Using'
<1>0. PICK n \in Nat : n = Len(tickets) + 1
  BY DEF Typed
<1>1. UNCHANGED <<reqs, tokens>> /\ \E kind, u : AddTicket(kind, u)
  BY DEF Forgot, EmailVerifyRequest, MagicLinkRequest, OtpRequest, FindOrCreate, AddTicket
<1>2. PICK new : /\ tickets' = Append(tickets, new)
                 /\ new.attempts = 0 /\ new.wins = 0
  BY <1>1 DEF AddTicket
<1>3. /\ DOMAIN tickets' = DOMAIN tickets \cup {n} /\ n \notin 0..Len(tickets)
      /\ \A k \in DOMAIN tickets : tickets'[k] = tickets[k]
      /\ tickets'[n] = new
  <2>1. tickets \in Seq(Ticket \cup {new}) /\ Len(tickets) \in Nat
    BY DEF Typed
  <2> QED
    BY <1>0, <1>2, <2>1, Appended
<1>4. ASSUME NEW k \in DOMAIN tickets
      PROVE  TicketSound(k)'
  BY <1>1, <1>3, TicketStaysSound
<1>5. TicketSound(n)'
  <2>1. \A r \in Requests : reqs'[r].ticket # n
    BY <1>1, <1>3 DEF Typed, TypeOK
  <2>2. Guessing(n)' = {}
    BY <2>1 DEF Guessing
  <2>3. Cardinality(Guessing(n)') = 0
    BY <2>2, FS_EmptySet
  <2>4. Cardinality(Requests) \in Nat
    BY GuessingCounts
  <2>5. tickets'[n].attempts + Cardinality(Guessing(n)') < MaxAttempts + Cardinality(Requests)
    BY <1>2, <1>3, <2>3, <2>4, NumbersOfBounds
  <2> QED
    BY <1>2, <1>3, <2>1, <2>5 DEF TicketSound, Marking
<1>6. TokensGrow /\ NoExchange /\ DOMAIN tokens' = DOMAIN tokens
  BY <1>1, NothingGrows DEF NoExchange
<1> QED
  BY <1>3, <1>4, <1>5, <1>6, ExchangesStaySound DEF Using

\* The end of a suspension leaves the use of one-time tokens sound.
LEMMA UnsuspendUsing ==
  ASSUME Typed, Using, NEW u \in DOMAIN users, Unsuspend(u)
  PROVE  Using'
<1>1. UNCHANGED <<tokens, tickets>>
  BY DEF Unsuspend
<1>2. TokensGrow
  BY <1>1, NothingGrows
<1>3. NoNews
  BY UnsuspendTyped DEF NoNews, Alike
<1> QED
  BY <1>1, <1>2, <1>3, UsingQuiet

\* Rows expire, are cleaned up, or go with their account.
LEMMA RowsUsing ==
  ASSUME Typed, Using, Expire \/ Cleanup \/ \E u \in DOMAIN users : DeleteUser(u)
  PROVE  Using'
<1>1. TokensGrow /\ DOMAIN tokens' = DOMAIN tokens
  BY ExpireTyped, DeleteTyped
<1>2. UNCHANGED reqs
  BY DEF Expire, Cleanup, DeleteUser
<1>3. DOMAIN tickets' = DOMAIN tickets
  BY DEF Expire, Cleanup, DeleteUser, Typed
<1>4. CountsStay
  <2> SUFFICES ASSUME NEW k \in DOMAIN tickets
               PROVE  /\ tickets'[k].wins = tickets[k].wins
                      /\ tickets'[k].attempts = tickets[k].attempts
                      /\ tickets[k].used => tickets'[k].used
                      /\ tickets[k].raced => tickets'[k].raced
    BY DEF CountsStay
  <2>1. tickets[k] \in Ticket
    BY DEF Typed
  <2>2. \/ tickets'[k] = tickets[k]
        \/ \E b : tickets'[k] = [tickets[k] EXCEPT !.here = b]
        \/ tickets'[k] = [tickets[k] EXCEPT !.expired = TRUE]
    BY DEF Expire, Cleanup, DeleteUser, Typed
  <2> QED
    BY <2>1, <2>2 DEF Ticket
<1>5. NoNews
  BY <1>2 DEF NoNews
<1> QED
  BY <1>1, <1>3, <1>4, <1>5, UsingStays

-----------------------------------------------------------------------------
\* No row is there yet.
THEOREM InitUsing == Init => Using
  BY DEF Init, Using

\* Every step keeps the counts of what is used up within their bounds.
THEOREM NextUsing == Typed /\ Using /\ [Next]_vars => Using'
<1> SUFFICES ASSUME Typed, Using, [Next]_vars
             PROVE  Using'
  OBVIOUS
<1>1. CASE UNCHANGED vars
  <2>1. UNCHANGED <<tokens, tickets>> /\ NoNews /\ TokensGrow
    BY <1>1, NothingGrows DEF vars, NoNews
  <2> QED
    BY <2>1, UsingQuiet
<1>2. ASSUME NEW r \in Requests,
             \/ \E n \in Names, e \in Emails \cup {None} : Signup(r, n, e)
             \/ Anonymous(r)
             \/ \E u \in DOMAIN users : Login(r, u) \/ SuspendUser(r, u) \/ RevokeSessions(r, u)
             \/ \E t \in DOMAIN tokens : Refresh(r, t) \/ Logout(r, t)
             \/ \E k \in DOMAIN tickets : Present(r, k) \/ OtpVerify(r, k)
             \/ \E s \in Subjects : OAuthGoogleCallback(r, s)
      PROVE  Using'
  BY <1>2, BeginsUsing, RefreshUsing, RedeemUsing
<1>3. ASSUME NEW r \in Requests,
             \/ FindUser(r) \/ RevokeToken(r) \/ Revoke(r) \/ Issue(r)
             \/ Attempt(r) \/ Mark(r) \/ SetVerified(r) \/ Password(r)
             \/ CreateOAuthUser(r) \/ CreateOAuthIdentity(r) \/ Refused(r)
             \/ Fail(r)
      PROVE  Using'
  BY <1>3, StatementsUsing, RevokeTokenUsing, EndMarkingUsing, IssueUsing, AttemptUsing, MarkUsing
<1>4. CASE \/ \E u \in DOMAIN users :
                Forgot(u) \/ EmailVerifyRequest(u) \/ Unsuspend(u) \/ DeleteUser(u)
           \/ \E e \in Emails : MagicLinkRequest(e)
           \/ \E p \in Phones : OtpRequest(p)
           \/ Expire \/ Cleanup
  BY <1>4, AskedUsing, UnsuspendUsing, RowsUsing
<1> QED
  BY <1>1, <1>2, <1>3, <1>4 DEF Next

\* A set of more than one element has two.
LEMMA TwoOf ==
  ASSUME NEW S, IsFiniteSet(S), Cardinality(S) > 1
  PROVE  \E c \in S : \E d \in S : c # d
<1>1. S # {}
  BY FS_EmptySet
<1>2. PICK c \in S : TRUE
  BY <1>1
<1>3. S # {c}
  BY FS_Singleton
<1> QED
  BY <1>2, <1>3

\* Sound use is what the property asks for.
LEMMA UsingUsedUp ==
  ASSUME Typed, Using
  PROVE  UsedUp
<1>1. ASSUME NEW t \in DOMAIN tokens,
             Cardinality({c \in DOMAIN tokens : tokens[c].parent = t}) > 1
      PROVE  tokens[t].raced
  <2> DEFINE S == {c \in DOMAIN tokens : tokens[c].parent = t}
  <2>1. IsFiniteSet(S)
    <3>1. IsFiniteSet(1..Len(tokens)) /\ S \subseteq 1..Len(tokens)
      <4>1. Len(tokens) \in Int /\ DOMAIN tokens = 1..Len(tokens)
        BY DEF Typed
      <4> QED
        BY <4>1, FS_Interval
    <3> QED
      BY <3>1, FS_Subset
  <2>2. PICK c \in S, d \in S : c # d
    BY <1>1, <2>1, TwoOf
  <2> QED
    BY <2>2 DEF Using, ExchangeSound
<1>2. \A k \in DOMAIN tickets : tickets[k].wins > 1 => tickets[k].raced
  BY DEF Using, TicketSound
<1>3. ASSUME NEW k \in DOMAIN tickets
      PROVE  tickets[k].attempts < MaxAttempts + Cardinality(Requests)
  <2>1. tickets[k].attempts + Cardinality(Guessing(k)) < MaxAttempts + Cardinality(Requests)
    BY DEF Using, TicketSound
  <2> QED
    BY <2>1, GuessingCounts, CountTypes, NumbersOfBounds
<1> QED
  BY <1>1, <1>2, <1>3 DEF UsedUp, UsedOnceUnlessRaced, GuessesBounded

\* A refresh token is exchanged twice, or a link or a code accepted twice, only
\* by requests that overlapped, and wrong guesses exceed the limit by the
\* requests in flight at most (handleRefresh, handleOtpVerify and the others).
THEOREM UsedUpAlways == Spec => []UsedUp
<1>1. Typed /\ Using => UsedUp
  BY UsingUsedUp
<1> QED
  BY <1>1, InitTyped, InitUsing, NextTyped, NextUsing, PTL DEF Spec
=============================================================================
