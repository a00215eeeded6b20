---------------------------- MODULE AuthSessions ----------------------------
(***************************************************************************)
(* The auth service: the handlers of auth/src/handlers.ts that create      *)
(* accounts, start, renew and end sessions and redeem single-use tokens,   *)
(* over the tables db.ts reads and writes, with the account operations of  *)
(* the admin service on the same tables.                                   *)
(*                                                                         *)
(* A request is a sequence of SQL statements with awaits between them, and *)
(* the statements of different requests interleave; reqs[r].pc is the next *)
(* statement of request r.  Reads that only lead to an answer are left     *)
(* out where the statement after them decides again (the unique indexes    *)
(* behind signup).  Tokens, codes and hashes are row numbers, a password   *)
(* is its version, and time only expires rows.                             *)
(***************************************************************************)
EXTENDS Integers, Sequences, FiniteSets

CONSTANTS Names, Emails, Phones,  \* usernames, addresses, numbers
          Subjects,               \* Google accounts
          EmailsOf,               \* EmailsOf[s]: what the email claim of s may be
          None,                   \* NULL
          Requests,               \* bound: requests in flight
          MaxAttempts,            \* otpMaxAttempts
          MaxPassword,            \* bound on password versions
          MaxUsers, MaxTokens, MaxTickets,  \* bounds on rows ever inserted
          MaxEvents               \* MaxEvents[k]: bound on events of kind k

ASSUME EmailsAssumption == EmailsOf \in [Subjects -> SUBSET (Emails \cup {None})]
ASSUME NoneAssumption == None \notin Names \cup Emails \cup Phones \cup Subjects
ASSUME RequestsAssumption == IsFiniteSet(Requests)
EventKinds == {"request", "fault"}
ASSUME LimitsAssumption ==
  /\ {MaxAttempts, MaxPassword, MaxUsers, MaxTokens, MaxTickets} \subseteq Nat \ {0}
  /\ MaxEvents \in [EventKinds -> Nat]

VARIABLES
  users,       \* auth.users, in order of insertion
  identities,  \* auth.oauth_identities: identities[s], 0 = no row
  tokens,      \* auth.refresh_tokens; a family is the number of its first token
  tickets,     \* reset, email verification and magic-link tokens, OTP codes
  reqs,        \* requests in flight
  events,      \* events[k]: events of kind k still to come, at most
  condemned    \* history: families whose end some request asked for

vars == <<users, identities, tokens, tickets, reqs, events, condemned>>

\* Of a request: blocked, its account was suspended ever since it began;
\* late, a session it mints may outlive a revocation it overlapped.
Idle == [pc |-> "idle", op |-> "none", user |-> 0, tok |-> 0, ticket |-> 0,
         pw |-> 0, sub |-> None, late |-> FALSE, blocked |-> FALSE]

Init ==
  /\ users = <<>>
  /\ identities = [s \in Subjects |-> 0]
  /\ tokens = <<>>
  /\ tickets = <<>>
  /\ reqs = [r \in Requests |-> Idle]
  /\ events = MaxEvents
  /\ condemned = {}

-----------------------------------------------------------------------------
UserRow(name, email, phone, pw, verified) ==
  [here |-> TRUE, name |-> name, email |-> email, phone |-> phone, pw |-> pw,
   verified |-> verified, suspended |-> FALSE]

Here == {u \in DOMAIN users : users[u].here}

\* A unique index of auth.users rejects the row.
Taken(row) ==
  \E u \in Here : \E key \in {"name", "email", "phone"} :
    row[key] # None /\ users[u][key] = row[key]

Active(u) == u \in Here /\ ~users[u].suspended

Live(t) == tokens[t].here /\ ~tokens[t].revoked
LiveTokens == {t \in DOMAIN tokens : Live(t)}

Event(k) == events[k] > 0 /\ events' = [events EXCEPT ![k] = @ - 1]

Begin(r, q) == Event("request") /\ reqs[r] = Idle /\ reqs' = [reqs EXCEPT ![r] = q]
Then(r, pc) == reqs' = [reqs EXCEPT ![r].pc = pc] /\ UNCHANGED events
End(r) == reqs' = [reqs EXCEPT ![r] = Idle] /\ UNCHANGED events

For(op, u, pc) ==
  [Idle EXCEPT !.op = op, !.user = u, !.pc = pc,
               !.blocked = (u \in DOMAIN users /\ users[u].suspended)]

-----------------------------------------------------------------------------
(* Sessions.                                                               *)

Signup(r, n, e) ==
  LET row == UserRow(n, e, None, 1, FALSE) IN
  /\ Len(users) < MaxUsers
  /\ ~Taken(row)
  /\ users' = Append(users, row)
  /\ Begin(r, [For("login", Len(users) + 1, "issue") EXCEPT !.pw = 1])
  /\ UNCHANGED <<identities, tokens, tickets, condemned>>

Anonymous(r) ==
  /\ Len(users) < MaxUsers
  /\ users' = Append(users, UserRow(None, None, None, 0, FALSE))
  /\ Begin(r, For("login", Len(users) + 1, "issue"))
  /\ UNCHANGED <<identities, tokens, tickets, condemned>>

\* The row read here is what the password is compared with, later.
Login(r, u) ==
  /\ u \in Here /\ users[u].name # None /\ users[u].pw # 0
  /\ ~users[u].suspended
  /\ Begin(r, [For("login", u, "issue") EXCEPT !.pw = users[u].pw])
  /\ UNCHANGED <<users, identities, tokens, tickets, condemned>>

InRefresh(r, t) == reqs[r].op = "refresh" /\ reqs[r].tok = t

Presented(op, t, pc) ==
  [For(op, tokens[t].user, pc) EXCEPT
     !.tok = t, !.pw = tokens[t].pw, !.sub = tokens[t].sub, !.late = tokens[t].exempt]

\* Mutant: a revoked token is refused, but its family lives on.
RefreshWithoutReuse(r, t) ==
  /\ tokens[t].here
  /\ \/ /\ tokens[t].revoked /\ reqs[r] = Idle /\ Event("request")
        /\ condemned' = condemned \cup {tokens[t].family}
        /\ UNCHANGED <<tokens, reqs>>
     \/ /\ Live(t) /\ ~tokens[t].expired
        /\ Begin(r, Presented("refresh", t, "findUser"))
        /\ tokens' = [tokens EXCEPT ![t].raced = @ \/ \E q \in Requests : InRefresh(q, t)]
        /\ UNCHANGED condemned
  /\ UNCHANGED <<users, identities, tickets>>

Refresh(r, t) ==
  /\ tokens[t].here
  /\ \/ /\ tokens[t].revoked
        /\ Begin(r, Presented("reuse", t, "killFamily"))
        /\ condemned' = condemned \cup {tokens[t].family}
        /\ UNCHANGED tokens
     \/ /\ Live(t) /\ tokens[t].expired
        /\ Begin(r, Presented("expiry", t, "revokeToken"))
        /\ UNCHANGED <<tokens, condemned>>
     \/ /\ Live(t) /\ ~tokens[t].expired
        /\ Begin(r, Presented("refresh", t, "findUser"))
        /\ tokens' = [tokens EXCEPT ![t].raced = @ \/ \E q \in Requests : InRefresh(q, t)]
        /\ UNCHANGED condemned
  /\ UNCHANGED <<users, identities, tickets>>

Logout(r, t) ==
  /\ tokens[t].here
  /\ Begin(r, Presented("logout", t, "killFamily"))
  /\ condemned' = condemned \cup {tokens[t].family}
  /\ UNCHANGED <<users, identities, tokens, tickets>>

FindUser(r) ==
  LET q == reqs[r] IN
  /\ q.pc = "findUser"
  /\ \/ /\ Active(q.user)
        /\ Then(r, CASE q.op = "refresh" -> "revokeToken"
                     [] q.op = "magic" /\ users[q.user].email # None
                                       /\ ~users[q.user].verified -> "setVerified"
                     [] OTHER -> "issue")
     \/ /\ ~Active(q.user) /\ q.op = "refresh"
        /\ Then(r, "killFamily")
     \/ /\ ~Active(q.user) /\ q.op # "refresh"
        /\ End(r)
  /\ UNCHANGED <<users, identities, tokens, tickets, condemned>>

\* Mutant: the presented token stays good.
KeepToken(r) ==
  /\ reqs[r].pc = "revokeToken"
  /\ IF reqs[r].op = "refresh" THEN Then(r, "issue") ELSE End(r)
  /\ UNCHANGED <<users, identities, tokens, tickets, condemned>>

RevokeToken(r) ==
  LET q == reqs[r] IN
  /\ q.pc = "revokeToken"
  /\ tokens' = [tokens EXCEPT ![q.tok].revoked = TRUE]
  /\ IF q.op = "refresh" THEN Then(r, "issue") ELSE End(r)
  /\ UNCHANGED <<users, identities, tickets, condemned>>

\* The tokens that the revocation request r has come to covers.
Scope(r) ==
  CASE reqs[r].pc = "killFamily" ->
         {t \in DOMAIN tokens : tokens[t].family = tokens[reqs[r].tok].family}
    [] reqs[r].pc = "revokeAll" -> {t \in DOMAIN tokens : tokens[t].user = reqs[r].user}
    [] OTHER -> {}

\* Requests past their first read that may yet mint a token in that scope.
Overlapping(r) ==
  {q \in Requests \ {r} :
     \/ reqs[q].op = "refresh" /\ reqs[q].tok \in Scope(r)
     \/ /\ reqs[q].op \in {"login", "magic", "otp", "google"}
        /\ reqs[r].pc = "revokeAll" /\ reqs[q].user = reqs[r].user}

EndMarking(r) ==
  reqs' = [q \in Requests |->
             IF q = r THEN Idle
             ELSE [reqs[q] EXCEPT !.late = @ \/ q \in Overlapping(r)]]

\* revokeRefreshFamily, revokeAllUserRefreshTokens, revokeUserSessions
Revoke(r) ==
  /\ reqs[r].pc \in {"killFamily", "revokeAll"}
  /\ tokens' = [t \in DOMAIN tokens |->
                  [tokens[t] EXCEPT !.revoked = @ \/ t \in Scope(r)]]
  /\ EndMarking(r)
  /\ UNCHANGED <<users, identities, tickets, events, condemned>>

\* The row of a deleted account violates the foreign key.
Issue(r) ==
  LET q == reqs[r]
      n == Len(tokens) + 1
  IN
  /\ q.pc = "issue"
  /\ n <= MaxTokens
  /\ tokens' = IF q.user \notin Here THEN tokens ELSE Append(tokens,
       [here |-> TRUE, user |-> q.user, revoked |-> FALSE, expired |-> FALSE,
        family |-> IF q.op = "refresh" THEN tokens[q.tok].family ELSE n,
        parent |-> q.tok, pw |-> q.pw, sub |-> q.sub, exempt |-> q.late,
        raced |-> FALSE])
  /\ End(r)
  /\ UNCHANGED <<users, identities, tickets, condemned>>

-----------------------------------------------------------------------------
(* Single-use tokens and codes.                                            *)

AddTicket(kind, u) ==
  /\ Event("request")
  /\ Len(tickets) < MaxTickets
  /\ tickets' = Append(tickets, [here |-> TRUE, kind |-> kind, user |-> u,
                                 used |-> FALSE, expired |-> FALSE, attempts |-> 0,
                                 wins |-> 0, raced |-> FALSE])
  /\ UNCHANGED <<identities, tokens, reqs, condemned>>

\* handlePasswordForgot
Forgot(u) ==
  /\ u \in Here /\ (users[u].name # None \/ users[u].email # None)
  /\ AddTicket("reset", u)
  /\ UNCHANGED users

EmailVerifyRequest(u) ==
  /\ u \in Here /\ users[u].email # None /\ ~users[u].verified
  /\ AddTicket("verify", u)
  /\ UNCHANGED users

\* createEmailUser and createPhoneUser: INSERT ... ON CONFLICT DO UPDATE.
FindOrCreate(kind, key, row) ==
  \/ \E u \in Here : /\ users[u][key] = row[key]
                     /\ AddTicket(kind, u)
                     /\ UNCHANGED users
  \/ /\ ~Taken(row)
     /\ Len(users) < MaxUsers
     /\ users' = Append(users, row)
     /\ AddTicket(kind, Len(users) + 1)

MagicLinkRequest(e) == FindOrCreate("magic", "email", UserRow(None, e, None, 0, FALSE))
OtpRequest(p) == FindOrCreate("otp", "phone", UserRow(None, None, p, 0, FALSE))

\* The row is found, unused and unexpired.
Redeemable(k) == tickets[k].here /\ ~tickets[k].used /\ ~tickets[k].expired

Redeem(r, k, pc) ==
  /\ Begin(r, [For(tickets[k].kind, tickets[k].user, pc) EXCEPT !.ticket = k])
  /\ tickets' = [tickets EXCEPT ![k].raced = @ \/
                   \E q \in Requests : reqs[q].ticket = k /\ reqs[q].pc = "mark"]
  /\ UNCHANGED <<users, identities, tokens, condemned>>

\* handlePasswordReset, handleEmailVerifyConfirm, handleMagicLinkVerify
Present(r, k) ==
  /\ tickets[k].kind # "otp"
  /\ Redeemable(k)
  /\ Redeem(r, k, "mark")

\* findLatestOtpByPhone
LatestOtp(k) ==
  /\ tickets[k].kind = "otp" /\ tickets[k].here /\ ~tickets[k].used
  /\ \A j \in DOMAIN tickets :
       (j > k /\ tickets[j].kind = "otp" /\ tickets[j].user = tickets[k].user)
         => ~tickets[j].here \/ tickets[j].used

OtpVerify(r, k) ==
  /\ LatestOtp(k)
  /\ Redeemable(k)
  /\ tickets[k].attempts < MaxAttempts
  /\ \E pc \in {"mark", "attempt"} : Redeem(r, k, pc)

Attempt(r) ==
  /\ reqs[r].pc = "attempt"
  /\ tickets' = [tickets EXCEPT ![reqs[r].ticket].attempts = @ + 1]
  /\ End(r)
  /\ UNCHANGED <<users, identities, tokens, condemned>>

Mark(r) ==
  LET k == reqs[r].ticket IN
  /\ reqs[r].pc = "mark"
  /\ tickets' = [tickets EXCEPT ![k].used = TRUE,
                                ![k].wins = IF @ < 2 THEN @ + 1 ELSE @]
  /\ Then(r, CASE tickets[k].kind = "reset" -> "password"
               [] tickets[k].kind = "verify" -> "setVerified"
               [] OTHER -> "findUser")
  /\ UNCHANGED <<users, identities, tokens, condemned>>

SetVerified(r) ==
  /\ reqs[r].pc = "setVerified"
  /\ users' = [users EXCEPT ![reqs[r].user].verified = TRUE]
  /\ IF reqs[r].op = "magic" THEN Then(r, "issue") ELSE End(r)
  /\ UNCHANGED <<identities, tokens, tickets, condemned>>

\* updatePasswordHash; at the bound, the same password is chosen again.
Password(r) ==
  /\ reqs[r].pc = "password"
  /\ users' = [users EXCEPT ![reqs[r].user].pw = IF @ < MaxPassword THEN @ + 1 ELSE @]
  /\ Then(r, "revokeAll")
  /\ UNCHANGED <<identities, tokens, tickets, condemned>>

-----------------------------------------------------------------------------
(* Google sign-in, from the claims on.                                     *)

OAuthGoogleCallback(r, s) ==
  /\ Begin(r, [For("google", identities[s],
                   IF identities[s] = 0 THEN "createUser" ELSE "findUser")
               EXCEPT !.sub = s])
  /\ UNCHANGED <<users, identities, tokens, tickets, condemned>>

CreateOAuthUser(r) ==
  /\ reqs[r].pc = "createUser"
  /\ Len(users) < MaxUsers
  /\ \E email \in EmailsOf[reqs[r].sub], verified \in BOOLEAN :
       LET row == UserRow(None, email, None, 0, verified) IN
       \/ /\ Taken(row)
          /\ Then(r, "refused")
          /\ UNCHANGED users
       \/ /\ ~Taken(row)
          /\ users' = Append(users, row)
          /\ reqs' = [reqs EXCEPT ![r].user = Len(users) + 1, ![r].pc = "identity"]
          /\ UNCHANGED events
  /\ UNCHANGED <<identities, tokens, tickets, condemned>>

\* users_email_unique rejected the row: answered with a 500.
Refused(r) ==
  /\ reqs[r].pc = "refused"
  /\ End(r)
  /\ UNCHANGED <<users, identities, tokens, tickets, condemned>>

\* Mutant: INSERT ... ON CONFLICT DO UPDATE.
UpsertOAuthIdentity(r) ==
  /\ reqs[r].pc = "identity"
  /\ reqs[r].user \in Here
  /\ identities' = [identities EXCEPT ![reqs[r].sub] = reqs[r].user]
  /\ Then(r, "issue")
  /\ UNCHANGED <<users, tokens, tickets, condemned>>

\* A second first sign-in, or a deleted account, is rejected by the table.
CreateOAuthIdentity(r) ==
  LET s == reqs[r].sub IN
  /\ reqs[r].pc = "identity"
  /\ IF identities[s] = 0 /\ reqs[r].user \in Here
       THEN /\ identities' = [identities EXCEPT ![s] = reqs[r].user]
            /\ Then(r, "issue")
       ELSE /\ End(r)
            /\ UNCHANGED identities
  /\ UNCHANGED <<users, tokens, tickets, condemned>>

-----------------------------------------------------------------------------
(* The admin service, time, and failures.                                  *)

SuspendUser(r, u) ==
  /\ u \in Here /\ ~users[u].suspended
  /\ users' = [users EXCEPT ![u].suspended = TRUE]
  /\ Begin(r, [For("suspend", u, "revokeAll") EXCEPT !.blocked = FALSE])
  /\ UNCHANGED <<identities, tokens, tickets, condemned>>

Unsuspend(u) ==
  /\ Event("request")
  /\ u \in Here /\ users[u].suspended
  /\ users' = [users EXCEPT ![u].suspended = FALSE]
  /\ reqs' = [r \in Requests |-> [reqs[r] EXCEPT !.blocked = @ /\ reqs[r].user # u]]
  /\ UNCHANGED <<identities, tokens, tickets, condemned>>

RevokeSessions(r, u) ==
  /\ u \in Here
  /\ Begin(r, For("revoke", u, "revokeAll"))
  /\ UNCHANGED <<users, identities, tokens, tickets, condemned>>

\* DELETE FROM auth.users; every other table has ON DELETE CASCADE.
DeleteUser(u) ==
  /\ Event("request")
  /\ u \in Here
  /\ users' = [users EXCEPT ![u].here = FALSE]
  /\ identities' = [s \in Subjects |-> IF identities[s] = u THEN 0 ELSE identities[s]]
  /\ tokens' = [t \in DOMAIN tokens |->
                  [tokens[t] EXCEPT !.here = @ /\ tokens[t].user # u]]
  /\ tickets' = [k \in DOMAIN tickets |->
                   [tickets[k] EXCEPT !.here = @ /\ tickets[k].user # u]]
  /\ UNCHANGED <<reqs, condemned>>

Expire ==
  /\ Event("fault")
  /\ \/ \E t \in DOMAIN tokens :
          /\ tokens[t].here /\ ~tokens[t].expired
          /\ tokens' = [tokens EXCEPT ![t].expired = TRUE]
          /\ UNCHANGED tickets
     \/ \E k \in DOMAIN tickets :
          /\ tickets[k].here /\ ~tickets[k].expired
          /\ tickets' = [tickets EXCEPT ![k].expired = TRUE]
          /\ UNCHANGED tokens
  /\ UNCHANGED <<users, identities, reqs, condemned>>

\* auth.cleanup_expired_tokens(): expired rows, used tickets, and the tokens
\* `old` revoked a week ago.
Cleanup ==
  /\ \E old \in SUBSET {t \in DOMAIN tokens : tokens[t].revoked} :
       tokens' = [t \in DOMAIN tokens |->
                    [tokens[t] EXCEPT !.here = @ /\ ~tokens[t].expired /\ t \notin old]]
  /\ tickets' = [k \in DOMAIN tickets |->
                   [tickets[k] EXCEPT !.here = @ /\ Redeemable(k)]]
  /\ UNCHANGED <<users, identities, reqs, events, condemned>>

\* The next statement throws, or the process stops before it.
Fail(r) ==
  /\ Event("fault")
  /\ reqs[r] # Idle
  /\ tokens' = [t \in DOMAIN tokens |->
                  [tokens[t] EXCEPT !.exempt = @ \/ (t \in Scope(r) /\ Live(t))]]
  /\ EndMarking(r)
  /\ UNCHANGED <<users, identities, tickets, condemned>>

Next ==
  \/ \E r \in Requests :
       \/ \E n \in Names, e \in Emails \cup {None} : Signup(r, n, e)
       \/ Anonymous(r)
       \/ \E u \in DOMAIN users : Login(r, u) \/ SuspendUser(r, u) \/ RevokeSessions(r, u)
       \/ \E t \in DOMAIN tokens : Refresh(r, t) \/ Logout(r, t)
       \/ \E k \in DOMAIN tickets : Present(r, k) \/ OtpVerify(r, k)
       \/ \E s \in Subjects : OAuthGoogleCallback(r, s)
       \/ FindUser(r) \/ RevokeToken(r) \/ Revoke(r) \/ Issue(r)
       \/ Attempt(r) \/ Mark(r) \/ SetVerified(r) \/ Password(r)
       \/ CreateOAuthUser(r) \/ CreateOAuthIdentity(r) \/ Refused(r)
       \/ Fail(r)
  \/ \E u \in DOMAIN users :
       Forgot(u) \/ EmailVerifyRequest(u) \/ Unsuspend(u) \/ DeleteUser(u)
  \/ \E e \in Emails : MagicLinkRequest(e)
  \/ \E p \in Phones : OtpRequest(p)
  \/ Expire
  \/ Cleanup

Spec == Init /\ [][Next]_vars

-----------------------------------------------------------------------------
(* Properties.                                                             *)

\* Rows keep their columns' types and refer to rows that were inserted.
TypeOK ==
  /\ Len(users) <= MaxUsers /\ Len(tokens) <= MaxTokens /\ Len(tickets) <= MaxTickets
  /\ identities \in [Subjects -> 0..Len(users)]
  /\ \A t \in DOMAIN tokens : /\ tokens[t].user \in DOMAIN users
                              /\ tokens[t].family \in 1..t
                              /\ tokens[t].parent \in 0..(t - 1)
                              /\ tokens[t].here => tokens[t].user \in Here
  /\ \A k \in DOMAIN tickets : tickets[k].here => tickets[k].user \in Here
  /\ \A r \in Requests : /\ reqs[r].user \in 0..Len(users)
                         /\ reqs[r].tok \in 0..Len(tokens)
                         /\ reqs[r].ticket \in 0..Len(tickets)
  /\ condemned \subseteq DOMAIN tokens

\* A family that was logged out, or one of whose revoked tokens was presented
\* again, has no usable token left, however requests interleave, once the
\* request that condemned it has ended; except for a rotation that overlapped
\* the revocation, or a revocation that failed (handleRefresh, handleLogout).
CondemnedFamiliesEnd ==
  \A t \in LiveTokens : tokens[t].family \in condemned =>
    \/ tokens[t].exempt
    \/ \E r \in Requests : reqs[r].pc = "killFamily" /\ t \in Scope(r)

\* A session that was started with a password which has been reset since, or
\* renewed from one, is over when the reset has answered, with the same two
\* exceptions (handlePasswordReset: "revoke ALL of the user's refresh tokens").
ResetEndsSessions ==
  \A t \in LiveTokens : (tokens[t].pw # 0 /\ tokens[t].pw < users[tokens[t].user].pw) =>
    \/ tokens[t].exempt
    \/ \E r \in Requests : reqs[r].op = "reset" /\ reqs[r].pc = "revokeAll" /\ t \in Scope(r)

\* A suspended account has no usable session once the suspension has
\* answered, with the same two exceptions (handleSuspendUser).
SuspensionEndsSessions ==
  \A t \in LiveTokens : users[tokens[t].user].suspended =>
    \/ tokens[t].exempt
    \/ \E r \in Requests : reqs[r].op = "suspend" /\ reqs[r].pc = "revokeAll" /\ t \in Scope(r)

\* A request that began while its account was suspended, and ran on while it
\* stayed so, never comes to issue a token, whatever way of signing in it is
\* (isSuspended and its callers).
NoTokenWhileSuspended ==
  \A r \in Requests : reqs[r].pc = "issue" => ~reqs[r].blocked

\* Log-out, reuse, reset and suspension each end the sessions they are meant
\* to end, and suspension starts none (handlers.ts of auth and admin).
RevocationsTake == /\ TypeOK /\ CondemnedFamiliesEnd /\ ResetEndsSessions
                   /\ SuspensionEndsSessions /\ NoTokenWhileSuspended

\* A refresh token is exchanged for two successors, or a single-use token or
\* code accepted twice, only if two requests overlapped between the read of
\* the row and its UPDATE (revoked_at, used_at).
UsedOnceUnlessRaced ==
  /\ \A t \in DOMAIN tokens :
       Cardinality({c \in DOMAIN tokens : tokens[c].parent = t}) > 1 => tokens[t].raced
  /\ \A k \in DOMAIN tickets : tickets[k].wins > 1 => tickets[k].raced

\* Wrong guesses at a code exceed the limit by the requests in flight at most
\* (handleOtpVerify reads the counter and increments it in two statements).
GuessesBounded ==
  \A k \in DOMAIN tickets : tickets[k].attempts < MaxAttempts + Cardinality(Requests)

\* Tokens, links and codes are used up, by success or by guesses, except for
\* the requests that overlapped.
UsedUp == UsedOnceUnlessRaced /\ GuessesBounded

\* All sessions of a Google account belong to one user, also when its first
\* sign-ins run at the same time (handleOAuthGoogleCallback).
OneAccountPerIdentity ==
  \A t \in LiveTokens : tokens[t].sub # None => tokens[t].user = identities[tokens[t].sub]

=============================================================================
