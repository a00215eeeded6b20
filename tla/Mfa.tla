-------------------------------- MODULE Mfa --------------------------------
(***************************************************************************)
(* TOTP factors in the auth service: the handlers of /factors              *)
(* (auth/src/handlers.ts), the statements they run (auth/src/db.ts), the   *)
(* tables and the clean-up job of db/migrations/0016_mfa_totp.sql, and the *)
(* two operations of the admin service that remove factors.  A handler     *)
(* awaits one statement after another, so a call is a thread with a phase. *)
(*                                                                         *)
(* The clock counts TOTP steps (30 s).  A code is the step it was computed *)
(* for; a code of another secret is a code of a step out of range.         *)
(* GET /factors changes nothing and is left out.                           *)
(***************************************************************************)
EXTENDS Integers, FiniteSets

CONSTANTS Accounts,      \* users of auth.users
          Factors,       \* ids that auth.mfa_factors may hand out
          Challenges,    \* ids that auth.mfa_challenges may hand out
          Slots,         \* /factors requests handled at once
          NoOne,         \* no account, factor or challenge
          Window,        \* WINDOW: steps of drift that verifyTotp tolerates
          ChallengeTTL,  \* mfaChallengeExpiry, in steps
          FactorAge,     \* clean-up age of an unverified factor, in steps
          MaxTime        \* bound on the clock

ASSUME MfaAssumption ==
  /\ NoOne \notin Accounts \cup Factors \cup Challenges
  /\ Window \in Nat /\ ChallengeTTL \in Nat /\ FactorAge \in Nat /\ MaxTime \in Nat

VARIABLES
  accounts,   \* rows of auth.users
  factor,     \* [Factors -> row]; state "none" before the INSERT, "gone" after
  challenge,  \* [Challenges -> row]
  slot,       \* [Slots -> call under way]
  now,        \* the clock, in steps
  accepted,   \* history: [Challenges -> calls that it verified]
  overlapped, \* history: challenges checked again while one was being marked
  misled      \* history: 'verified' was answered for a factor that is not

mfaVars == <<accounts, factor, challenge, slot, now, accepted, overlapped, misled>>

NoFactor == [state |-> "none", owner |-> NoOne, stale |-> 0]
NoChallenge == [state |-> "none", factor |-> NoOne, expires |-> 0]
Free == [phase |-> "free", op |-> "none", user |-> NoOne, factor |-> NoOne,
         challenge |-> NoOne, code |-> 0, pending |-> FALSE]

InitMfa ==
  /\ accounts = Accounts
  /\ factor = [f \in Factors |-> NoFactor]
  /\ challenge = [c \in Challenges |-> NoChallenge]
  /\ slot = [s \in Slots |-> Free]
  /\ now = 0
  /\ accepted = [c \in Challenges |-> 0]
  /\ overlapped = {}
  /\ misled = FALSE

Stored(f) == factor[f].state \in {"unverified", "verified"}
Lives(c) == challenge[c].state \in {"open", "verified"}
At(s, phase, op) == slot[s].phase = phase /\ slot[s].op = op
Answer(s) == slot' = [slot EXCEPT ![s] = Free]

\* deleteMfaFactor and the ON DELETE CASCADE of its challenges.
DeleteFactors(F) ==
  /\ factor' = [f \in Factors |->
       IF f \in F THEN [factor[f] EXCEPT !.state = "gone"] ELSE factor[f]]
  /\ challenge' = [c \in Challenges |->
       IF challenge[c].factor \in F /\ Lives(c)
         THEN [challenge[c] EXCEPT !.state = "gone"] ELSE challenge[c]]

----------------------------------------------------------------------------
(* The calls.  The first statement of each is authenticate's findById; an   *)
(* access token may also have expired on the way.                          *)

Receive(s, op, user, f, c, code) ==
  /\ slot[s] = Free
  /\ slot' = [slot EXCEPT ![s] =
       [Free EXCEPT !.phase = "sent", !.op = op, !.user = user,
                    !.factor = f, !.challenge = c, !.code = code]]
  /\ UNCHANGED <<accounts, factor, challenge, now, accepted, overlapped, misled>>

authenticate(s) ==
  /\ slot[s].phase = "sent"
  /\ slot[s].user \in accounts
  /\ slot' = [slot EXCEPT ![s].phase = "user"]
  /\ UNCHANGED <<accounts, factor, challenge, now, accepted, overlapped, misled>>

Unauthorized(s) ==
  /\ slot[s].phase = "sent"
  /\ Answer(s)
  /\ UNCHANGED <<accounts, factor, challenge, now, accepted, overlapped, misled>>

\* createMfaFactor, or the 500 of a foreign key without its user.
handleMfaEnroll(s, f) ==
  /\ At(s, "user", "enroll")
  /\ factor[f] = NoFactor
  /\ Answer(s)
  /\ factor' = IF slot[s].user \in accounts
                 THEN [factor EXCEPT ![f] = [state |-> "unverified",
                         owner |-> slot[s].user, stale |-> now + FactorAge]]
                 ELSE factor
  /\ UNCHANGED <<accounts, challenge, now, accepted, overlapped, misled>>

OwnsAny(s) == Stored(slot[s].factor)                                  \* mutant
Owns(s) == Stored(slot[s].factor) /\ factor[slot[s].factor].owner = slot[s].user

\* findMfaFactorById in the three calls that name a factor: the row is that
\* of the caller, and its status is kept for later; otherwise 404.
FindFactor(s) ==
  /\ slot[s].phase = "user" /\ slot[s].op # "enroll"
  /\ IF Owns(s)
       THEN slot' = [slot EXCEPT ![s].phase = "found",
              ![s].pending = factor[slot[s].factor].state = "unverified"]
       ELSE Answer(s)
  /\ UNCHANGED <<accounts, factor, challenge, now, accepted, overlapped, misled>>

\* createMfaChallenge, or the 500 of a foreign key without its factor.
handleMfaChallenge(s, c) ==
  /\ At(s, "found", "challenge")
  /\ challenge[c] = NoChallenge
  /\ Answer(s)
  /\ challenge' = IF Stored(slot[s].factor)
       THEN [challenge EXCEPT ![c] = [state |-> "open", factor |-> slot[s].factor,
                                      expires |-> now + ChallengeTTL]]
       ELSE challenge
  /\ UNCHANGED <<accounts, factor, now, accepted, overlapped, misled>>

handleMfaUnenroll(s) ==
  /\ At(s, "found", "unenroll")
  /\ Answer(s)
  /\ DeleteFactors({slot[s].factor})
  /\ UNCHANGED <<accounts, now, accepted, overlapped, misled>>

verifyTotp(code) == code - Window <= now /\ now <= code + Window

ChallengeExists(s) == Lives(slot[s].challenge)                        \* mutant
ChallengeStands(s) ==
  LET c == slot[s].challenge IN
  /\ challenge[c].state = "open"
  /\ challenge[c].factor = slot[s].factor
  /\ now <= challenge[c].expires

\* A challenge whose verification is already being marked by another call.
BeingMarked(s) ==
  \E o \in Slots \ {s} : slot[o].phase = "marking" /\ slot[o].challenge = slot[s].challenge

\* findMfaChallengeById and the checks that follow it without an await.
CheckCode(s) ==
  /\ At(s, "found", "verify")
  /\ IF ChallengeStands(s) /\ verifyTotp(slot[s].code)
       THEN /\ slot' = [slot EXCEPT ![s].phase = "marking"]
            /\ overlapped' = overlapped \cup
                 (IF BeingMarked(s) THEN {slot[s].challenge} ELSE {})
       ELSE Answer(s) /\ UNCHANGED overlapped
  /\ UNCHANGED <<accounts, factor, challenge, now, accepted, misled>>

\* What the caller of verify learns when it is told 'verified'.
Misleads(s) == factor'[slot[s].factor].state = "unverified"

markMfaChallengeVerified(s) ==
  LET c == slot[s].challenge IN
  /\ slot[s].phase = "marking"
  /\ challenge' = IF challenge[c].state = "open"
                    THEN [challenge EXCEPT ![c].state = "verified"] ELSE challenge
  /\ accepted' = [accepted EXCEPT ![c] = @ + 1]
  /\ UNCHANGED factor
  /\ IF slot[s].pending
       THEN slot' = [slot EXCEPT ![s].phase = "marked", ![s].challenge = NoOne, ![s].code = 0]
            /\ UNCHANGED misled
       ELSE Answer(s) /\ misled' = (misled \/ Misleads(s))
  /\ UNCHANGED <<accounts, now, overlapped>>

\* Only an unverified row is updated; one that is gone is not there.
markMfaFactorVerified(s) ==
  LET f == slot[s].factor IN
  /\ slot[s].phase = "marked"
  /\ factor' = IF factor[f].state = "unverified"
                 THEN [factor EXCEPT ![f].state = "verified", ![f].stale = 0] ELSE factor
  /\ Answer(s)
  /\ misled' = (misled \/ Misleads(s))
  /\ UNCHANGED <<accounts, challenge, now, accepted, overlapped>>

\* Any statement of a call fails: 500, what was done before it stands.
StatementFails(s) ==
  /\ slot[s].phase \in {"user", "found", "marking", "marked"}
  /\ Answer(s)
  /\ UNCHANGED <<accounts, factor, challenge, now, accepted, overlapped, misled>>

----------------------------------------------------------------------------
(* The admin service, the clean-up job and the clock.                      *)

OwnedBy(a) == {f \in Factors : factor[f].owner = a /\ Stored(f)}

handleResetMfa(a) ==
  /\ OwnedBy(a) # {}
  /\ DeleteFactors(OwnedBy(a))
  /\ UNCHANGED <<accounts, slot, now, accepted, overlapped, misled>>

handleDeleteAuthUser(a) ==
  /\ a \in accounts
  /\ accounts' = accounts \ {a}
  /\ DeleteFactors(OwnedBy(a))
  /\ UNCHANGED <<slot, now, accepted, overlapped, misled>>

StaleFactors == {f \in Factors : factor[f].state = "unverified" /\ factor[f].stale < now}
SpentChallenges ==
  {c \in Challenges : Lives(c) /\ (challenge[c].expires < now \/ challenge[c].state = "verified")}

\* auth.cleanup_expired_tokens, its two statements on these tables.
CleanUp ==
  /\ StaleFactors # {} \/ SpentChallenges # {}
  /\ factor' = [f \in Factors |->
       IF f \in StaleFactors THEN [factor[f] EXCEPT !.state = "gone"] ELSE factor[f]]
  /\ challenge' = [c \in Challenges |->
       IF Lives(c) /\ (c \in SpentChallenges \/ challenge[c].factor \in StaleFactors)
         THEN [challenge[c] EXCEPT !.state = "gone"] ELSE challenge[c]]
  /\ UNCHANGED <<accounts, slot, now, accepted, overlapped, misled>>

\* Time matters to factors only: the clock starts with the first of them.
Tick ==
  /\ now < MaxTime
  /\ \E f \in Factors : factor[f] # NoFactor
  /\ now' = now + 1
  /\ UNCHANGED <<accounts, factor, challenge, slot, accepted, overlapped, misled>>

NextMfa ==
  \/ \E s \in Slots :
       \/ authenticate(s) \/ Unauthorized(s) \/ FindFactor(s)
       \/ \E f \in Factors : handleMfaEnroll(s, f)
       \/ \E c \in Challenges : handleMfaChallenge(s, c)
       \/ handleMfaUnenroll(s) \/ CheckCode(s) \/ StatementFails(s)
       \/ markMfaChallengeVerified(s) \/ markMfaFactorVerified(s)
  \/ \E a \in Accounts : handleResetMfa(a) \/ handleDeleteAuthUser(a)
  \/ CleanUp
  \/ Tick

----------------------------------------------------------------------------
(* Properties.                                                             *)

\* Rows of mfa_factors and mfa_challenges and requests have their types.
TypeOKMfa ==
  /\ accounts \subseteq Accounts
  /\ \A f \in Factors : factor[f].state \in {"none", "unverified", "verified", "gone"}
  /\ \A c \in Challenges : challenge[c].state \in {"none", "open", "verified", "gone"}
  /\ \A s \in Slots :
       /\ slot[s].phase \in {"free", "sent", "user", "found", "marking", "marked"}
       /\ slot[s].op \in {"none", "enroll", "challenge", "verify", "unenroll"}
  /\ now \in 0..MaxTime

\* A challenge is spent by one verification: it verifies a second time only
\* when two calls checked it before either had marked it (docs/MFA.md says
\* single use without that exception).
ChallengeSpentOnce ==
  \A c \in Challenges : accepted[c] > 1 => c \in overlapped

\* A factor is verified only by way of a challenge that was made for it.
VerifiedByChallenge ==
  \A f \in Factors : factor[f].state = "verified" =>
    \E c \in Challenges : accepted[c] > 0 /\ challenge[c].factor = f

\* No caller is told 'verified' about a factor that is still unverified,
\* although the handler decides from the status it read three awaits before.
VerifiedAnswersHold == ~misled

VerificationSound ==
  TypeOKMfa /\ ChallengeSpentOnce /\ VerifiedByChallenge /\ VerifiedAnswersHold
=============================================================================
