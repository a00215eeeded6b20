--------------------------- MODULE RealtimeClient ---------------------------
(***************************************************************************)
(* RealtimeClient and RealtimeChannel of the browser library               *)
(* (client/src/realtime.ts) composed with the realtime server: one client  *)
(* object, the WebSockets it opens, the server of RealtimeHub at their     *)
(* other end, and one peer that comes and goes on the channels.  An event  *)
(* handler of the library, or one call of the application, is one action.  *)
(*                                                                         *)
(* The delay of the reconnect timer and the flag connecting, which is set  *)
(* only while ws is, are left out; the application holds one channel       *)
(* object per name.                                                        *)
(***************************************************************************)
EXTENDS RealtimeHub

CONSTANTS Peer, NoSocket,
          Tokens,       \* what getToken() may return: "none", "good", "bad"
          AppCalls,     \* calls the application makes,
          OfflineCalls, \* those it also makes while the socket is not ready,
          PendingCalls, \* and those it also makes while a reconnect is pending
          MaxCalls, MaxLosses   \* bounds on calls, and token changes, and on lost connections

Own == Socket \ {Peer}

ASSUME PeerAssumption == Peer \in Socket /\ Own \subseteq Nat /\ NoSocket \notin Socket
ASSUME TokensAssumption == Tokens \subseteq {"none", "good", "bad"} /\ Tokens # {}
ASSUME BudgetAssumption == MaxCalls \in Nat /\ MaxLosses \in Nat

VARIABLES
  cur,       \* this.ws
  rs,        \* rs[s]: "connecting", "open", or "none" once torn down or closed
  urlToken,  \* urlToken[s]: the token connect() put in the URL of s
  channels,  \* this.channels
  active,    \* channels whose flag subscribed is set
  outbox,
  authedC,   \* this.authed
  closedByUser,
  timer,     \* a reconnect timer is armed
  last,      \* last[ch]: lastPresences
  up,        \* up[s]: messages sent on s that the server has not received
  token, calls, losses

lib == <<cur, rs, urlToken, channels, active, outbox, authedC, closedByUser, timer, last>>
env == <<token, calls, losses>>
allVars == <<vars, lib, up, env>>

InitClient ==
  /\ Init
  /\ cur = NoSocket
  /\ rs = [s \in Own |-> "none"]
  /\ urlToken = [s \in Own |-> "none"]
  /\ channels = {} /\ active = {}
  /\ outbox = <<>>
  /\ authedC = FALSE /\ closedByUser = FALSE /\ timer = FALSE
  /\ last = [ch \in Channel |-> {}]
  /\ up = [s \in Own |-> <<>>]
  /\ token \in Tokens
  /\ calls = MaxCalls /\ losses = MaxLosses

-----------------------------------------------------------------------------
Msg(type, ch) == [type |-> type, channel |-> ch]
SubscribeMsg(ch) == [type |-> "subscribe", channel |-> ch, event |-> "*", filter |-> NoFilter]
TrackMsg(ch, state) == [type |-> "presence_track", channel |-> ch, state |-> state]
AuthMsg == [type |-> "auth", valid |-> token = "good"]

\* A WebSocket object that is not in use at either end.
Fresh(s) == s \in Own /\ rs[s] = "none" /\ ws[s] \in {"new", "closed"}

\* connect(): whatever this.ws was, it is now a new socket.
connect ==
  \E s \in Own :
    /\ Fresh(s) /\ \A t \in Own : t < s => ~Fresh(t)
    /\ cur' = s
    /\ rs' = [rs EXCEPT ![s] = "connecting"]
    /\ urlToken' = [urlToken EXCEPT ![s] = token]
    /\ authedC' = FALSE
    /\ ws' = [ws EXCEPT ![s] = "new"]
    /\ authed' = [authed EXCEPT ![s] = FALSE]
    /\ wire' = [wire EXCEPT ![s] = <<>>]
    /\ up' = [up EXCEPT ![s] = <<>>]
    /\ seen' = [seen EXCEPT ![s] = [ch \in Channel |-> [on |-> FALSE, roster |-> {}]]]
    /\ UNCHANGED <<grace, hub>>

Ready == cur # NoSocket /\ authedC /\ rs[cur] = "open"

\* send(): on the socket, or into the outbox unless it is a subscribe.
Queue(m) == outbox' = IF m.type = "subscribe" THEN outbox ELSE Append(outbox, m)
Send(m) ==
  IF Ready THEN up' = [up EXCEPT ![cur] = Append(@, m)] /\ UNCHANGED outbox
  ELSE Queue(m) /\ UNCHANGED up

\* Mutant: it connects whatever this.ws is.
ConnectAnyway(m) == closedByUser' = FALSE /\ connect /\ Queue(m)

\* ensureConnected(), then send().
ConnectAndSend(m) ==
  /\ closedByUser' = FALSE
  /\ IF cur = NoSocket THEN connect /\ Queue(m)
     ELSE Send(m) /\ UNCHANGED <<cur, rs, urlToken, authedC, conn, hub, wire, seen>>

\* Mutant: a reconnect only drains the outbox.
FlushOutboxOnly(u) ==
  /\ up' = [u EXCEPT ![cur] = @ \o outbox]
  /\ outbox' = <<>>

\* flushAfterAuth(), once this.ws is open: re-subscribe, then drain the outbox.
Flush(u) ==
  /\ \E order \in SetToSeqs(channels \cap active) :
       up' = [u EXCEPT ![cur] = @ \o [i \in DOMAIN order |-> SubscribeMsg(order[i])]
                                  \o outbox]
  /\ outbox' = <<>>

-----------------------------------------------------------------------------
(***************************************************************************)
(* The application.                                                        *)
(***************************************************************************)
Call(kind) ==
  /\ kind \in AppCalls /\ calls > 0
  /\ calls' = calls - 1
  /\ Ready \/ kind \in OfflineCalls
  /\ timer => kind \in PendingCalls
  /\ UNCHANGED <<token, losses>>

\* channel(): a channel object the map does not know is a new one.
CallChannel(ch) ==
  /\ Call("channel") /\ ch \notin channels
  /\ channels' = channels \cup {ch}
  /\ active' = active \ {ch}
  /\ last' = [last EXCEPT ![ch] = {}]
  /\ UNCHANGED <<vars, cur, rs, urlToken, outbox, authedC, closedByUser, timer, up>>

CallSubscribe(ch) ==
  /\ Call("subscribe")
  /\ active' = active \cup {ch}
  /\ channels' = channels \cup {ch}
  /\ ConnectAndSend(SubscribeMsg(ch))
  /\ UNCHANGED <<timer, last>>

CallUnsubscribe(ch) ==
  /\ Call("unsubscribe")
  /\ active' = active \ {ch}
  /\ channels' = channels \ {ch}
  /\ Send(Msg("unsubscribe", ch))
  /\ UNCHANGED <<vars, cur, rs, urlToken, authedC, closedByUser, timer, last>>

CallTrack(ch) ==
  /\ Call("track")
  /\ \E state \in PStates : ConnectAndSend(TrackMsg(ch, state))
  /\ UNCHANGED <<channels, active, timer, last>>

CallUntrack(ch) ==
  /\ Call("untrack")
  /\ Send(Msg("presence_untrack", ch))
  /\ UNCHANGED <<vars, cur, rs, urlToken, channels, active, authedC, closedByUser, timer, last>>

\* teardownSocket() closes this.ws, and no other socket.
TornDown(r) == IF cur = NoSocket THEN r ELSE [r EXCEPT ![cur] = "none"]

CallDisconnect ==
  /\ Call("disconnect")
  /\ closedByUser' = TRUE
  /\ timer' = FALSE
  /\ channels' = {}
  /\ rs' = TornDown(rs)
  /\ cur' = NoSocket
  /\ authedC' = FALSE
  /\ UNCHANGED <<vars, urlToken, active, outbox, last, up>>

\* The user signs in or out, or the access token expires or is refreshed.
TokenChanges ==
  /\ calls > 0 /\ calls' = calls - 1
  /\ token' \in Tokens \ {token}
  /\ UNCHANGED <<vars, lib, up, losses>>

-----------------------------------------------------------------------------
(***************************************************************************)
(* Socket events in the browser.                                           *)
(***************************************************************************)
\* onopen of s, which may no longer be this.ws.
OnOpen(s) ==
  LET u == IF urlToken[s] = "none" /\ token # "none"
           THEN [up EXCEPT ![s] = Append(@, AuthMsg)] ELSE up
      a == authedC \/ urlToken[s] # "none"
  IN /\ rs[s] = "connecting" /\ ws[s] # "new"
     /\ rs' = [rs EXCEPT ![s] = "open"]
     /\ authedC' = a
     /\ IF a /\ cur # NoSocket /\ (cur = s \/ rs[cur] = "open") THEN Flush(u)
        ELSE up' = u /\ UNCHANGED outbox
     /\ UNCHANGED <<vars, cur, urlToken, channels, active, closedByUser, timer, last, env>>

_emitPresence(f) ==
  last' = IF f.channel \in channels THEN [last EXCEPT ![f.channel] = f.presences] ELSE last

\* onmessage of s: handleFrame().
OnMessage(s) ==
  /\ rs[s] = "open"
  /\ Read(s)
  /\ LET f == Head(wire[s]) IN
     /\ authedC' = (authedC \/ f.type = "authenticated")
     /\ IF f.type = "authenticated" /\ cur # NoSocket /\ rs[cur] = "open" THEN Flush(up)
        ELSE UNCHANGED <<up, outbox>>
     /\ IF f.type = "presence" THEN _emitPresence(f) ELSE UNCHANGED last
  /\ UNCHANGED <<cur, rs, urlToken, channels, active, closedByUser, timer, env>>

\* Mutant: no reconnect is scheduled.
NoReconnect == UNCHANGED timer

\* scheduleReconnect(): one timer at a time.
scheduleReconnect == timer' = (timer \/ ~closedByUser)

\* teardownSocket() on the close of s: this.ws goes, and s is closed anyway.
teardownSocket(s) ==
  /\ rs' = [TornDown(rs) EXCEPT ![s] = "none"]
  /\ authedC' = FALSE
  /\ cur' = NoSocket

\* onclose of s: the server closed it, or the connection is lost.
OnSocketClose(s) ==
  /\ rs[s] # "none"
  /\ \/ ws[s] \in {"closing", "closed"} /\ rs[s] = "open" /\ wire[s] = <<>> /\ UNCHANGED losses
     \/ losses > 0 /\ losses' = losses - 1
  /\ teardownSocket(s)
  /\ scheduleReconnect
  /\ UNCHANGED <<vars, urlToken, channels, active, outbox, closedByUser, last, up,
                 token, calls>>

\* The reconnect timer fires; connect() does not look at this.ws.
TimerFires ==
  /\ timer
  /\ timer' = FALSE
  /\ IF channels # {} THEN connect
     ELSE UNCHANGED <<vars, cur, rs, urlToken, authedC, up>>
  /\ UNCHANGED <<channels, active, outbox, closedByUser, last, env>>

-----------------------------------------------------------------------------
(***************************************************************************)
(* The server's end of the sockets, and the peer.                          *)
(***************************************************************************)
ServerConnect(s) ==
  /\ rs[s] = "connecting"
  /\ Connect(s, urlToken[s])
  /\ UNCHANGED <<lib, up, env>>

ServerReceive(s) ==
  /\ up[s] # <<>> /\ Room
  /\ LET m == Head(up[s]) IN
     IF m.type # "auth" THEN Receive(s, m)
     ELSE IF authed[s] THEN Connected(s) /\ UNCHANGED vars
     ELSE AuthMessage(s, m.valid)
  /\ up' = [up EXCEPT ![s] = Tail(@)]
  /\ UNCHANGED <<lib, env>>

\* The grace timer, or a peer's connection: the server alone.
ServerGrace(s) == GraceExpires(s) /\ UNCHANGED <<lib, up, env>>

\* The server notices that the browser has gone; what it had sent before a
\* close() arrives first, what a lost connection carried may not.
ServerClose(s) ==
  /\ rs[s] = "none"
  /\ OnClose(s)
  /\ up' = [up EXCEPT ![s] = <<>>]
  /\ UNCHANGED <<lib, env>>

\* Frames for a browser that has gone are lost.
Discard(s) ==
  /\ rs[s] = "none" /\ wire[s] # <<>>
  /\ wire' = [wire EXCEPT ![s] = <<>>]
  /\ UNCHANGED <<conn, hub, seen, lib, up, env>>

PeerStep ==
  /\ \/ Connect(Peer, "good")
     \/ \E ch \in Channel, state \in PStates : Room /\ Receive(Peer, TrackMsg(ch, state))
     \/ \E ch \in Channel : Room /\ Receive(Peer, Msg("presence_untrack", ch))
     \/ OnClose(Peer)
  /\ UNCHANGED <<lib, up, env>>

ServerStep(s) == \/ ServerConnect(s) \/ ServerReceive(s) \/ ServerGrace(s)
                 \/ ServerClose(s) \/ Discard(s)
BrowserStep(s) == OnOpen(s) \/ OnMessage(s) \/ OnSocketClose(s)

NextClient ==
  \/ \E ch \in Channel : \/ CallChannel(ch) \/ CallSubscribe(ch) \/ CallUnsubscribe(ch)
                         \/ CallTrack(ch) \/ CallUntrack(ch)
  \/ CallDisconnect \/ TokenChanges \/ TimerFires \/ PeerStep
  \/ \E s \in Own : ServerStep(s) \/ BrowserStep(s)

SpecClient == InitClient /\ [][NextClient]_allVars

(***************************************************************************)
(* Timers fire, the network delivers what it does not lose, the server     *)
(* works and notices a browser that has gone.  Application, user and peer  *)
(* owe nothing.                                                            *)
(***************************************************************************)
FairSpecClient ==
  /\ SpecClient
  /\ WF_allVars(TimerFires)
  /\ \A s \in Own :
       /\ WF_allVars(OnOpen(s)) /\ WF_allVars(OnMessage(s))
       /\ WF_allVars(OnSocketClose(s) /\ losses' = losses)
       /\ WF_allVars(ServerConnect(s)) /\ SF_allVars(ServerReceive(s))
       /\ WF_allVars(ServerGrace(s)) /\ WF_allVars(ServerClose(s)) /\ WF_allVars(Discard(s))

-----------------------------------------------------------------------------
\* The server's state and the library's fields have their types, and this.ws
\* is a socket that is not torn down.
TypeOKClient ==
  /\ TypeOK
  /\ cur \in Own \cup {NoSocket}
  /\ rs \in [Own -> {"none", "connecting", "open"}]
  /\ cur # NoSocket => rs[cur] # "none"
  /\ channels \subseteq Channel /\ active \subseteq Channel
  /\ {authedC, closedByUser, timer} \subseteq BOOLEAN
  /\ \A i \in DOMAIN outbox : outbox[i].type # "subscribe"

\* The shared socket is open, everything sent on it has been handled, and the
\* server has authenticated it.
Settled == Ready /\ authed[cur] /\ cur \in clients /\ outbox = <<>> /\ up[cur] = <<>>

\* flushAfterAuth: "Re-subscribe every active channel (covers reconnects)".
\* Once the connection has settled, the server serves it exactly the channels
\* the application has subscribed.
ActiveIsServed == Settled => DOMAIN subs[cur] = channels \cap active

\* presenceState() of an active channel is the server's roster once every
\* frame has been read, across losses and reconnects.
RosterShown ==
  Settled /\ (\A s \in Own : wire[s] = <<>>) =>
    \A ch \in channels \cap active : last[ch] = snapshot(presence, ch)

\* After sign-in, losses and reconnects the two ends agree (flushAfterAuth,
\* _emitPresence): on the channels served and on who is there.
EndsAgree == TypeOKClient /\ ActiveIsServed /\ RosterShown

\* realtime.ts: "A single shared socket is multiplexed across all channels".
SingleSocket == Cardinality({s \in Own : rs[s] # "none"}) <= 1

\* send(): "Queue until the socket is open + authenticated".  Nothing but an
\* auth message is ever sent on a socket the server has not authenticated,
\* unless the auth message is ahead of it.
SentOnceAuthenticated ==
  \A s \in Own : rs[s] = "open" /\ ~authed[s] =>
    \A i \in DOMAIN up[s] : up[s][i].type # "auth" =>
      \E j \in 1..(i - 1) : up[s][j].type = "auth"

\* The library keeps to one socket and to the protocol's first message
\* (ensureConnected, send).
SocketDiscipline == SingleSocket /\ SentOnceAuthenticated

\* An active channel of a signed-in user is served in the end, whatever was
\* lost on the way.
EventuallyServed ==
  \A ch \in Channel :
    (ch \in channels \cap active) ~>
      \/ ch \notin channels \cap active \/ token # "good"
      \/ cur # NoSocket /\ cur \in clients /\ ch \in DOMAIN subs[cur]
=============================================================================
