---------------------------- MODULE RealtimeHub -----------------------------
(***************************************************************************)
(* The realtime server: the Hub and its PresenceRegistry                   *)
(* (realtime/src/hub.ts) and the life of one WebSocket, onConnection() in  *)
(* realtime/src/server.ts.  Each handler runs to its end on node's one     *)
(* thread, so a handler is one action.  What it sends goes to the socket's *)
(* wire, and the browser reads the wire later, in order.                   *)
(*                                                                         *)
(* A JSON value is a pair <<kind, text>>, because the hub compares values  *)
(* across kinds (the number 5 equals the string "5").                      *)
(***************************************************************************)
EXTENDS Integers, FiniteSets, Sequences, SequencesExt, Functions

CONSTANTS Socket, Channel,
          Claims,        \* Claims[s]: sub and role of the token of socket s
          OwnerColumns,  \* config: owner columns, in order
          BroadcastSelf, \* config: echo a broadcast to its sender
          Notes,         \* notifications that the database may publish
          Events, PStates, \* what subscribers and trackers may ask for,
          Filters,       \* Filters[s]: and the filters socket s may ask for
          NoRow, NoFilter,
          MaxWire        \* bound on frames that wait on one wire

ASSUME ClaimsAssumption ==
  \A s \in Socket : Claims[s].sub \in STRING /\ Claims[s].role \in STRING
ASSUME SelfAssumption == BroadcastSelf \in BOOLEAN
ASSUME WireAssumption == MaxWire \in Nat

VARIABLES
  ws,       \* ws[s]: "new", "open", "closing" (close() called) or "closed"
  authed,   \* the flag authed of each onConnection()
  grace,    \* sockets whose grace timer is armed
  clients,  \* keys of Hub.clients
  subs,     \* subs[s]: channel -> [event, filter]
  presence, \* presence[ch]: socket -> [ref, sub, state]
  refs, nextRef,
  wire,     \* wire[s]: frames sent to s that its browser has not read
  seen      \* seen[s][ch]: what the frames already read say of channel ch

hub == <<clients, subs, presence, refs, nextRef>>
conn == <<ws, authed, grace>>
vars == <<ws, authed, grace, clients, subs, presence, refs, nextRef, wire, seen>>

Admins == {"service", "laetoli_admin"}
Empty == [x \in {} |-> x]
Nothing == [s \in Socket |-> <<>>]

Init ==
  /\ ws = [s \in Socket |-> "new"]
  /\ authed = [s \in Socket |-> FALSE]
  /\ grace = {}
  /\ clients = {}
  /\ subs = [s \in Socket |-> Empty]
  /\ presence = [ch \in Channel |-> Empty]
  /\ refs = Empty
  /\ nextRef = 1
  /\ wire = Nothing
  /\ seen = [s \in Socket |-> [ch \in Channel |-> [on |-> FALSE, roster |-> {}]]]

-----------------------------------------------------------------------------
(***************************************************************************)
(* Frames and wires.                                                       *)
(***************************************************************************)
Ack(kind, ch) == [type |-> kind, channel |-> ch]
Plain(kind) == [type |-> kind]
PresenceFrame(ch, event, roster) ==
  [type |-> "presence", channel |-> ch, event |-> event, presences |-> roster]
ChangeFrame(n) == [type |-> "change", channel |-> n.table, note |-> n]

\* send() to a socket that is no longer open is dropped.
Push(out) ==
  wire' = [s \in Socket |-> IF ws[s] = "open" THEN wire[s] \o out[s] ELSE wire[s]]

To(s, frames) == [Nothing EXCEPT ![s] = frames]
ToAll(S, frame) == [s \in Socket |-> IF s \in S THEN <<frame>> ELSE <<>>]
Then(out, more) == [s \in Socket |-> out[s] \o more[s]]

snapshot(p, ch) == {p[ch][s] : s \in DOMAIN p[ch]}
channelSubscribers(ch) == {s \in clients : ch \in DOMAIN subs[s]}

-----------------------------------------------------------------------------
(***************************************************************************)
(* Who may see a change.                                                   *)
(***************************************************************************)
Row(n) == IF n.record # NoRow THEN n.record ELSE n.old

ownerMatches(sub, v) == v[1] \in {"string", "number"} /\ v[2] = sub

OwnerColumnsOf(row) == {i \in DOMAIN OwnerColumns : OwnerColumns[i] \in DOMAIN row}

\* Mutant: a truncated row is sent as one without an owner column.
recipientsForOpen(n, S) ==
  {s \in S : \/ Row(n) = NoRow \/ n.truncated
             \/ OwnerColumnsOf(Row(n)) = {}
             \/ Claims[s].role \in Admins
             \/ \E i \in OwnerColumnsOf(Row(n)) :
                  /\ \A j \in OwnerColumnsOf(Row(n)) : i <= j
                  /\ ownerMatches(Claims[s].sub, Row(n)[OwnerColumns[i]])}

recipientsFor(n, S) ==
  {s \in S : \/ Claims[s].role \in Admins
             \/ ~n.truncated /\ (Row(n) = NoRow \/ OwnerColumnsOf(Row(n)) = {})
             \/ /\ ~n.truncated
                /\ Row(n) # NoRow
                /\ \E i \in OwnerColumnsOf(Row(n)) :
                     /\ \A j \in OwnerColumnsOf(Row(n)) : i <= j
                     /\ ownerMatches(Claims[s].sub, Row(n)[OwnerColumns[i]])}

valuesEqual(a, b) ==
  a = b \/ ({a[1], b[1]} \subseteq {"string", "number"} /\ a[2] = b[2])

matchesFilter(f, n) ==
  Row(n) # NoRow /\ f.column \in DOMAIN Row(n) /\ valuesEqual(Row(n)[f.column], f.value)

Wants(sub, n) == /\ sub.event \in {"*", n.type}
                 /\ sub.filter = NoFilter \/ matchesFilter(sub.filter, n)

\* dispatch(): a NOTIFY has been parsed.
Dispatch(n) ==
  /\ Push(ToAll({s \in recipientsFor(n, channelSubscribers(n.table)) :
                   Wants(subs[s][n.table], n)}, ChangeFrame(n)))
  /\ UNCHANGED <<conn, hub, seen>>

-----------------------------------------------------------------------------
(***************************************************************************)
(* Messages of a client.                                                   *)
(***************************************************************************)
Without(f, s) == Restrict(f, DOMAIN f \ {s})
With(f, s, v) == [x \in DOMAIN f \cup {s} |-> IF x = s THEN v ELSE f[x]]

subscribe(s, ch, event, filter) ==
  /\ subs' = [subs EXCEPT ![s] = With(@, ch, [event |-> event, filter |-> filter])]
  /\ Push(To(s, <<Ack("subscribed", ch),
                  PresenceFrame(ch, "sync", snapshot(presence, ch))>>))
  /\ UNCHANGED <<clients, presence, refs, nextRef>>

\* untrack() and, if there was an entry, the announcement to the subscribers.
Untracked(s, ch) == [presence EXCEPT ![ch] = Without(@, s)]
Leave(s, ch, S) ==
  IF s \in DOMAIN presence[ch]
  THEN ToAll(S, PresenceFrame(ch, "leave", snapshot(Untracked(s, ch), ch)))
  ELSE Nothing

unsubscribe(s, ch) ==
  /\ subs' = [subs EXCEPT ![s] = Without(@, ch)]
  /\ presence' = Untracked(s, ch)
  /\ Push(Then(To(s, <<Ack("unsubscribed", ch)>>),
               Leave(s, ch, channelSubscribers(ch) \ {s})))
  /\ UNCHANGED <<clients, refs, nextRef>>

broadcast(s, ch, payload) ==
  /\ Push(ToAll(IF BroadcastSelf THEN channelSubscribers(ch)
                ELSE channelSubscribers(ch) \ {s},
                [type |-> "broadcast", channel |-> ch, payload |-> payload,
                 from |-> Claims[s].sub]))
  /\ UNCHANGED hub

\* refFor(): the connection's reference, assigned when first needed.
RefFor(s) == IF s \in DOMAIN refs THEN refs[s] ELSE nextRef

presenceTrack(s, ch, state) ==
  LET tracked == [presence EXCEPT ![ch] =
        With(@, s, [ref |-> RefFor(s), sub |-> Claims[s].sub, state |-> state])]
  IN /\ presence' = tracked
     /\ refs' = With(refs, s, RefFor(s))
     /\ nextRef' = IF s \in DOMAIN refs THEN nextRef ELSE nextRef + 1
     /\ Push(ToAll(channelSubscribers(ch), PresenceFrame(ch, "join", snapshot(tracked, ch))))
     /\ UNCHANGED <<clients, subs>>

presenceUntrack(s, ch) ==
  /\ presence' = Untracked(s, ch)
  /\ Push(Leave(s, ch, channelSubscribers(ch)))
  /\ UNCHANGED <<clients, subs, refs, nextRef>>

\* A frame that does not parse, or that a handler rejects.
Malformed(s) == Push(To(s, <<Plain("error")>>)) /\ UNCHANGED hub

Messages(s) ==
  [type : {"subscribe"}, channel : Channel, event : Events, filter : Filters[s]]
    \cup [type : {"unsubscribe", "presence_untrack"}, channel : Channel]
    \cup [type : {"broadcast"}, channel : Channel, payload : PStates]
    \cup [type : {"presence_track"}, channel : Channel, state : PStates]
    \cup [type : {"malformed"}]

\* The switch of handleMessage().
Handle(s, m) ==
  \/ m.type = "subscribe" /\ subscribe(s, m.channel, m.event, m.filter)
  \/ m.type = "unsubscribe" /\ unsubscribe(s, m.channel)
  \/ m.type = "broadcast" /\ broadcast(s, m.channel, m.payload)
  \/ m.type = "presence_track" /\ presenceTrack(s, m.channel, m.state)
  \/ m.type = "presence_untrack" /\ presenceUntrack(s, m.channel)
  \/ m.type = "malformed" /\ Malformed(s)

\* handleMessage(): a socket that the hub has dropped is ignored.
handleMessage(s, m) ==
  \/ s \in clients /\ Handle(s, m)
  \/ s \notin clients /\ UNCHANGED <<hub, wire>>

-----------------------------------------------------------------------------
(***************************************************************************)
(* onConnection(): the handlers of one socket.                             *)
(***************************************************************************)
Connected(s) == ws[s] \in {"open", "closing"}

Add(s) == /\ authed' = [authed EXCEPT ![s] = TRUE]
          /\ clients' = clients \cup {s}
          /\ UNCHANGED <<subs, presence, refs, nextRef>>

\* The upgrade.  A bad ?token= is refused before any handler is registered.
Connect(s, token) ==
  /\ ws[s] = "new"
  /\ ws' = [ws EXCEPT ![s] = IF token = "bad" THEN "closed" ELSE "open"]
  /\ grace' = IF token = "none" THEN grace \cup {s} ELSE grace
  /\ IF token = "good" THEN Add(s) ELSE UNCHANGED <<authed, hub>>
  /\ UNCHANGED <<wire, seen>>

\* {type:'auth'} before authentication; after a close() it still arrives.
AuthMessage(s, valid) ==
  /\ Connected(s) /\ ~authed[s]
  /\ IF valid
     THEN Add(s) /\ grace' = grace \ {s} /\ Push(To(s, <<Plain("authenticated")>>))
          /\ UNCHANGED ws
     ELSE ws' = [ws EXCEPT ![s] = "closing"] /\ UNCHANGED <<authed, grace, hub, wire>>
  /\ UNCHANGED seen

GraceExpires(s) ==
  /\ s \in grace /\ Connected(s)
  /\ grace' = grace \ {s}
  /\ ws' = [ws EXCEPT ![s] = IF authed[s] THEN @ ELSE "closing"]
  /\ UNCHANGED <<authed, hub, wire, seen>>

\* Any other message: refused before authentication, handled by the hub after.
Receive(s, m) ==
  /\ Connected(s)
  /\ IF authed[s] THEN handleMessage(s, m) ELSE Malformed(s)
  /\ UNCHANGED <<conn, seen>>

\* Mutant: it is removed, but nobody is told.
RemoveSilently(s) ==
  /\ clients' = clients \ {s}
  /\ subs' = [subs EXCEPT ![s] = Empty]
  /\ presence' = [ch \in Channel |-> Without(presence[ch], s)]
  /\ refs' = Without(refs, s)
  /\ UNCHANGED <<wire, nextRef>>

\* Those of the channels that have t among their subscribers besides s, in the
\* order of their places in the registry.
Notices(t, s, left, place) ==
  {q \in SetToSeqs({ch \in left : t \in channelSubscribers(ch) \ {s}}) :
     \A i, j \in DOMAIN q : i < j => place[q[i]] < place[q[j]]}

\* Hub.remove(): the client, then its presence, announcing each leave in the
\* order in which the registry holds the channels.
remove(s) ==
  LET left == {ch \in Channel : s \in DOMAIN presence[ch]} IN
  /\ clients' = clients \ {s}
  /\ subs' = [subs EXCEPT ![s] = Empty]
  /\ presence' = [ch \in Channel |-> Without(presence[ch], s)]
  /\ refs' = Without(refs, s)
  /\ \E place \in Bijection(left, 1..Cardinality(left)) :
     \E told \in [Socket -> UNION {Notices(t, s, left, place) : t \in Socket}] :
       /\ \A t \in Socket : told[t] \in Notices(t, s, left, place)
       /\ Push([t \in Socket |-> [i \in DOMAIN told[t] |->
            PresenceFrame(told[t][i], "leave",
                          snapshot(Untracked(s, told[t][i]), told[t][i]))]])
  /\ UNCHANGED nextRef

\* 'error', after which ws closes the socket.
OnError(s) ==
  /\ ws[s] = "open"
  /\ ws' = [ws EXCEPT ![s] = "closing"]
  /\ remove(s)
  /\ UNCHANGED <<authed, grace, seen>>

OnClose(s) ==
  /\ Connected(s)
  /\ ws' = [ws EXCEPT ![s] = "closed"]
  /\ grace' = grace \ {s}
  /\ remove(s)
  /\ UNCHANGED <<authed, seen>>

\* The browser reads the next frame.
Read(s) ==
  /\ wire[s] # <<>>
  /\ wire' = [wire EXCEPT ![s] = Tail(@)]
  /\ LET f == Head(wire[s]) IN
     seen' = IF f.type = "presence" THEN [seen EXCEPT ![s][f.channel].roster = f.presences]
             ELSE IF f.type = "subscribed" THEN [seen EXCEPT ![s][f.channel].on = TRUE]
             ELSE IF f.type = "unsubscribed" THEN [seen EXCEPT ![s][f.channel].on = FALSE]
             ELSE seen
  /\ UNCHANGED <<conn, hub>>

-----------------------------------------------------------------------------
\* Bound: nothing new comes in while a wire is full.
Room == \A s \in Socket : Len(wire[s]) < MaxWire

SocketStep(s) ==
  \/ \E token \in {"none", "good", "bad"} : Connect(s, token)
  \/ \E valid \in BOOLEAN : Room /\ AuthMessage(s, valid)
  \/ \E m \in Messages(s) : Room /\ Receive(s, m)
  \/ GraceExpires(s) \/ OnError(s) \/ OnClose(s) \/ Read(s)

Next == \/ \E s \in Socket : SocketStep(s)
        \/ \E n \in Notes : Room /\ Dispatch(n)

Spec == Init /\ [][Next]_vars

-----------------------------------------------------------------------------
\* Every variable has its type; a note on a wire is one that was published.
TypeOK ==
  /\ ws \in [Socket -> {"new", "open", "closing", "closed"}]
  /\ authed \in [Socket -> BOOLEAN]
  /\ grace \subseteq {s \in Socket : Connected(s) /\ ~authed[s]}
  /\ clients \subseteq Socket
  /\ DOMAIN refs \subseteq clients
  /\ nextRef \in Nat
  /\ \A s \in Socket : DOMAIN subs[s] \subseteq Channel
  /\ \A s \in Socket : subs[s] # Empty => s \in clients
  /\ \A s \in Socket : \A i \in DOMAIN wire[s] :
       wire[s][i].type = "change" => wire[s][i].note \in Notes

\* The registry shows connected clients only: an entry is of a socket the hub
\* still serves, carries the identity of its token, and no two sockets share a
\* reference, whatever the order of frames, 'error' and 'close'.
PresenceOnline ==
  /\ \A ch \in Channel : \A s \in DOMAIN presence[ch] :
       /\ s \in clients /\ Connected(s)
       /\ s \in DOMAIN refs /\ presence[ch][s].ref = refs[s]
       /\ presence[ch][s].sub = Claims[s].sub
  /\ \A s, t \in DOMAIN refs : s # t => refs[s] # refs[t]

\* The last frame about ch that is on the wire of s, or was read from it.
LastRoster(s, ch) ==
  LET i == SelectLastInSeq(wire[s], LAMBDA f : f.type = "presence" /\ f.channel = ch)
  IN IF i = 0 THEN seen[s][ch].roster ELSE wire[s][i].presences
LastAck(s, ch) ==
  LET i == SelectLastInSeq(wire[s],
             LAMBDA f : f.type \in {"subscribed", "unsubscribed"} /\ f.channel = ch)
  IN IF i = 0 THEN seen[s][ch].on ELSE wire[s][i].type = "subscribed"

\* hub.ts, announcePresence: "clients can simply replace their local presence
\* map".  So the last roster sent to an open subscriber is always the registry.
RosterCurrent ==
  \A s \in clients, ch \in Channel :
    ws[s] = "open" /\ ch \in DOMAIN subs[s] => LastRoster(s, ch) = snapshot(presence, ch)

\* The acks tell an open client exactly what it is subscribed to.
AckAgrees ==
  \A s \in clients, ch \in Channel :
    ws[s] = "open" => LastAck(s, ch) = (ch \in DOMAIN subs[s])

\* A channel's frames come after its "subscribed" ack and none after its
\* "unsubscribed" ack, until it is subscribed again.
FramesAreBracketed ==
  \A s \in Socket : \A i \in DOMAIN wire[s] :
    wire[s][i].type \in {"presence", "broadcast", "change"} =>
      LET ch == wire[s][i].channel
          before == SubSeq(wire[s], 1, i - 1)
          a == SelectLastInSeq(before,
                 LAMBDA f : f.type \in {"subscribed", "unsubscribed"} /\ f.channel = ch)
      IN IF a = 0 THEN seen[s][ch].on ELSE before[a].type = "subscribed"

\* Registry, rosters, acks and frames tell one story, in whatever order
\* frames, 'error', 'close' and the grace timer come (hub.ts, server.ts).
ClientsToldTheTruth ==
  TypeOK /\ PresenceOnline /\ RosterCurrent /\ AckAgrees /\ FramesAreBracketed

\* hub.ts, recipientsFor rules 3 and 4: on the wire of a client that is not an
\* admin, a change with an owner column is of a row it owns by some owner
\* column, and no change is truncated.
OwnerScoped ==
  \A s \in Socket : \A i \in DOMAIN wire[s] :
    wire[s][i].type = "change" /\ Claims[s].role \notin Admins =>
      LET n == wire[s][i].note IN
      /\ ~n.truncated
      /\ Row(n) # NoRow /\ OwnerColumnsOf(Row(n)) # {} =>
           \E c \in Range(OwnerColumns) \cap DOMAIN Row(n) :
             ownerMatches(Claims[s].sub, Row(n)[c])
=============================================================================
