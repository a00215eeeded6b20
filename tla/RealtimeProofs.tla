---------------------------- MODULE RealtimeProofs ----------------------------
(***************************************************************************)
(* Proofs about the realtime server's hub, for every number of sockets,    *)
(* channels and frames in flight: what the frames on a wire and those      *)
(* already read tell a browser is what the hub holds, presence shows       *)
(* connected clients only, and a change reaches only those who may see it. *)
(* Then about the browser's library at the other end: it keeps to one      *)
(* socket and to the order of the protocol, and once everything sent is    *)
(* handled the two ends agree on the channels served and who is there.     *)
(***************************************************************************)
EXTENDS RealtimeClient, SequenceTheorems, FiniteSetTheorems, TLAPS

USE ClaimsAssumption, SelfAssumption, WireAssumption

-----------------------------------------------------------------------------
(***************************************************************************)
(* What a sequence of frames tells its reader.  These are about any        *)
(* sequence, so that a wire before and after a step are two instances.     *)
(***************************************************************************)
IsAck(f, ch) == f.type \in {"subscribed", "unsubscribed"} /\ f.channel = ch
IsRoster(f, ch) == f.type = "presence" /\ f.channel = ch
IsContent(f) == f.type \in {"presence", "broadcast", "change"}

\* After the first n frames of w, one who was subscribed to ch or not, as `on`
\* says, holds itself to be subscribed.
OnAfter(w, n, on, ch) ==
  \/ \E k \in 1..n : /\ w[k].type = "subscribed" /\ w[k].channel = ch
                     /\ \A i \in (k + 1)..n : ~IsAck(w[i], ch)
  \/ on /\ \A i \in 1..n : ~IsAck(w[i], ch)

\* The last roster of ch is r: on w, or without one the roster held before.
Shows(w, held, ch, r) ==
  \/ \E k \in 1..Len(w) : /\ IsRoster(w[k], ch) /\ w[k].presences = r
                          /\ \A i \in (k + 1)..Len(w) : ~IsRoster(w[i], ch)
  \/ held = r /\ \A i \in 1..Len(w) : ~IsRoster(w[i], ch)

\* A reader who has seen sn is told exactly of the subscriptions D.
Tells(w, sn, D) ==
  \A ch \in Channel : OnAfter(w, Len(w), sn[ch].on, ch) <=> ch \in D

\* No content of a channel comes but while the reader is subscribed to it.
Brackets(w, sn) ==
  \A i \in 1..Len(w) :
    IsContent(w[i]) => OnAfter(w, i - 1, sn[w[i].channel].on, w[i].channel)

\* A set of numbers that has a bound has a greatest one.
LEMMA Greatest ==
  ASSUME NEW n \in Nat, NEW I \in SUBSET (1..n), I # {}
  PROVE  Max(I) \in I /\ \A i \in I : Max(I) >= i
<1> DEFINE R == {ss \in Nat \X Nat : ss[1] < ss[2]}
<1>1. OpToRel(<, Nat) = R
  BY Zenon DEF OpToRel
<1>2. IsWellFoundedOn(R, Nat)
  BY <1>1, NatLessThanWellFounded
<1> DEFINE T == {n - i : i \in I}
<1>3. T \in SUBSET Nat /\ T # {}
  <2>1. \A i \in I : n - i \in Nat
    OBVIOUS
  <2>2. PICK i \in I : TRUE
    OBVIOUS
  <2>3. n - i \in T
    OBVIOUS
  <2> QED
    BY <2>1, <2>3
<1> HIDE DEF R
<1>4. \E m \in T : \A k \in T : ~(<<k, m>> \in R)
  BY <1>2, <1>3, WFMin
<1>5. PICK m \in T : \A k \in T : ~(<<k, m>> \in R)
  BY <1>4
<1>6. PICK g \in I : m = n - g
  BY <1>5
<1>7. ASSUME NEW i \in I
      PROVE  g >= i
  <2>1. n - i \in T /\ n - i \in Nat /\ m \in Nat
    BY <1>3
  <2>2. ~(n - i < m)
    BY <1>5, <2>1 DEF R
  <2> QED
    BY <1>6, <2>2
<1> QED
  BY <1>6, <1>7 DEF Max

\* I is the set of the acknowledgements, or of the rosters, of ch among the
\* first n frames of w.
AcksOf(I, w, n, ch) == I \subseteq 1..n /\ \A i \in 1..n : i \in I <=> IsAck(w[i], ch)
RostersOf(I, w, n, ch) == I \subseteq 1..n /\ \A i \in 1..n : i \in I <=> IsRoster(w[i], ch)

\* The last acknowledgement among the first n frames, as the properties look
\* for it, decides.
LEMMA LastAckDecides ==
  ASSUME NEW w, NEW n \in Nat, NEW on \in BOOLEAN, NEW ch, NEW I, AcksOf(I, w, n, ch)
  PROVE  /\ I = {} => (OnAfter(w, n, on, ch) <=> on)
         /\ I # {} => (OnAfter(w, n, on, ch) <=> w[Max(I)].type = "subscribed")
<1>0. I \in SUBSET (1..n) /\ \A i \in 1..n : i \in I <=> IsAck(w[i], ch)
  BY DEF AcksOf
<1>1. ASSUME I = {}
      PROVE  OnAfter(w, n, on, ch) <=> on
  <2>1. \A i \in 1..n : ~IsAck(w[i], ch)
    BY <1>0, <1>1
  <2> QED
    BY <2>1 DEF OnAfter, IsAck
<1>2. ASSUME I # {}
      PROVE  OnAfter(w, n, on, ch) <=> w[Max(I)].type = "subscribed"
  <2> PICK m : m = Max(I)
    OBVIOUS
  <2>1. m \in I /\ \A i \in I : m >= i
    BY <1>0, <1>2, Greatest
  <2>2. m \in 1..n /\ IsAck(w[m], ch)
    BY <1>0, <2>1
  <2>3. ASSUME NEW i \in (m + 1)..n
        PROVE  ~IsAck(w[i], ch)
    <3>1. i \in 1..n /\ ~(m >= i)
      BY <2>2
    <3> QED
      BY <1>0, <2>1, <3>1
  <2>4. ASSUME w[m].type = "subscribed"
        PROVE  OnAfter(w, n, on, ch)
    BY <2>2, <2>3, <2>4 DEF OnAfter, IsAck
  <2>5. ASSUME OnAfter(w, n, on, ch)
        PROVE  w[m].type = "subscribed"
    <3>1. PICK k \in 1..n : /\ w[k].type = "subscribed" /\ w[k].channel = ch
                            /\ \A i \in (k + 1)..n : ~IsAck(w[i], ch)
      BY <2>2, <2>5 DEF OnAfter
    <3>2. k \in I
      BY <1>0, <3>1 DEF IsAck
    <3>3. ~(m > k)
      <4>1. m > k => m \in (k + 1)..n
        BY <2>2
      <4> QED
        BY <2>2, <3>1, <4>1
    <3>4. m = k
      BY <2>1, <2>2, <3>2, <3>3
    <3> QED
      BY <3>1, <3>4
  <2> QED
    BY <2>4, <2>5
<1> QED
  BY <1>1, <1>2

\* The last roster, as the properties look for it, is what a wire shows.
LEMMA LastRosterShown ==
  ASSUME NEW w, NEW n \in Nat, Len(w) = n, NEW held, NEW ch, NEW r, Shows(w, held, ch, r),
         NEW I, RostersOf(I, w, n, ch)
  PROVE  /\ I = {} => held = r
         /\ I # {} => w[Max(I)].presences = r
<1>0. I \in SUBSET (1..n) /\ \A i \in 1..n : i \in I <=> IsRoster(w[i], ch)
  BY DEF RostersOf
<1>1. ASSUME I = {}
      PROVE  held = r
  <2>1. \A i \in 1..n : ~IsRoster(w[i], ch)
    BY <1>0, <1>1
  <2> QED
    BY <2>1 DEF Shows
<1>2. ASSUME I # {}
      PROVE  w[Max(I)].presences = r
  <2> PICK m : m = Max(I)
    OBVIOUS
  <2>1. m \in I /\ \A i \in I : m >= i
    BY <1>0, <1>2, Greatest
  <2>2. m \in 1..n /\ IsRoster(w[m], ch)
    BY <1>0, <2>1
  <2>3. PICK k \in 1..n : /\ IsRoster(w[k], ch) /\ w[k].presences = r
                          /\ \A i \in (k + 1)..n : ~IsRoster(w[i], ch)
    BY <2>2 DEF Shows
  <2>4. k \in I
    BY <1>0, <2>3
  <2>5. ~(m > k)
    <3>1. m > k => m \in (k + 1)..n
      BY <2>2
    <3> QED
      BY <2>2, <2>3, <3>1
  <2>6. m = k
    BY <2>1, <2>2, <2>4, <2>5
  <2> QED
    BY <2>3, <2>6
<1> QED
  BY <1>1, <1>2

\* Frames are added to a wire behind those that wait.
LEMMA Behind ==
  ASSUME NEW F, NEW w \in Seq(F), NEW v \in Seq(F)
  PROVE  /\ Len(w) \in Nat /\ Len(v) \in Nat /\ Len(w \o v) = Len(w) + Len(v)
         /\ \A i \in 1..Len(w) : (w \o v)[i] = w[i]
         /\ \A i \in 1..Len(v) : (w \o v)[Len(w) + i] = v[i]
         /\ \A i \in 1..Len(w \o v) :
              i \in 1..Len(w) \/ \E j \in 1..Len(v) : i = Len(w) + j
<1>1. Len(w) \in Nat /\ Len(v) \in Nat
  BY LenProperties
<1>2. Len(w \o v) = Len(w) + Len(v)
      /\ \A i \in 1..Len(w) + Len(v) :
           (w \o v)[i] = IF i <= Len(w) THEN w[i] ELSE v[i - Len(w)]
  BY ConcatProperties
<1>3. \A i \in 1..Len(w) : (w \o v)[i] = w[i]
  BY <1>1, <1>2
<1>4. \A i \in 1..Len(v) : (w \o v)[Len(w) + i] = v[i]
  <2> TAKE i \in 1..Len(v)
  <2>1. Len(w) + i \in 1..Len(w) + Len(v) /\ ~(Len(w) + i <= Len(w)) /\ Len(w) + i - Len(w) = i
    BY <1>1
  <2> QED
    BY <1>2, <2>1
<1>5. ASSUME NEW i \in 1..Len(w \o v), i \notin 1..Len(w)
      PROVE  \E j \in 1..Len(v) : i = Len(w) + j
  <2>1. i - Len(w) \in 1..Len(v) /\ i = Len(w) + (i - Len(w))
    BY <1>1, <1>2, <1>5
  <2> QED
    BY <2>1
<1> QED
  BY <1>1, <1>2, <1>3, <1>4, <1>5

\* What the first frames tell does not depend on those behind.
LEMMA OnPrefix ==
  ASSUME NEW F, NEW w \in Seq(F), NEW v \in Seq(F), NEW n \in 0..Len(w), NEW on, NEW ch
  PROVE  OnAfter(w \o v, n, on, ch) <=> OnAfter(w, n, on, ch)
<1>1. \A i \in 1..n : (w \o v)[i] = w[i]
  BY Behind, LenProperties
<1> QED
  BY <1>1, LenProperties DEF OnAfter

\* Frames that acknowledge nothing of ch leave the reader as it was.
LEMMA OnKept ==
  ASSUME NEW F, NEW w \in Seq(F), NEW v \in Seq(F), NEW n \in 0..Len(v), NEW on, NEW ch,
         \A j \in 1..n : ~IsAck(v[j], ch)
  PROVE  OnAfter(w \o v, Len(w) + n, on, ch) <=> OnAfter(w, Len(w), on, ch)
<1> DEFINE u == w \o v
<1>1. Len(w) \in Nat /\ Len(v) \in Nat /\ n \in Nat
  BY LenProperties
<1>2. \A i \in 1..Len(w) : u[i] = w[i]
  BY Behind
<1>3. ASSUME NEW i \in 1..(Len(w) + n), i > Len(w)
      PROVE  ~IsAck(u[i], ch)
  <2>1. i - Len(w) \in 1..n /\ i - Len(w) \in 1..Len(v) /\ i = Len(w) + (i - Len(w))
    BY <1>1, <1>3
  <2>2. u[i] = v[i - Len(w)]
    BY <2>1, Behind
  <2> QED
    BY <2>1, <2>2
<1> HIDE DEF u
<1>4. ASSUME OnAfter(u, Len(w) + n, on, ch)
      PROVE  OnAfter(w, Len(w), on, ch)
  <2>1. CASE on /\ \A i \in 1..(Len(w) + n) : ~IsAck(u[i], ch)
    BY <1>1, <1>2, <2>1 DEF OnAfter
  <2>2. ASSUME NEW k \in 1..(Len(w) + n), u[k].type = "subscribed", u[k].channel = ch,
               \A i \in (k + 1)..(Len(w) + n) : ~IsAck(u[i], ch)
        PROVE  OnAfter(w, Len(w), on, ch)
    <3>1. k \in 1..Len(w)
      BY <1>1, <1>3, <2>2 DEF IsAck
    <3>2. \A i \in (k + 1)..Len(w) : ~IsAck(w[i], ch)
      BY <1>1, <1>2, <2>2, <3>1
    <3> QED
      BY <1>2, <2>2, <3>1, <3>2 DEF OnAfter
  <2> QED
    BY <1>4, <2>1, <2>2 DEF OnAfter
<1>5. ASSUME OnAfter(w, Len(w), on, ch)
      PROVE  OnAfter(u, Len(w) + n, on, ch)
  <2>1. CASE on /\ \A i \in 1..Len(w) : ~IsAck(w[i], ch)
    <3>1. ASSUME NEW i \in 1..(Len(w) + n)
          PROVE  ~IsAck(u[i], ch)
      <4>1. CASE i > Len(w)
        BY <1>3, <4>1
      <4>2. CASE ~(i > Len(w))
        <5>1. i \in 1..Len(w)
          BY <1>1, <4>2
        <5> QED
          BY <1>2, <2>1, <5>1
      <4> QED
        BY <4>1, <4>2
    <3> QED
      BY <2>1, <3>1 DEF OnAfter
  <2>2. ASSUME NEW k \in 1..Len(w), w[k].type = "subscribed", w[k].channel = ch,
               \A i \in (k + 1)..Len(w) : ~IsAck(w[i], ch)
        PROVE  OnAfter(u, Len(w) + n, on, ch)
    <3>1. k \in 1..(Len(w) + n) /\ u[k] = w[k]
      BY <1>1, <1>2
    <3>2. ASSUME NEW i \in (k + 1)..(Len(w) + n)
          PROVE  ~IsAck(u[i], ch)
      <4>1. CASE i > Len(w)
        <5>1. i \in 1..(Len(w) + n)
          BY <1>1
        <5> QED
          BY <1>3, <4>1, <5>1
      <4>2. CASE ~(i > Len(w))
        <5>1. i \in (k + 1)..Len(w) /\ i \in 1..Len(w)
          BY <1>1, <4>2
        <5> QED
          BY <1>2, <2>2, <5>1
      <4> QED
        BY <4>1, <4>2
    <3> QED
      BY <2>2, <3>1, <3>2 DEF OnAfter
  <2> QED
    BY <1>5, <2>1, <2>2 DEF OnAfter
<1> QED
  BY <1>4, <1>5 DEF u

\* A wire that gets content of subscribed channels and no acknowledgement
\* tells what it told, and stays in its brackets.
LEMMA Heard ==
  ASSUME NEW F, NEW w \in Seq(F), NEW v \in Seq(F), NEW sn, NEW D,
         \A j \in 1..Len(v) : /\ v[j].type \notin {"subscribed", "unsubscribed"}
                              /\ IsContent(v[j]) => v[j].channel \in Channel \cap D,
         Tells(w, sn, D), Brackets(w, sn)
  PROVE  Tells(w \o v, sn, D) /\ Brackets(w \o v, sn)
<1>1. Len(w) \in Nat /\ Len(v) \in Nat /\ Len(w \o v) = Len(w) + Len(v)
  BY Behind
<1>2. Tells(w \o v, sn, D)
  <2> SUFFICES ASSUME NEW ch \in Channel
               PROVE  OnAfter(w \o v, Len(w \o v), sn[ch].on, ch) <=> ch \in D
    BY DEF Tells
  <2>1. \A j \in 1..Len(v) : ~IsAck(v[j], ch)
    BY DEF IsAck
  <2>2. OnAfter(w \o v, Len(w) + Len(v), sn[ch].on, ch) <=> OnAfter(w, Len(w), sn[ch].on, ch)
    BY <1>1, <2>1, OnKept
  <2> QED
    BY <1>1, <2>2 DEF Tells
<1>3. Brackets(w \o v, sn)
  <2>0. /\ \A j \in 1..Len(v) : (w \o v)[Len(w) + j] = v[j]
        /\ \A i \in 1..Len(w \o v) : i \in 1..Len(w) \/ \E j \in 1..Len(v) : i = Len(w) + j
    <3>1. \A j \in 1..Len(v) : (w \o v)[Len(w) + j] = v[j]
      BY Behind
    <3>2. \A i \in 1..Len(w \o v) : i \in 1..Len(w) \/ \E j \in 1..Len(v) : i = Len(w) + j
      BY Behind
    <3> QED
      BY <3>1, <3>2
  <2> SUFFICES ASSUME NEW i \in 1..Len(w \o v), NEW f, f = (w \o v)[i], IsContent(f)
               PROVE  OnAfter(w \o v, i - 1, sn[f.channel].on, f.channel)
    BY DEF Brackets
  <2>1. CASE i \in 1..Len(w)
    <3>1. f = w[i] /\ i - 1 \in 0..Len(w)
      BY <1>1, <2>1, Behind
    <3>2. OnAfter(w, i - 1, sn[f.channel].on, f.channel)
      BY <2>1, <3>1 DEF Brackets
    <3> QED
      BY <3>1, <3>2, OnPrefix
  <2>2. ASSUME NEW j \in 1..Len(v), i = Len(w) + j
        PROVE  OnAfter(w \o v, i - 1, sn[f.channel].on, f.channel)
    <3>1. f = v[j] /\ j - 1 \in 0..Len(v) /\ i - 1 = Len(w) + (j - 1)
      BY <1>1, <2>0, <2>2
    <3>2. \A k \in 1..(j - 1) : ~IsAck(v[k], f.channel)
      BY <1>1 DEF IsAck
    <3>3. OnAfter(w, Len(w), sn[f.channel].on, f.channel)
      BY <3>1 DEF Tells
    <3> QED
      BY <3>1, <3>2, <3>3, OnKept
  <2> QED
    BY <2>0, <2>1, <2>2
<1> QED
  BY <1>2, <1>3

\* The answers to subscribe and to unsubscribe.
Subscribed(v, ch) ==
  /\ Len(v) = 2 /\ v[1].type = "subscribed" /\ v[1].channel = ch
  /\ v[2].type = "presence" /\ v[2].channel = ch
Unsubscribed(v, ch) == Len(v) = 1 /\ v[1].type = "unsubscribed" /\ v[1].channel = ch

\* The acknowledgement of a subscription with the first roster behind it.
LEMMA SubscribedHeard ==
  ASSUME NEW F, NEW w \in Seq(F), NEW v \in Seq(F), NEW sn, NEW D, NEW ch \in Channel,
         Subscribed(v, ch), Tells(w, sn, D), Brackets(w, sn)
  PROVE  Tells(w \o v, sn, D \cup {ch}) /\ Brackets(w \o v, sn)
<1> PICK u : u = w \o v
  OBVIOUS
<1>1. /\ Len(w) \in Nat /\ Len(u) = Len(w) + 2
      /\ \A i \in 1..Len(w) : u[i] = w[i]
      /\ u[Len(w) + 1] = v[1] /\ u[Len(w) + 2] = v[2]
  <2>0. /\ Len(w) \in Nat /\ Len(v) \in Nat /\ Len(w \o v) = Len(w) + Len(v)
        /\ \A i \in 1..Len(w) : (w \o v)[i] = w[i]
        /\ \A i \in 1..Len(v) : (w \o v)[Len(w) + i] = v[i]
    BY Behind
  <2>1. \A j \in 1..Len(v) : u[Len(w) + j] = v[j]
    BY <2>0
  <2>2. 1 \in 1..Len(v) /\ 2 \in 1..Len(v)
    BY DEF Subscribed
  <2>3. u[Len(w) + 1] = v[1] /\ u[Len(w) + 2] = v[2]
    BY <2>1, <2>2
  <2>4. Len(w) \in Nat /\ Len(u) = Len(w) + 2 /\ \A i \in 1..Len(w) : u[i] = w[i]
    BY <2>0 DEF Subscribed
  <2> QED
    BY <2>3, <2>4
<1>2. \A on : OnAfter(u, Len(w) + 1, on, ch) /\ OnAfter(u, Len(w) + 2, on, ch)
  <2> TAKE on
  <2>1. Len(w) + 1 \in 1..(Len(w) + 1) /\ \A i \in (Len(w) + 1 + 1)..(Len(w) + 1) : ~IsAck(u[i], ch)
    BY <1>1
  <2>2. \A i \in (Len(w) + 1 + 1)..(Len(w) + 2) : i = Len(w) + 2
    BY <1>1
  <2>3. Len(w) + 1 \in 1..(Len(w) + 2) /\ \A i \in (Len(w) + 1 + 1)..(Len(w) + 2) : ~IsAck(u[i], ch)
    BY <1>1, <2>2 DEF IsAck, Subscribed
  <2> QED
    BY <1>1, <2>1, <2>3 DEF OnAfter, Subscribed
<1>3. ASSUME NEW c \in Channel
      PROVE  OnAfter(u, Len(u), sn[c].on, c) <=> c \in D \cup {ch}
  <2>1. CASE c = ch
    BY <1>1, <1>2, <2>1
  <2>2. CASE c # ch
    <3>1. \A j \in 1..2 : ~IsAck(v[j], c)
      <4>1. ~IsAck(v[1], c) /\ ~IsAck(v[2], c)
        BY <2>2 DEF IsAck, Subscribed
      <4> QED
        BY <4>1
    <3>2. 2 \in 0..Len(v)
      BY DEF Subscribed
    <3>3. OnAfter(w \o v, Len(w) + 2, sn[c].on, c) <=> OnAfter(w, Len(w), sn[c].on, c)
      BY <3>1, <3>2, OnKept
    <3> QED
      BY <1>1, <2>2, <3>3 DEF Tells
  <2> QED
    BY <2>1, <2>2
<1>4. ASSUME NEW i \in 1..Len(u), IsContent(u[i])
      PROVE  OnAfter(u, i - 1, sn[u[i].channel].on, u[i].channel)
  <2>1. CASE i \in 1..Len(w)
    <3>1. u[i] = w[i] /\ i - 1 \in 0..Len(w)
      BY <1>1, <2>1
    <3>2. OnAfter(w, i - 1, sn[u[i].channel].on, u[i].channel)
      BY <1>4, <2>1, <3>1 DEF Brackets
    <3> QED
      BY <3>1, <3>2, OnPrefix
  <2>2. CASE i = Len(w) + 1
    BY <1>1, <1>4, <2>2 DEF IsContent, Subscribed
  <2>3. CASE i = Len(w) + 2
    <3>1. u[i].channel = ch /\ i - 1 = Len(w) + 1
      BY <1>1, <2>3 DEF Subscribed
    <3> QED
      BY <1>2, <3>1
  <2> QED
    BY <1>1, <2>1, <2>2, <2>3
<1> QED
  BY <1>3, <1>4 DEF Tells, Brackets

\* The acknowledgement that a subscription is over.
LEMMA UnsubscribedHeard ==
  ASSUME NEW F, NEW w \in Seq(F), NEW v \in Seq(F), NEW sn, NEW D, NEW ch \in Channel,
         Unsubscribed(v, ch), Tells(w, sn, D), Brackets(w, sn)
  PROVE  Tells(w \o v, sn, D \ {ch}) /\ Brackets(w \o v, sn)
<1> PICK u : u = w \o v
  OBVIOUS
<1>1. /\ Len(w) \in Nat /\ Len(u) = Len(w) + 1
      /\ \A i \in 1..Len(w) : u[i] = w[i]
      /\ u[Len(w) + 1] = v[1]
  <2>0. /\ Len(w) \in Nat /\ Len(v) \in Nat /\ Len(w \o v) = Len(w) + Len(v)
        /\ \A i \in 1..Len(w) : (w \o v)[i] = w[i]
        /\ \A i \in 1..Len(v) : (w \o v)[Len(w) + i] = v[i]
    BY Behind
  <2>1. \A j \in 1..Len(v) : u[Len(w) + j] = v[j]
    BY <2>0
  <2>2. 1 \in 1..Len(v)
    BY DEF Unsubscribed
  <2>3. u[Len(w) + 1] = v[1]
    BY <2>1, <2>2
  <2>4. Len(w) \in Nat /\ Len(u) = Len(w) + 1 /\ \A i \in 1..Len(w) : u[i] = w[i]
    BY <2>0 DEF Unsubscribed
  <2> QED
    BY <2>3, <2>4
<1>2. \A on : ~OnAfter(u, Len(w) + 1, on, ch)
  <2> SUFFICES ASSUME NEW on, OnAfter(u, Len(w) + 1, on, ch) PROVE FALSE
    OBVIOUS
  <2>1. IsAck(u[Len(w) + 1], ch) /\ u[Len(w) + 1].type # "subscribed"
    BY <1>1 DEF IsAck, Unsubscribed
  <2>2. PICK k \in 1..(Len(w) + 1) : /\ u[k].type = "subscribed"
                                     /\ \A i \in (k + 1)..(Len(w) + 1) : ~IsAck(u[i], ch)
    BY <1>1, <2>1 DEF OnAfter
  <2>3. Len(w) + 1 \in (k + 1)..(Len(w) + 1)
    BY <1>1, <2>1, <2>2
  <2> QED
    BY <2>1, <2>2, <2>3
<1>3. ASSUME NEW c \in Channel
      PROVE  OnAfter(u, Len(u), sn[c].on, c) <=> c \in D \ {ch}
  <2>1. CASE c = ch
    BY <1>1, <1>2, <2>1
  <2>2. CASE c # ch
    <3>1. \A j \in 1..1 : ~IsAck(v[j], c)
      BY <2>2 DEF IsAck, Unsubscribed
    <3>2. 1 \in 0..Len(v)
      BY DEF Unsubscribed
    <3>3. OnAfter(w \o v, Len(w) + 1, sn[c].on, c) <=> OnAfter(w, Len(w), sn[c].on, c)
      BY <3>1, <3>2, OnKept
    <3> QED
      BY <1>1, <2>2, <3>3 DEF Tells
  <2> QED
    BY <2>1, <2>2
<1>4. ASSUME NEW i \in 1..Len(u), IsContent(u[i])
      PROVE  OnAfter(u, i - 1, sn[u[i].channel].on, u[i].channel)
  <2>1. i \in 1..Len(w)
    BY <1>1, <1>4 DEF IsContent, Unsubscribed
  <2>2. u[i] = w[i] /\ i - 1 \in 0..Len(w)
    BY <1>1, <2>1
  <2>3. OnAfter(w, i - 1, sn[u[i].channel].on, u[i].channel)
    BY <1>4, <2>1, <2>2 DEF Brackets
  <2> QED
    BY <2>2, <2>3, OnPrefix
<1> QED
  BY <1>3, <1>4 DEF Tells, Brackets

\* A wire that gets rosters of ch, all of them r2, shows r2; one that gets none
\* shows what it showed.
LEMMA RosterMoves ==
  ASSUME NEW F, NEW w \in Seq(F), NEW v \in Seq(F), NEW held, NEW ch, NEW r, NEW r2,
         \A j \in 1..Len(v) : IsRoster(v[j], ch) => v[j].presences = r2,
         \/ r2 = r /\ Shows(w, held, ch, r)
         \/ \E j \in 1..Len(v) : IsRoster(v[j], ch)
  PROVE  Shows(w \o v, held, ch, r2)
<1> PICK u : u = w \o v
  OBVIOUS
<1>1. /\ Len(w) \in Nat /\ Len(v) \in Nat /\ Len(u) = Len(w) + Len(v)
      /\ \A i \in 1..Len(w) : u[i] = w[i]
      /\ \A j \in 1..Len(v) : u[Len(w) + j] = v[j]
  BY Behind
<1>2. CASE \E j \in 1..Len(v) : IsRoster(v[j], ch)
  <2> DEFINE I == {j \in 1..Len(v) : IsRoster(v[j], ch)}
  <2>1. I \in SUBSET (1..Len(v)) /\ I # {}
    BY <1>2
  <2> HIDE DEF I
  <2>2. PICK m \in I : \A j \in I : m >= j
    BY <1>1, <2>1, Greatest
  <2>3. m \in 1..Len(v) /\ IsRoster(v[m], ch)
    BY DEF I
  <2>4. \A j \in 1..Len(v) : j > m => ~IsRoster(v[j], ch)
    <3> SUFFICES ASSUME NEW j \in 1..Len(v), j > m, IsRoster(v[j], ch) PROVE FALSE
      OBVIOUS
    <3>1. j \in I
      BY DEF I
    <3> QED
      BY <2>2, <2>3, <3>1
  <2>5. Len(w) + m \in 1..Len(u) /\ u[Len(w) + m] = v[m]
    BY <1>1, <2>3
  <2>6. ASSUME NEW i \in (Len(w) + m + 1)..Len(u)
        PROVE  ~IsRoster(u[i], ch)
    <3>1. i - Len(w) \in 1..Len(v) /\ i - Len(w) > m /\ i = Len(w) + (i - Len(w))
      BY <1>1, <2>3
    <3>2. u[i] = v[i - Len(w)]
      BY <1>1, <3>1
    <3> QED
      BY <2>4, <3>1, <3>2
  <2> QED
    BY <2>3, <2>5, <2>6 DEF Shows
<1>3. CASE ~\E j \in 1..Len(v) : IsRoster(v[j], ch)
  <2>1. r2 = r /\ Shows(w, held, ch, r)
    BY <1>3
  <2>2. \A i \in 1..Len(u) : i > Len(w) => ~IsRoster(u[i], ch)
    <3> SUFFICES ASSUME NEW i \in 1..Len(u), i > Len(w) PROVE ~IsRoster(u[i], ch)
      OBVIOUS
    <3>1. i - Len(w) \in 1..Len(v) /\ i = Len(w) + (i - Len(w))
      BY <1>1
    <3>2. u[i] = v[i - Len(w)]
      BY <1>1, <3>1
    <3> QED
      BY <1>3, <3>1, <3>2
  <2>3. ASSUME NEW k \in 1..Len(w), IsRoster(w[k], ch), w[k].presences = r,
               \A i \in (k + 1)..Len(w) : ~IsRoster(w[i], ch)
        PROVE  Shows(u, held, ch, r)
    <3>1. k \in 1..Len(u) /\ u[k] = w[k]
      BY <1>1
    <3>2. ASSUME NEW i \in (k + 1)..Len(u)
          PROVE  ~IsRoster(u[i], ch)
      <4>1. CASE i > Len(w)
        BY <1>1, <2>2, <4>1
      <4>2. CASE ~(i > Len(w))
        <5>1. i \in (k + 1)..Len(w) /\ u[i] = w[i]
          BY <1>1, <4>2
        <5> QED
          BY <2>3, <5>1
      <4> QED
        BY <4>1, <4>2
    <3> QED
      BY <2>3, <3>1, <3>2 DEF Shows
  <2>4. CASE held = r /\ \A i \in 1..Len(w) : ~IsRoster(w[i], ch)
    <3>1. ASSUME NEW i \in 1..Len(u)
          PROVE  ~IsRoster(u[i], ch)
      <4>1. CASE i > Len(w)
        BY <2>2, <4>1
      <4>2. CASE ~(i > Len(w))
        <5>1. i \in 1..Len(w) /\ u[i] = w[i]
          BY <1>1, <4>2
        <5> QED
          BY <2>4, <5>1
      <4> QED
        BY <4>1, <4>2
    <3> QED
      BY <2>4, <3>1 DEF Shows
  <2> QED
    BY <2>1, <2>3, <2>4 DEF Shows
<1> QED
  BY <1>2, <1>3

\* What a reader has seen of a channel once it has read f.
Read1(f, ch, sight, next) ==
  /\ next.on <=> IF IsAck(f, ch) THEN f.type = "subscribed" ELSE sight.on
  /\ next.roster = IF IsRoster(f, ch) THEN f.presences ELSE sight.roster

\* The frames behind the first, read.
LEMMA Rest ==
  ASSUME NEW F, NEW w \in Seq(F), w # <<>>
  PROVE  /\ Len(w) \in Nat /\ Len(w) > 0 /\ Len(Tail(w)) = Len(w) - 1 /\ Head(w) = w[1]
         /\ \A i \in 1..Len(Tail(w)) : Tail(w)[i] = w[i + 1]
BY HeadTailProperties, EmptySeq

\* To read the first frame is to know it instead of having it on the wire.
LEMMA OnRead ==
  ASSUME NEW F, NEW w \in Seq(F), w # <<>>, NEW n \in 0..(Len(w) - 1), NEW ch,
         NEW on, NEW on2, on2 <=> IF IsAck(w[1], ch) THEN w[1].type = "subscribed" ELSE on
  PROVE  OnAfter(Tail(w), n, on2, ch) <=> OnAfter(w, n + 1, on, ch)
<1> PICK t : t = Tail(w)
  OBVIOUS
<1>1. /\ Len(w) \in Nat /\ Len(w) > 0 /\ n \in Nat
      /\ \A i \in 1..n : t[i] = w[i + 1]
  BY Rest
<1>2. (\A i \in 1..n : ~IsAck(t[i], ch)) <=> \A i \in 2..(n + 1) : ~IsAck(w[i], ch)
  <2>1. \A i \in 2..(n + 1) : i - 1 \in 1..n /\ w[i] = t[i - 1]
    BY <1>1
  <2>2. \A i \in 1..n : i + 1 \in 2..(n + 1) /\ t[i] = w[i + 1]
    BY <1>1
  <2> QED
    BY <2>1, <2>2
<1>3. ASSUME NEW k \in 1..n
      PROVE  (\A i \in (k + 1)..n : ~IsAck(t[i], ch)) <=> \A i \in (k + 1 + 1)..(n + 1) : ~IsAck(w[i], ch)
  <2>1. \A i \in (k + 1 + 1)..(n + 1) : i - 1 \in (k + 1)..n /\ w[i] = t[i - 1]
    BY <1>1
  <2>2. \A i \in (k + 1)..n : i + 1 \in (k + 1 + 1)..(n + 1) /\ t[i] = w[i + 1]
    BY <1>1
  <2> QED
    BY <2>1, <2>2
<1>4. ASSUME OnAfter(t, n, on2, ch)
      PROVE  OnAfter(w, n + 1, on, ch)
  <2>1. ASSUME NEW k \in 1..n, t[k].type = "subscribed", t[k].channel = ch,
               \A i \in (k + 1)..n : ~IsAck(t[i], ch)
        PROVE  OnAfter(w, n + 1, on, ch)
    <3>1. k + 1 \in 1..(n + 1) /\ w[k + 1] = t[k]
      BY <1>1
    <3> QED
      BY <1>3, <2>1, <3>1 DEF OnAfter
  <2>2. CASE on2 /\ \A i \in 1..n : ~IsAck(t[i], ch)
    <3>1. CASE IsAck(w[1], ch)
      <4>1. 1 \in 1..(n + 1) /\ w[1].type = "subscribed" /\ w[1].channel = ch
        BY <1>1, <2>2, <3>1 DEF IsAck
      <4>2. ASSUME NEW i \in (1 + 1)..(n + 1)
            PROVE  ~IsAck(w[i], ch)
        <5>1. \A j \in 2..(n + 1) : ~IsAck(w[j], ch)
          BY <1>2, <2>2
        <5>2. i \in 2..(n + 1)
          BY <1>1
        <5> QED
          BY <5>1, <5>2
      <4> QED
        BY <4>1, <4>2 DEF OnAfter
    <3>2. CASE ~IsAck(w[1], ch)
      <4>1. \A i \in 1..(n + 1) : i = 1 \/ i \in 2..(n + 1)
        BY <1>1
      <4>2. on /\ \A i \in 1..(n + 1) : ~IsAck(w[i], ch)
        BY <1>2, <2>2, <3>2, <4>1
      <4> QED
        BY <4>2 DEF OnAfter
    <3> QED
      BY <3>1, <3>2
  <2> QED
    BY <1>4, <2>1, <2>2 DEF OnAfter
<1>5. ASSUME OnAfter(w, n + 1, on, ch)
      PROVE  OnAfter(t, n, on2, ch)
  <2>1. ASSUME NEW k \in 1..(n + 1), w[k].type = "subscribed", w[k].channel = ch,
               \A i \in (k + 1)..(n + 1) : ~IsAck(w[i], ch)
        PROVE  OnAfter(t, n, on2, ch)
    <3>1. CASE k = 1
      <4>1. on2
        BY <2>1, <3>1 DEF IsAck
      <4>2. \A i \in 2..(n + 1) : ~IsAck(w[i], ch)
        BY <2>1, <3>1
      <4> QED
        BY <1>2, <4>1, <4>2 DEF OnAfter
    <3>2. CASE k # 1
      <4>1. PICK j \in 1..n : k = j + 1
        <5>1. k - 1 \in 1..n /\ k = k - 1 + 1
          BY <1>1, <3>2
        <5> QED
          BY <5>1
      <4>2. t[j] = w[k]
        BY <1>1, <4>1
      <4> QED
        BY <1>3, <2>1, <4>1, <4>2 DEF OnAfter
    <3> QED
      BY <3>1, <3>2
  <2>2. CASE on /\ \A i \in 1..(n + 1) : ~IsAck(w[i], ch)
    <3>1. 1 \in 1..(n + 1) /\ \A i \in 2..(n + 1) : i \in 1..(n + 1)
      BY <1>1
    <3>2. on2 /\ \A i \in 2..(n + 1) : ~IsAck(w[i], ch)
      BY <2>2, <3>1
    <3> QED
      BY <1>2, <3>2 DEF OnAfter
  <2> QED
    BY <1>5, <2>1, <2>2 DEF OnAfter
<1> QED
  BY <1>4, <1>5

\* The same of rosters.
LEMMA RosterRead ==
  ASSUME NEW F, NEW w \in Seq(F), w # <<>>, NEW ch, NEW held, NEW held2, NEW r,
         held2 = IF IsRoster(w[1], ch) THEN w[1].presences ELSE held,
         Shows(w, held, ch, r)
  PROVE  Shows(Tail(w), held2, ch, r)
<1> PICK t : t = Tail(w)
  OBVIOUS
<1>1. /\ Len(w) \in Nat /\ Len(w) > 0 /\ Len(t) = Len(w) - 1
      /\ \A i \in 1..Len(t) : t[i] = w[i + 1]
  BY Rest
<1>2. ASSUME NEW k \in 1..Len(w), IsRoster(w[k], ch), w[k].presences = r,
             \A i \in (k + 1)..Len(w) : ~IsRoster(w[i], ch)
      PROVE  Shows(t, held2, ch, r)
  <2>1. CASE k = 1
    <3>1. held2 = r
      BY <1>2, <2>1
    <3>2. \A i \in 1..Len(t) : i + 1 \in (k + 1)..Len(w) /\ t[i] = w[i + 1]
      BY <1>1, <2>1
    <3> QED
      BY <1>2, <3>1, <3>2 DEF Shows
  <2>2. CASE k # 1
    <3>1. PICK j \in 1..Len(t) : k = j + 1
      <4>1. k - 1 \in 1..Len(t) /\ k = k - 1 + 1
        BY <1>1, <2>2
      <4> QED
        BY <4>1
    <3>2. t[j] = w[k]
      BY <1>1, <3>1
    <3>3. \A i \in (j + 1)..Len(t) : i \in 1..Len(t) /\ i + 1 \in (k + 1)..Len(w)
      BY <1>1, <3>1
    <3>4. \A i \in (j + 1)..Len(t) : ~IsRoster(t[i], ch)
      BY <1>1, <1>2, <3>3
    <3> QED
      BY <1>2, <3>2, <3>4 DEF Shows
  <2> QED
    BY <2>1, <2>2
<1>3. CASE held = r /\ \A i \in 1..Len(w) : ~IsRoster(w[i], ch)
  <2>1. 1 \in 1..Len(w) /\ \A i \in 1..Len(t) : i + 1 \in 1..Len(w) /\ t[i] = w[i + 1]
    BY <1>1
  <2>2. held2 = r /\ \A i \in 1..Len(t) : ~IsRoster(t[i], ch)
    BY <1>3, <2>1
  <2> QED
    BY <2>2 DEF Shows
<1> QED
  BY <1>2, <1>3 DEF Shows

\* A reader that reads on is told the same, within the same brackets.
LEMMA ReadHeard ==
  ASSUME NEW F, NEW w \in Seq(F), w # <<>>, NEW sn, NEW sn2, NEW D,
         \A i \in 1..Len(w) : IsContent(w[i]) => w[i].channel \in Channel,
         \A ch \in Channel : Read1(w[1], ch, sn[ch], sn2[ch]),
         Tells(w, sn, D), Brackets(w, sn)
  PROVE  Tells(Tail(w), sn2, D) /\ Brackets(Tail(w), sn2)
<1> PICK t : t = Tail(w)
  OBVIOUS
<1>1. /\ Len(w) \in Nat /\ Len(w) > 0 /\ Len(t) = Len(w) - 1
      /\ \A i \in 1..Len(t) : t[i] = w[i + 1]
  BY Rest
<1>2. ASSUME NEW n \in 0..(Len(w) - 1), NEW ch \in Channel
      PROVE  OnAfter(t, n, sn2[ch].on, ch) <=> OnAfter(w, n + 1, sn[ch].on, ch)
  <2>1. sn2[ch].on <=> IF IsAck(w[1], ch) THEN w[1].type = "subscribed" ELSE sn[ch].on
    BY DEF Read1
  <2>2. OnAfter(Tail(w), n, sn2[ch].on, ch) <=> OnAfter(w, n + 1, sn[ch].on, ch)
    BY <2>1, OnRead
  <2> QED
    BY <2>2
<1>3. ASSUME NEW ch \in Channel
      PROVE  OnAfter(t, Len(t), sn2[ch].on, ch) <=> ch \in D
  <2>1. Len(t) \in 0..(Len(w) - 1) /\ Len(t) + 1 = Len(w)
    BY <1>1
  <2> QED
    BY <1>2, <2>1 DEF Tells
<1>4. ASSUME NEW i \in 1..Len(t), IsContent(t[i])
      PROVE  OnAfter(t, i - 1, sn2[t[i].channel].on, t[i].channel)
  <2>1. i + 1 \in 1..Len(w) /\ t[i] = w[i + 1] /\ i + 1 - 1 = i - 1 + 1 /\ i - 1 \in 0..(Len(w) - 1)
    BY <1>1
  <2>2. t[i].channel \in Channel
    BY <1>4, <2>1
  <2>3. OnAfter(w, i + 1 - 1, sn[t[i].channel].on, t[i].channel)
    BY <1>4, <2>1 DEF Brackets
  <2> QED
    BY <1>2, <2>1, <2>2, <2>3
<1> QED
  BY <1>3, <1>4 DEF Tells, Brackets

-----------------------------------------------------------------------------
(***************************************************************************)
(* The inductive invariant.                                                *)
(***************************************************************************)
IsFcn(f) == f = [x \in DOMAIN f |-> f[x]]

Entry == [ref : Nat, sub : STRING, state : PStates]
Frame ==
  [type : {"subscribed", "unsubscribed"}, channel : Channel]
    \cup [type : {"error", "authenticated"}]
    \cup [type : {"presence"}, channel : Channel, event : {"sync", "join", "leave"},
          presences : SUBSET Entry]
    \cup [type : {"change"}, channel : Channel, note : Notes]
    \cup [type : {"broadcast"}, channel : Channel, payload : PStates, from : STRING]
Sight == [on : BOOLEAN, roster : SUBSET Entry]

\* Connections, subscriptions and frames; a socket without a client has no
\* subscriptions, a client is a connected socket that has authenticated.
Typed ==
  /\ ws \in [Socket -> {"new", "open", "closing", "closed"}]
  /\ authed \in [Socket -> BOOLEAN]
  /\ grace \subseteq {s \in Socket : Connected(s) /\ ~authed[s]}
  /\ clients \subseteq {s \in Socket : Connected(s) /\ authed[s]}
  /\ subs = [s \in Socket |-> subs[s]]
  /\ \A s \in Socket :
       /\ ws[s] = "new" => ~authed[s]
       /\ IsFcn(subs[s]) /\ DOMAIN subs[s] \subseteq Channel
       /\ DOMAIN subs[s] # {} => s \in clients
  /\ wire \in [Socket -> Seq(Frame)]
  /\ seen \in [Socket -> [Channel -> Sight]]

\* The entries of the registry, and the references: those given out are
\* smaller than the next one.
Registered ==
  /\ presence = [ch \in Channel |-> presence[ch]]
  /\ \A ch \in Channel :
       /\ IsFcn(presence[ch])
       /\ \A s \in DOMAIN presence[ch] :
            /\ s \in clients /\ s \in DOMAIN refs
            /\ presence[ch][s] \in Entry
            /\ presence[ch][s].ref = refs[s] /\ presence[ch][s].sub = Claims[s].sub
  /\ \A s \in Socket : IsFiniteSet({ch \in Channel : s \in DOMAIN presence[ch]})
  /\ DOMAIN refs \subseteq clients /\ nextRef \in Nat
  /\ \A s \in DOMAIN refs : refs[s] \in Nat /\ refs[s] < nextRef
  /\ \A s, t \in DOMAIN refs : s # t => refs[s] # refs[t]

\* The owner gate, as OwnerScoped states it of every frame.
MaySee(s, f) ==
  f.type = "change" /\ Claims[s].role \notin Admins =>
    /\ ~f.note.truncated
    /\ Row(f.note) # NoRow /\ OwnerColumnsOf(Row(f.note)) # {} =>
         \E c \in Range(OwnerColumns) \cap DOMAIN Row(f.note) :
           ownerMatches(Claims[s].sub, Row(f.note)[c])

\* What the browser of s has been told or will be, is so.
Sound(s) ==
  /\ ws[s] \in {"new", "open"} => Tells(wire[s], seen[s], DOMAIN subs[s])
  /\ Brackets(wire[s], seen[s])
  /\ ws[s] = "open" => \A ch \in DOMAIN subs[s] :
       Shows(wire[s], seen[s][ch].roster, ch, snapshot(presence, ch))
  /\ \A i \in 1..Len(wire[s]) : MaySee(s, wire[s][i])

Booked == Typed /\ Registered

\* The browsers of A are told the truth.  Those of the other sockets may be gone.
IInv(A) == Booked /\ \A s \in A : Sound(s)

\* Nobody is connected, nothing is on a wire, nobody is present.
LEMMA InitIInv == Init => IInv(Socket)
<1> SUFFICES ASSUME Init PROVE IInv(Socket)
  OBVIOUS
<1>1. \A s \in Socket : wire[s] = <<>> /\ Len(wire[s]) = 0 /\ subs[s] = Empty /\ ws[s] = "new"
  BY EmptySeq DEF Init, Nothing
<1>2. DOMAIN Empty = {} /\ IsFcn(Empty)
  BY DEF Empty, IsFcn
<1>3. \A s \in Socket, ch \in Channel : ~seen[s][ch].on
  BY DEF Init
<1>4. Typed
  <2>1. seen \in [Socket -> [Channel -> Sight]]
    BY DEF Init, Sight
  <2>2. wire \in [Socket -> Seq(Frame)]
    BY DEF Init, Nothing
  <2> QED
    BY <1>1, <1>2, <2>1, <2>2 DEF Init, Typed, Connected
<1>5. Registered
  <2>1. \A ch \in Channel : presence[ch] = Empty
    BY DEF Init
  <2>2. \A s \in Socket : {ch \in Channel : s \in DOMAIN presence[ch]} = {}
    BY <1>2, <2>1
  <2>3. refs = Empty /\ nextRef = 1 /\ presence = [ch \in Channel |-> presence[ch]]
    BY DEF Init
  <2> QED
    BY <1>2, <2>1, <2>2, <2>3, FS_EmptySet DEF Registered
<1>6. ASSUME NEW s \in Socket
      PROVE  Sound(s)
  BY <1>1, <1>2, <1>3 DEF Sound, Tells, Brackets, OnAfter
<1> QED
  BY <1>4, <1>5, <1>6 DEF IInv, Booked

-----------------------------------------------------------------------------
(***************************************************************************)
(* Steps that push frames.                                                 *)
(***************************************************************************)

\* Frames that may be pushed to t beside its acknowledgements.
Fits(t, v) ==
  /\ \A j \in 1..Len(v) : /\ v[j].type \notin {"subscribed", "unsubscribed"}
                          /\ IsContent(v[j]) => v[j].channel \in DOMAIN subs[t]
                          /\ MaySee(t, v[j])
  /\ ws'[t] = "open" => \A ch \in DOMAIN subs[t] :
       /\ \A j \in 1..Len(v) : IsRoster(v[j], ch) => v[j].presences = snapshot(presence', ch)
       /\ \/ snapshot(presence', ch) = snapshot(presence, ch)
          \/ \E j \in 1..Len(v) : IsRoster(v[j], ch)

\* No frames fit wherever the registry stays.
LEMMA NothingFits ==
  ASSUME NEW t, presence' = presence
  PROVE  Fits(t, <<>>)
BY DEF Fits

\* Frames that are seen by those who may see them keep all frames so.
LEMMA SeenByOwners ==
  ASSUME NEW t, NEW F, NEW w \in Seq(F), NEW v \in Seq(F),
         \A i \in 1..Len(w) : MaySee(t, w[i]), \A j \in 1..Len(v) : MaySee(t, v[j])
  PROVE  \A i \in 1..Len(w \o v) : MaySee(t, (w \o v)[i])
<1>1. /\ \A i \in 1..Len(w) : (w \o v)[i] = w[i]
      /\ \A j \in 1..Len(v) : (w \o v)[Len(w) + j] = v[j]
      /\ \A i \in 1..Len(w \o v) : i \in 1..Len(w) \/ \E j \in 1..Len(v) : i = Len(w) + j
  BY Behind
<1> TAKE i \in 1..Len(w \o v)
<1>2. CASE i \in 1..Len(w)
  BY <1>1, <1>2
<1>3. ASSUME NEW j \in 1..Len(v), i = Len(w) + j
      PROVE  MaySee(t, (w \o v)[i])
  BY <1>1, <1>3
<1> QED
  BY <1>1, <1>2, <1>3

\* Frames that fit are pushed, and the socket may begin to close.
LEMMA PushSound ==
  ASSUME Typed, NEW t \in Socket, Sound(t), NEW out \in [Socket -> Seq(Frame)],
         Push(out), seen' = seen,
         ws'[t] = ws[t] \/ ws'[t] \in {"closing", "closed"},
         ws'[t] \in {"new", "open"} => subs'[t] = subs[t],
         ws[t] = "open" => Fits(t, out[t])
  PROVE  Sound(t)'
<1> USE DEF Typed
<1>1. wire'[t] = IF ws[t] = "open" THEN wire[t] \o out[t] ELSE wire[t]
  BY DEF Push
<1>2. wire[t] \in Seq(Frame) /\ out[t] \in Seq(Frame)
  OBVIOUS
<1>3. CASE ws[t] # "open"
  <2>1. wire'[t] = wire[t] /\ seen'[t] = seen[t] /\ ws'[t] # "open"
    BY <1>1, <1>3
  <2>2. ws'[t] = "new" => ws[t] = "new" /\ subs'[t] = subs[t]
    BY <1>3
  <2> QED
    BY <2>1, <2>2 DEF Sound
<1>4. CASE ws[t] = "open"
  <2> PICK v \in Seq(Frame) : v = out[t]
    BY <1>2
  <2> PICK w \in Seq(Frame) : w = wire[t]
    BY <1>2
  <2> PICK D : D = DOMAIN subs[t]
    OBVIOUS
  <2>1. wire'[t] = w \o v /\ seen'[t] = seen[t]
    BY <1>1, <1>4
  <2>2. Tells(w, seen[t], D) /\ Brackets(w, seen[t]) /\ \A i \in 1..Len(w) : MaySee(t, w[i])
    BY <1>4 DEF Sound
  <2>3. Fits(t, v)
    BY <1>4
  <2>4. \A j \in 1..Len(v) : /\ v[j].type \notin {"subscribed", "unsubscribed"}
                             /\ IsContent(v[j]) => v[j].channel \in Channel \cap D
                             /\ MaySee(t, v[j])
    BY <2>3 DEF Fits
  <2>5. Tells(w \o v, seen[t], D) /\ Brackets(w \o v, seen[t])
    BY <2>2, <2>4, Heard
  <2>6. \A i \in 1..Len(w \o v) : MaySee(t, (w \o v)[i])
    BY <2>2, <2>4, SeenByOwners
  <2>7. ASSUME ws'[t] = "open", NEW ch \in D
        PROVE  Shows(w \o v, seen[t][ch].roster, ch, snapshot(presence', ch))
    <3>1. Shows(w, seen[t][ch].roster, ch, snapshot(presence, ch))
      BY <1>4 DEF Sound
    <3>2. /\ \A j \in 1..Len(v) : IsRoster(v[j], ch) => v[j].presences = snapshot(presence', ch)
          /\ \/ snapshot(presence', ch) = snapshot(presence, ch)
             \/ \E j \in 1..Len(v) : IsRoster(v[j], ch)
      BY <2>3, <2>7 DEF Fits
    <3> QED
      BY <3>1, <3>2, RosterMoves
  <2>8. ws'[t] \in {"new", "open"} => DOMAIN subs'[t] = D
    OBVIOUS
  <2>9. \A i \in 1..Len(wire'[t]) : MaySee(t, wire'[t][i])
    BY <2>1, <2>6
  <2> QED
    BY <2>1, <2>5, <2>7, <2>8, <2>9 DEF Sound, MaySee
<1> QED
  BY <1>3, <1>4

\* Steps that push nothing and read nothing.
LEMMA SoundKept ==
  ASSUME Typed, NEW t \in Socket, Sound(t), UNCHANGED <<wire, seen, presence, subs>>,
         \/ ws'[t] = ws[t] \/ ws'[t] \in {"closing", "closed"}
         \/ ws[t] = "new" /\ DOMAIN subs[t] = {}
  PROVE  Sound(t)'
BY DEF Sound, Typed, MaySee

\* What a push leaves on the wires.
LEMMA PushTyped ==
  ASSUME Typed, NEW out \in [Socket -> Seq(Frame)], Push(out)
  PROVE  wire' \in [Socket -> Seq(Frame)]
<1>1. \A t \in Socket : wire[t] \o out[t] \in Seq(Frame) /\ wire[t] \in Seq(Frame)
  BY ConcatProperties DEF Typed
<1> QED
  BY <1>1 DEF Push

\* Snapshots are sets of entries.
LEMMA SnapshotTyped ==
  ASSUME Registered, NEW ch \in Channel
  PROVE  snapshot(presence, ch) \in SUBSET Entry
BY DEF Registered, snapshot

\* Frames have their types, and say what they are made of.
LEMMA FramesTyped ==
  /\ \A ch \in Channel : \A kind \in {"subscribed", "unsubscribed"} :
       /\ Ack(kind, ch) \in Frame
       /\ Ack(kind, ch).type = kind /\ Ack(kind, ch).channel = ch
  /\ \A kind \in {"error", "authenticated"} : Plain(kind) \in Frame /\ Plain(kind).type = kind
  /\ \A ch \in Channel : \A event \in {"sync", "join", "leave"}, roster \in SUBSET Entry :
       /\ PresenceFrame(ch, event, roster) \in Frame
       /\ PresenceFrame(ch, event, roster).type = "presence"
       /\ PresenceFrame(ch, event, roster).channel = ch
       /\ PresenceFrame(ch, event, roster).presences = roster
BY DEF Frame, Ack, Plain, PresenceFrame

\* A frame is sent to a set of sockets, or to nobody.
LEMMA SendsTyped ==
  /\ \A S, f : f \in Frame =>
       /\ ToAll(S, f) \in [Socket -> Seq(Frame)]
       /\ \A t \in Socket : ToAll(S, f)[t] = IF t \in S THEN <<f>> ELSE <<>>
  /\ Nothing \in [Socket -> Seq(Frame)] /\ \A t \in Socket : Nothing[t] = <<>>
<1>1. <<>> \in Seq(Frame) /\ \A f \in Frame : <<f>> \in Seq(Frame)
  OBVIOUS
<1> QED
  BY <1>1 DEF ToAll, Nothing

\* Frames are sent to one socket.
LEMMA ToOne ==
  ASSUME NEW s \in Socket, NEW v \in Seq(Frame)
  PROVE  /\ To(s, v) \in [Socket -> Seq(Frame)] /\ To(s, v)[s] = v
         /\ \A t \in Socket \ {s} : To(s, v)[t] = <<>>
<1>1. <<>> \in Seq(Frame)
  OBVIOUS
<1> QED
  BY <1>1 DEF To, Nothing

\* One frame that is no roster fits where it may be sent.
LEMMA OneFits ==
  ASSUME NEW t, NEW f \in Frame, presence' = presence,
         f.type \notin {"subscribed", "unsubscribed", "presence"},
         IsContent(f) => f.channel \in DOMAIN subs[t], MaySee(t, f)
  PROVE  Fits(t, <<f>>)
<1>1. Len(<<f>>) = 1 /\ \A j \in 1..Len(<<f>>) : <<f>>[j] = f
  OBVIOUS
<1>2. \A ch : ~IsRoster(f, ch)
  BY DEF IsRoster
<1> PICK v : v = <<f>>
  OBVIOUS
<1> QED
  BY <1>1, <1>2 DEF Fits

\* One frame that is about no channel fits, to anyone.
LEMMA PlainFits ==
  ASSUME NEW s \in Socket, NEW kind \in {"error", "authenticated"}, presence' = presence
  PROVE  \E out \in [Socket -> Seq(Frame)] :
           out = To(s, <<Plain(kind)>>) /\ \A t \in Socket : Fits(t, out[t])
<1> PICK f : f = Plain(kind)
  OBVIOUS
<1>1. f \in Frame /\ f.type = kind
  BY FramesTyped
<1>0. <<f>> \in Seq(Frame)
  BY <1>1
<1> PICK v : v = <<f>>
  OBVIOUS
<1>9. <<>> \in Seq(Frame) /\ v \in Seq(Frame)
  BY <1>0
<1>2. To(s, v) \in [Socket -> Seq(Frame)] /\ To(s, v)[s] = v
      /\ \A t \in Socket \ {s} : To(s, v)[t] = <<>>
  BY <1>9, ToOne
<1>3. Fits(s, v)
  BY <1>0, <1>1, OneFits DEF IsContent, MaySee
<1>4. \A t \in Socket \ {s} : Fits(t, <<>>)
  BY NothingFits
<1>5. \A t \in Socket : Fits(t, To(s, v)[t])
  <2> TAKE t \in Socket
  <2>1. CASE t = s
    BY <1>2, <1>3, <2>1
  <2>2. CASE t # s
    BY <1>2, <1>4, <2>2
  <2> QED
    BY <2>1, <2>2
<1> QED
  BY <1>2, <1>5

\* A roster of ch that is sent to its subscribers fits, if it is current and
\* those of other channels have not changed.
LEMMA RosterFits ==
  ASSUME Typed, NEW t \in Socket, NEW ch \in Channel, NEW event \in {"sync", "join", "leave"},
         NEW S, t \in S => ch \in DOMAIN subs[t], NEW r \in SUBSET Entry,
         r = snapshot(presence', ch),
         ws'[t] = "open" /\ ch \in DOMAIN subs[t] => t \in S,
         \A c \in Channel \ {ch} : snapshot(presence', c) = snapshot(presence, c)
  PROVE  Fits(t, ToAll(S, PresenceFrame(ch, event, r))[t])
<1> PICK f : f = PresenceFrame(ch, event, r)
  OBVIOUS
<1>1. f \in Frame /\ f.type = "presence" /\ f.channel = ch /\ f.presences = r
  BY FramesTyped
<1>2. MaySee(t, f)
  BY <1>1 DEF MaySee
<1>3. DOMAIN subs[t] \subseteq Channel
  BY DEF Typed
<1>4. CASE t \in S
  <2> PICK v : v = <<f>>
    OBVIOUS
  <2>1. Len(v) = 1 /\ v[1] = f
    OBVIOUS
  <2>2. ToAll(S, f)[t] = v
    BY <1>1, <1>4, SendsTyped
  <2>3. 1 \in 1..Len(v) /\ \A j \in 1..Len(v) : v[j] = f
    BY <2>1
  <2>4. Fits(t, v)
    BY <1>1, <1>2, <1>3, <1>4, <2>3 DEF Fits, IsRoster
  <2> QED
    BY <2>2, <2>4
<1>5. CASE t \notin S
  <2>1. ToAll(S, f)[t] = <<>>
    BY <1>5 DEF ToAll
  <2>2. Fits(t, <<>>)
    BY <1>3, <1>5 DEF Fits
  <2> QED
    BY <2>1, <2>2
<1> QED
  BY <1>4, <1>5

-----------------------------------------------------------------------------
(***************************************************************************)
(* The handlers of a connection.                                           *)
(***************************************************************************)

\* A socket is upgraded: served at once with a good token, on its grace timer
\* without one, closed with a bad one.
LEMMA ConnectKeeps ==
  ASSUME NEW A \in SUBSET Socket, IInv(A), NEW s \in Socket, NEW tok, Connect(s, tok)
  PROVE  IInv(A)'
<1> USE DEF IInv, Booked
<1>1. /\ ws[s] = "new" /\ ~authed[s] /\ s \notin grace /\ s \notin clients
      /\ DOMAIN subs[s] = {}
  BY DEF Connect, Typed, Connected
<1>2. UNCHANGED <<subs, presence, refs, nextRef, wire, seen>>
  BY DEF Connect, Add, hub
<1>3. ws' \in [Socket -> {"new", "open", "closing", "closed"}]
      /\ ws'[s] \in {"open", "closed"} /\ \A t \in Socket \ {s} : ws'[t] = ws[t]
  BY DEF Connect, Typed
<1>4. authed' \in [Socket -> BOOLEAN] /\ \A t \in Socket \ {s} : authed'[t] <=> authed[t]
  BY DEF Connect, Typed, Add
<1>5. tok = "none" => ws'[s] = "open" /\ ~authed'[s] /\ grace' = grace \cup {s} /\ clients' = clients
  BY <1>1 DEF Connect, Typed, hub
<1>6. tok = "good" => ws'[s] = "open" /\ authed'[s] /\ grace' = grace /\ clients' = clients \cup {s}
  BY <1>1 DEF Connect, Typed, Add
<1>7. tok \notin {"none", "good"} => grace' = grace /\ clients' = clients
  BY DEF Connect, hub
<1>8. Typed'
  <2>1. grace' \subseteq {t \in Socket : ws'[t] \in {"open", "closing"} /\ ~authed'[t]}
    <3>1. \A t \in grace : t \in Socket \ {s} /\ ws[t] \in {"open", "closing"} /\ ~authed[t]
      BY <1>1 DEF Typed, Connected
    <3>2. \A t \in grace : t \in Socket /\ ws'[t] \in {"open", "closing"} /\ ~authed'[t]
      BY <1>3, <1>4, <3>1
    <3>3. \A t \in grace' \ grace : t = s /\ ws'[s] = "open" /\ ~authed'[s]
      BY <1>5, <1>6, <1>7
    <3> QED
      BY <3>2, <3>3
  <2>2. clients' \subseteq {t \in Socket : ws'[t] \in {"open", "closing"} /\ authed'[t]}
    BY <1>1, <1>3, <1>4, <1>5, <1>6, <1>7 DEF Typed, Connected
  <2>3. \A t \in Socket : ws'[t] = "new" => ~authed'[t]
    BY <1>3, <1>4 DEF Typed
  <2>4. clients \subseteq clients'
    BY <1>5, <1>6, <1>7
  <2> QED
    BY <1>2, <1>3, <1>4, <2>1, <2>2, <2>3, <2>4 DEF Typed, Connected
<1>9. Registered'
  <2>1. clients \subseteq clients'
    BY <1>5, <1>6, <1>7
  <2> QED
    BY <1>2, <2>1 DEF Registered, snapshot
<1>10. ASSUME NEW t \in A
       PROVE  Sound(t)'
  <2>1. \/ ws'[t] = ws[t] \/ ws'[t] \in {"closing", "closed"}
        \/ ws[t] = "new" /\ DOMAIN subs[t] = {}
    BY <1>1, <1>3
  <2> QED
    BY <1>2, <2>1, SoundKept
<1> QED
  BY <1>8, <1>9, <1>10

\* Steps that only close a socket, or disarm its grace timer.
LEMMA ClosingKeeps ==
  ASSUME NEW A \in SUBSET Socket, IInv(A), NEW s \in Socket, ws[s] # "new",
         \/ ws' = ws
         \/ ws' = [ws EXCEPT ![s] = "closing"] /\ Connected(s),
         grace' \subseteq grace, UNCHANGED <<authed, hub, wire, seen>>
  PROVE  IInv(A)'
<1> USE DEF IInv, Booked, hub
<1>1. /\ ws' \in [Socket -> {"new", "open", "closing", "closed"}]
      /\ \A t \in Socket : \/ ws'[t] = ws[t]
                           \/ ws'[t] = "closing" /\ ws[t] \in {"open", "closing"}
  BY DEF Typed, Connected
<1>2. Typed'
  BY <1>1 DEF Typed, Connected
<1>3. Registered'
  BY DEF Registered
<1>4. \A t \in A : Sound(t)'
  BY <1>1, SoundKept
<1> QED
  BY <1>2, <1>3, <1>4

\* The token comes in a message: a good one makes the socket a client.
LEMMA AuthMessageKeeps ==
  ASSUME NEW A \in SUBSET Socket, IInv(A), NEW s \in Socket, NEW valid \in BOOLEAN, AuthMessage(s, valid)
  PROVE  IInv(A)'
<1> USE DEF IInv, Booked
<1>1. CASE ~valid
  BY <1>1, ClosingKeeps DEF AuthMessage, Connected
<1>2. CASE valid
  <2>1. /\ Connected(s) /\ ~authed[s] /\ authed' = [authed EXCEPT ![s] = TRUE]
        /\ clients' = clients \cup {s} /\ grace' = grace \ {s}
        /\ UNCHANGED <<ws, subs, presence, refs, nextRef, seen>>
        /\ Push(To(s, <<Plain("authenticated")>>))
    BY <1>2 DEF AuthMessage, Add
  <2> PICK out \in [Socket -> Seq(Frame)] :
        out = To(s, <<Plain("authenticated")>>) /\ \A t \in Socket : Fits(t, out[t])
    BY <2>1, PlainFits
  <2>4. Typed'
    <3>1. wire' \in [Socket -> Seq(Frame)]
      BY <2>1, PushTyped
    <3>2. ws[s] \in {"open", "closing"}
      BY <2>1 DEF Connected
    <3>3. /\ authed' \in [Socket -> BOOLEAN] /\ authed'[s]
          /\ \A t \in Socket \ {s} : authed'[t] <=> authed[t]
      BY <2>1 DEF Typed
    <3>4. grace' \subseteq {t \in Socket : ws'[t] \in {"open", "closing"} /\ ~authed'[t]}
      BY <2>1, <3>3 DEF Typed, Connected
    <3>5. clients' \subseteq {t \in Socket : ws'[t] \in {"open", "closing"} /\ authed'[t]}
      BY <2>1, <3>2, <3>3 DEF Typed, Connected
    <3>6. \A t \in Socket : ws'[t] = "new" => ~authed'[t]
      BY <2>1, <3>2, <3>3 DEF Typed, Connected
    <3> QED
      BY <2>1, <3>1, <3>3, <3>4, <3>5, <3>6 DEF Typed, Connected
  <2>5. Registered'
    BY <2>1 DEF Registered
  <2>6. \A t \in A : Sound(t)'
    BY <2>1, PushSound
  <2> QED
    BY <2>4, <2>5, <2>6
<1> QED
  BY <1>1, <1>2

\* The grace timer closes a socket that has not authenticated.
LEMMA GraceExpiresKeeps ==
  ASSUME NEW A \in SUBSET Socket, IInv(A), NEW s \in Socket, GraceExpires(s)
  PROVE  IInv(A)'
<1>1. ws' = ws \/ ws' = [ws EXCEPT ![s] = "closing"]
  BY DEF GraceExpires, IInv, Booked, Typed
<1> QED
  BY <1>1, ClosingKeeps DEF GraceExpires, Connected

-----------------------------------------------------------------------------
(***************************************************************************)
(* The messages of a client, and a change of the database.                 *)
(***************************************************************************)

\* Frames that fit are pushed, and no subscription changes.
LEMMA PushedKeeps ==
  ASSUME NEW A \in SUBSET Socket, IInv(A), NEW out \in [Socket -> Seq(Frame)], Push(out),
         UNCHANGED <<conn, clients, subs, seen>>, Registered',
         \A t \in Socket : ws[t] = "open" => Fits(t, out[t])
  PROVE  IInv(A)'
<1> USE DEF IInv, Booked, conn
<1>1. wire' \in [Socket -> Seq(Frame)]
  BY PushTyped
<1>2. Typed'
  BY <1>1 DEF Typed, Connected
<1>3. ASSUME NEW t \in A
      PROVE  Sound(t)'
  BY PushSound
<1> QED
  BY <1>2, <1>3

\* A refused frame is answered with an error.
LEMMA MalformedKeeps ==
  ASSUME NEW A \in SUBSET Socket, IInv(A), NEW s \in Socket, Malformed(s), UNCHANGED <<conn, seen>>
  PROVE  IInv(A)'
<1>1. UNCHANGED <<clients, subs, presence, refs, nextRef>>
  BY DEF Malformed, hub
<1>2. Registered'
  BY <1>1 DEF IInv, Booked, Registered
<1> PICK out \in [Socket -> Seq(Frame)] :
      out = To(s, <<Plain("error")>>) /\ \A t \in Socket : Fits(t, out[t])
  BY <1>1, PlainFits
<1> QED
  BY <1>1, <1>2, PushedKeeps DEF Malformed

\* One frame that is no roster goes to subscribers of its channel who may see it.
LEMMA OneKeeps ==
  ASSUME NEW A \in SUBSET Socket, IInv(A), NEW S, NEW f, UNCHANGED <<hub, conn, seen>>, Push(ToAll(S, f)),
         \A t \in S \cap Socket : f.channel \in DOMAIN subs[t] /\ MaySee(t, f) /\ f \in Frame,
         f.type \in {"broadcast", "change"}
  PROVE  IInv(A)'
<1>1. UNCHANGED <<clients, subs, presence, refs, nextRef>>
  BY DEF hub
<1>2. Registered'
  BY <1>1 DEF IInv, Booked, Registered
<1> PICK out : out = ToAll(S, f)
  OBVIOUS
<1>3. \A t \in Socket : (t \in S => out[t] = <<f>>) /\ (t \notin S => out[t] = <<>>)
  BY DEF ToAll
<1>4. ASSUME NEW t \in Socket
      PROVE  out[t] \in Seq(Frame) /\ Fits(t, out[t])
  <2>1. CASE t \in S
    <3>1. f \in Frame /\ f.channel \in DOMAIN subs[t] /\ MaySee(t, f)
      BY <2>1
    <3>2. Fits(t, <<f>>)
      BY <1>1, <3>1, OneFits
    <3>3. <<f>> \in Seq(Frame)
      BY <3>1
    <3> QED
      BY <1>3, <2>1, <3>2, <3>3
  <2>2. CASE t \notin S
    <3>1. <<>> \in Seq(Frame)
      OBVIOUS
    <3> QED
      BY <1>1, <1>3, <2>2, <3>1, NothingFits
  <2> QED
    BY <2>1, <2>2
<1>5. out \in [Socket -> Seq(Frame)]
  BY <1>4 DEF ToAll
<1> QED
  BY <1>1, <1>2, <1>4, <1>5, PushedKeeps

\* A broadcast goes to the subscribers of its channel.
LEMMA BroadcastKeeps ==
  ASSUME NEW A \in SUBSET Socket, IInv(A), NEW s \in Socket, NEW ch \in Channel, NEW payload \in PStates,
         broadcast(s, ch, payload), UNCHANGED <<conn, seen>>
  PROVE  IInv(A)'
<1> PICK S : S = IF BroadcastSelf THEN channelSubscribers(ch) ELSE channelSubscribers(ch) \ {s}
  OBVIOUS
<1> PICK f : f = [type |-> "broadcast", channel |-> ch, payload |-> payload, from |-> Claims[s].sub]
  OBVIOUS
<1>1. f \in Frame /\ f.type = "broadcast" /\ f.channel = ch
  BY DEF Frame
<1>2. \A t \in S : ch \in DOMAIN subs[t]
  BY DEF channelSubscribers
<1>3. \A t : MaySee(t, f)
  BY <1>1 DEF MaySee
<1>4. Push(ToAll(S, f)) /\ UNCHANGED hub
  BY DEF broadcast
<1> QED
  BY <1>1, <1>2, <1>3, <1>4, OneKeeps

\* A change goes to the subscribers of its table who pass the owner gate.
LEMMA DispatchKeeps ==
  ASSUME NEW A \in SUBSET Socket, IInv(A), NEW n \in Notes, Dispatch(n)
  PROVE  IInv(A)'
<1> PICK S : S = {s \in recipientsFor(n, channelSubscribers(n.table)) : Wants(subs[s][n.table], n)}
  OBVIOUS
<1> PICK f : f = ChangeFrame(n)
  OBVIOUS
<1>1. f = [type |-> "change", channel |-> n.table, note |-> n]
  BY DEF ChangeFrame
<1>2. f.type = "change" /\ f.channel = n.table /\ f.note = n
  BY <1>1
<1>3. Push(ToAll(S, f)) /\ UNCHANGED <<conn, hub, seen>>
  BY DEF Dispatch
<1>4. ASSUME NEW t \in S \cap Socket
      PROVE  f.channel \in DOMAIN subs[t] /\ MaySee(t, f) /\ f \in Frame
  <2>1. t \in recipientsFor(n, channelSubscribers(n.table))
    OBVIOUS
  <2>2. n.table \in DOMAIN subs[t]
    BY <2>1 DEF recipientsFor, channelSubscribers
  <2>3. f \in Frame
    <3>1. n.table \in Channel
      BY <2>2 DEF IInv, Booked, Typed
    <3> QED
      BY <1>1, <3>1 DEF Frame
  <2>4. ASSUME Claims[t].role \notin Admins
        PROVE  /\ ~n.truncated
               /\ Row(n) # NoRow /\ OwnerColumnsOf(Row(n)) # {} =>
                    \E c \in Range(OwnerColumns) \cap DOMAIN Row(n) :
                      ownerMatches(Claims[t].sub, Row(n)[c])
    <3>1. ~n.truncated
      BY <2>1, <2>4 DEF recipientsFor
    <3>2. ASSUME Row(n) # NoRow, OwnerColumnsOf(Row(n)) # {}
          PROVE  \E c \in Range(OwnerColumns) \cap DOMAIN Row(n) :
                   ownerMatches(Claims[t].sub, Row(n)[c])
      <4>1. PICK i \in OwnerColumnsOf(Row(n)) : ownerMatches(Claims[t].sub, Row(n)[OwnerColumns[i]])
        BY <2>1, <2>4, <3>2 DEF recipientsFor
      <4>2. OwnerColumns[i] \in Range(OwnerColumns) \cap DOMAIN Row(n)
        BY DEF OwnerColumnsOf, Range
      <4> QED
        BY <4>1, <4>2
    <3> QED
      BY <3>1, <3>2
  <2> QED
    BY <1>2, <2>2, <2>3, <2>4 DEF MaySee
<1> QED
  BY <1>2, <1>3, <1>4, OneKeeps

\* The subscribers of a channel are clients.
LEMMA SubscribersServed ==
  ASSUME Typed, NEW ch
  PROVE  \A t \in Socket : t \in channelSubscribers(ch) <=> ch \in DOMAIN subs[t]
BY DEF Typed, channelSubscribers

\* The registry of one channel changes, and its subscribers get the new roster.
LEMMA RosterKeeps ==
  ASSUME NEW A \in SUBSET Socket, IInv(A), NEW ch \in Channel, NEW event \in {"sync", "join", "leave"},
         UNCHANGED <<conn, clients, subs, seen>>, Registered',
         Push(ToAll(channelSubscribers(ch), PresenceFrame(ch, event, snapshot(presence', ch)))),
         \A c \in Channel \ {ch} : presence'[c] = presence[c]
  PROVE  IInv(A)'
<1> PICK r : r = snapshot(presence', ch)
  OBVIOUS
<1> PICK S : S = channelSubscribers(ch)
  OBVIOUS
<1>1. r \in SUBSET Entry
  BY DEF Registered, snapshot
<1>2. \A c \in Channel \ {ch} : snapshot(presence', c) = snapshot(presence, c)
  BY DEF snapshot
<1>3. \A t \in Socket : t \in S <=> ch \in DOMAIN subs[t]
  BY SubscribersServed DEF IInv, Booked
<1> PICK out : out = ToAll(S, PresenceFrame(ch, event, r))
  OBVIOUS
<1>4. \A t \in Socket : Fits(t, out[t])
  <2> TAKE t \in Socket
  <2>1. Fits(t, ToAll(S, PresenceFrame(ch, event, r))[t])
    BY <1>1, <1>2, <1>3, RosterFits DEF IInv, Booked
  <2> QED
    BY <2>1
<1>5. out \in [Socket -> Seq(Frame)]
  <2>1. PresenceFrame(ch, event, r) \in Frame
    BY <1>1, FramesTyped
  <2> QED
    BY <2>1, SendsTyped
<1>6. Push(out)
  OBVIOUS
<1> QED
  BY <1>4, <1>5, <1>6, PushedKeeps

\* A client is tracked in a channel under the one reference of its connection.
LEMMA PresenceTrackKeeps ==
  ASSUME NEW A \in SUBSET Socket, IInv(A), NEW s \in clients, NEW ch \in Channel, NEW state \in PStates,
         presenceTrack(s, ch, state), UNCHANGED <<conn, seen>>
  PROVE  IInv(A)'
<1> PICK e : e = [ref |-> RefFor(s), sub |-> Claims[s].sub, state |-> state]
  OBVIOUS
<1>1. /\ presence' = [presence EXCEPT ![ch] = With(@, s, e)]
      /\ refs' = With(refs, s, RefFor(s))
      /\ nextRef' = IF s \in DOMAIN refs THEN nextRef ELSE nextRef + 1
      /\ Push(ToAll(channelSubscribers(ch), PresenceFrame(ch, "join", snapshot(presence', ch))))
      /\ UNCHANGED <<clients, subs>>
  BY DEF presenceTrack
<1>2. s \in Socket
  BY DEF IInv, Booked, Typed
<1>3. RefFor(s) \in Nat /\ RefFor(s) < nextRef' /\ nextRef' \in Nat /\ nextRef <= nextRef'
  BY <1>1 DEF RefFor, IInv, Booked, Registered
<1>4. e \in Entry /\ e.ref = RefFor(s) /\ e.sub = Claims[s].sub
  BY <1>2, <1>3 DEF Entry
<1>5. /\ DOMAIN refs' = DOMAIN refs \cup {s} /\ refs'[s] = RefFor(s)
      /\ \A t \in DOMAIN refs \ {s} : refs'[t] = refs[t]
  BY <1>1 DEF With
<1>6. \A t \in DOMAIN refs : refs'[t] = refs[t]
  BY <1>5 DEF RefFor
<1>7. \A t \in DOMAIN refs \ {s} : refs[t] # RefFor(s)
  BY DEF RefFor, IInv, Booked, Registered
<1>8. presence' = [c \in Channel |-> presence'[c]]
      /\ \A c \in Channel \ {ch} : presence'[c] = presence[c]
  BY <1>1 DEF IInv, Booked, Registered
<1>9. presence'[ch] = With(presence[ch], s, e)
  BY <1>1 DEF IInv, Booked, Registered
<1>10. /\ DOMAIN presence'[ch] = DOMAIN presence[ch] \cup {s} /\ IsFcn(presence'[ch])
       /\ presence'[ch][s] = e
       /\ \A t \in DOMAIN presence[ch] \ {s} : presence'[ch][t] = presence[ch][t]
  BY <1>9 DEF With, IsFcn
<1>11. Registered'
  <2>1. ASSUME NEW c \in Channel
        PROVE  /\ IsFcn(presence'[c])
               /\ \A t \in DOMAIN presence'[c] :
                    /\ t \in clients' /\ t \in DOMAIN refs'
                    /\ presence'[c][t] \in Entry
                    /\ presence'[c][t].ref = refs'[t] /\ presence'[c][t].sub = Claims[t].sub
    <3>1. CASE c = ch
      <4>1. ASSUME NEW t \in DOMAIN presence'[ch], t # s
            PROVE  /\ t \in clients' /\ t \in DOMAIN refs'
                   /\ presence'[ch][t] \in Entry
                   /\ presence'[ch][t].ref = refs'[t] /\ presence'[ch][t].sub = Claims[t].sub
        BY <1>1, <1>5, <1>6, <1>10, <4>1 DEF IInv, Booked, Registered
      <4>2. /\ s \in clients' /\ s \in DOMAIN refs'
            /\ presence'[ch][s] \in Entry
            /\ presence'[ch][s].ref = refs'[s] /\ presence'[ch][s].sub = Claims[s].sub
        BY <1>1, <1>4, <1>5, <1>10
      <4> QED
        BY <1>10, <3>1, <4>1, <4>2
    <3>2. CASE c # ch
      BY <1>1, <1>5, <1>6, <1>8, <3>2 DEF IInv, Booked, Registered
    <3> QED
      BY <3>1, <3>2
  <2>2. ASSUME NEW t \in Socket
        PROVE  IsFiniteSet({c \in Channel : t \in DOMAIN presence'[c]})
    <3>1. IsFiniteSet({c \in Channel : t \in DOMAIN presence[c]})
      BY DEF IInv, Booked, Registered
    <3>2. IsFiniteSet({c \in Channel : t \in DOMAIN presence[c]} \cup {ch})
      BY <3>1, FS_AddElement
    <3>3. {c \in Channel : t \in DOMAIN presence'[c]} \subseteq
            {c \in Channel : t \in DOMAIN presence[c]} \cup {ch}
      BY <1>8
    <3> QED
      BY <3>2, <3>3, FS_Subset
  <2>3. DOMAIN refs' \subseteq clients'
    BY <1>1, <1>5 DEF IInv, Booked, Registered
  <2>4. \A t \in DOMAIN refs' : refs'[t] \in Nat /\ refs'[t] < nextRef'
    <3> TAKE t \in DOMAIN refs'
    <3>1. CASE t = s
      BY <1>3, <1>5, <3>1
    <3>2. CASE t # s
      <4>1. t \in DOMAIN refs /\ refs'[t] = refs[t] /\ refs[t] \in Nat /\ refs[t] < nextRef /\ nextRef \in Nat
        BY <1>5, <1>6, <3>2 DEF IInv, Booked, Registered
      <4> QED
        BY <1>3, <4>1
    <3> QED
      BY <3>1, <3>2
  <2>5. \A t, u \in DOMAIN refs' : t # u => refs'[t] # refs'[u]
    BY <1>5, <1>7 DEF IInv, Booked, Registered
  <2> QED
    BY <1>3, <1>8, <2>1, <2>2, <2>3, <2>4, <2>5 DEF Registered
<1> QED
  BY <1>1, <1>8, <1>11, RosterKeeps

\* An entry more or less goes from the registry.
LEMMA UntrackedRegistered ==
  ASSUME Booked, NEW s \in Socket, NEW ch \in Channel, presence' = Untracked(s, ch),
         UNCHANGED <<clients, refs, nextRef>>
  PROVE  /\ Registered' /\ \A c \in Channel \ {ch} : presence'[c] = presence[c]
         /\ s \notin DOMAIN presence[ch] => presence' = presence
<1>1. /\ presence' = [c \in Channel |-> presence'[c]]
      /\ \A c \in Channel \ {ch} : presence'[c] = presence[c]
      /\ presence'[ch] = Without(presence[ch], s)
  BY DEF Untracked, Booked, Registered
<1>2. /\ DOMAIN presence'[ch] = DOMAIN presence[ch] \ {s} /\ IsFcn(presence'[ch])
      /\ \A t \in DOMAIN presence[ch] \ {s} : presence'[ch][t] = presence[ch][t]
      /\ s \notin DOMAIN presence[ch] => presence'[ch] = presence[ch]
  <2>1. IsFcn(presence[ch])
    BY DEF Booked, Registered
  <2> QED
    BY <1>1, <2>1 DEF Without, Restrict, IsFcn
<1>3. ASSUME s \notin DOMAIN presence[ch]
      PROVE  presence' = presence
  <2>1. \A c \in Channel : presence'[c] = presence[c]
    BY <1>1, <1>2, <1>3
  <2>2. presence = [c \in Channel |-> presence[c]]
    BY DEF Booked, Registered
  <2> QED
    BY <1>1, <2>1, <2>2
<1>4. Registered'
  <2>1. ASSUME NEW c \in Channel
        PROVE  /\ IsFcn(presence'[c])
               /\ \A t \in DOMAIN presence'[c] :
                    /\ t \in clients' /\ t \in DOMAIN refs'
                    /\ presence'[c][t] \in Entry
                    /\ presence'[c][t].ref = refs'[t] /\ presence'[c][t].sub = Claims[t].sub
    <3>1. IsFcn(presence'[c]) /\ \A t \in DOMAIN presence'[c] :
            t \in DOMAIN presence[c] /\ presence'[c][t] = presence[c][t]
      <4>1. CASE c = ch
        BY <1>2, <4>1
      <4>2. CASE c # ch
        BY <1>1, <4>2 DEF Booked, Registered
      <4> QED
        BY <4>1, <4>2
    <3> QED
      BY <3>1 DEF Booked, Registered
  <2>2. ASSUME NEW t \in Socket
        PROVE  IsFiniteSet({c \in Channel : t \in DOMAIN presence'[c]})
    <3>1. IsFiniteSet({c \in Channel : t \in DOMAIN presence[c]})
      BY DEF Booked, Registered
    <3>2. {c \in Channel : t \in DOMAIN presence'[c]} \subseteq
            {c \in Channel : t \in DOMAIN presence[c]}
      BY <1>1, <1>2
    <3> QED
      BY <3>1, <3>2, FS_Subset
  <2> QED
    BY <1>1, <2>1, <2>2 DEF Booked, Registered
<1> QED
  BY <1>1, <1>3, <1>4

\* A client is no longer tracked in a channel: its subscribers hear it, or
\* there was nothing to tell.
LEMMA PresenceUntrackKeeps ==
  ASSUME NEW A \in SUBSET Socket, IInv(A), NEW s \in Socket, NEW ch \in Channel,
         presenceUntrack(s, ch), UNCHANGED <<conn, seen>>
  PROVE  IInv(A)'
<1>1. /\ presence' = Untracked(s, ch) /\ UNCHANGED <<clients, subs, refs, nextRef>>
      /\ Push(Leave(s, ch, channelSubscribers(ch)))
  BY DEF presenceUntrack
<1>2. /\ Registered' /\ \A c \in Channel \ {ch} : presence'[c] = presence[c]
      /\ s \notin DOMAIN presence[ch] => presence' = presence
  BY <1>1, UntrackedRegistered DEF IInv
<1>3. CASE s \in DOMAIN presence[ch]
  <2>1. Push(ToAll(channelSubscribers(ch), PresenceFrame(ch, "leave", snapshot(presence', ch))))
    BY <1>1, <1>3 DEF Leave
  <2> QED
    BY <1>1, <1>2, <2>1, RosterKeeps
<1>4. CASE s \notin DOMAIN presence[ch]
  <2>1. Push(Nothing)
    BY <1>1, <1>4 DEF Leave
  <2>2. \A t \in Socket : Fits(t, Nothing[t])
    BY <1>2, <1>4, NothingFits, SendsTyped
  <2>3. Nothing \in [Socket -> Seq(Frame)]
    BY SendsTyped
  <2> QED
    BY <1>1, <1>2, <2>1, <2>2, <2>3, PushedKeeps
<1> QED
  BY <1>3, <1>4

\* One client's subscriptions change.
LEMMA SubsTyped ==
  ASSUME Typed, NEW s \in clients, NEW g, subs' = [subs EXCEPT ![s] = g],
         IsFcn(g), DOMAIN g \subseteq Channel, UNCHANGED <<conn, clients, seen>>,
         NEW out \in [Socket -> Seq(Frame)], Push(out)
  PROVE  Typed' /\ subs'[s] = g /\ \A t \in Socket \ {s} : subs'[t] = subs[t]
<1>1. wire' \in [Socket -> Seq(Frame)]
  BY PushTyped
<1>2. s \in Socket /\ subs' = [t \in Socket |-> subs'[t]]
      /\ subs'[s] = g /\ \A t \in Socket \ {s} : subs'[t] = subs[t]
  BY DEF Typed
<1>3. ASSUME NEW t \in Socket
      PROVE  IsFcn(subs'[t]) /\ DOMAIN subs'[t] \subseteq Channel
             /\ (DOMAIN subs'[t] # {} => t \in clients')
  <2>1. CASE t = s
    BY <1>2, <2>1
  <2>2. CASE t # s
    BY <1>2, <2>2 DEF Typed
  <2> QED
    BY <2>1, <2>2
<1>4. UNCHANGED <<ws, authed, grace>>
  BY DEF conn
<1> QED
  BY <1>1, <1>2, <1>3, <1>4 DEF Typed, Connected

\* A client subscribes: it gets the acknowledgement, then the roster.
LEMMA SubscribeKeeps ==
  ASSUME NEW A \in SUBSET Socket, IInv(A), NEW s \in clients, NEW ch \in Channel, NEW event, NEW filter,
         subscribe(s, ch, event, filter), UNCHANGED <<conn, seen>>
  PROVE  IInv(A)'
<1> PICK g : g = With(subs[s], ch, [event |-> event, filter |-> filter])
  OBVIOUS
<1> PICK r : r = snapshot(presence, ch)
  OBVIOUS
<1> PICK a : a = Ack("subscribed", ch)
  OBVIOUS
<1> PICK p : p = PresenceFrame(ch, "sync", r)
  OBVIOUS
<1> PICK v : v = <<a, p>>
  OBVIOUS
<1>1. /\ subs' = [subs EXCEPT ![s] = g] /\ UNCHANGED <<clients, presence, refs, nextRef>>
      /\ Push(To(s, v))
  BY DEF subscribe
<1>2. s \in Socket /\ ws' = ws
  BY DEF IInv, Booked, Typed, conn
<1>3. DOMAIN g = DOMAIN subs[s] \cup {ch} /\ IsFcn(g)
  BY DEF With, IsFcn
<1>4. DOMAIN g \subseteq Channel
  BY <1>2, <1>3 DEF IInv, Booked, Typed
<1>5. r \in SUBSET Entry
  BY SnapshotTyped DEF IInv, Booked
<1>6. a \in Frame /\ a.type = "subscribed" /\ a.channel = ch
  BY FramesTyped
<1>7. p \in Frame /\ p.type = "presence" /\ p.channel = ch /\ p.presences = r
  BY <1>5, FramesTyped
<1>8. v \in Seq(Frame) /\ Len(v) = 2 /\ v[1] = a /\ v[2] = p
  BY <1>6, <1>7
<1> PICK out : out = To(s, v)
  OBVIOUS
<1>9. out \in [Socket -> Seq(Frame)] /\ out[s] = v /\ \A t \in Socket \ {s} : out[t] = <<>>
  <2>1. v \in Seq(Frame)
    BY <1>8
  <2>2. /\ To(s, v) \in [Socket -> Seq(Frame)] /\ To(s, v)[s] = v
        /\ \A t \in Socket \ {s} : To(s, v)[t] = <<>>
    BY <1>2, <2>1, ToOne
  <2> QED
    BY <2>2
<1>10. Typed' /\ subs'[s] = g /\ \A t \in Socket \ {s} : subs'[t] = subs[t]
  <2>1. Push(out)
    BY <1>1
  <2> QED
    BY <1>1, <1>3, <1>4, <1>9, <2>1, SubsTyped DEF IInv, Booked
<1>11. Registered'
  BY <1>1 DEF IInv, Booked, Registered
<1>12. ASSUME NEW t \in A, t # s
       PROVE  Sound(t)'
  <2>1. Fits(t, <<>>)
    BY <1>1, NothingFits
  <2>2. Fits(t, out[t]) /\ subs'[t] = subs[t] /\ Push(out)
    BY <1>1, <1>9, <1>10, <1>12, <2>1
  <2> QED
    BY <1>2, <1>9, <2>2, PushSound DEF IInv, Booked
<1>13. ASSUME s \in A PROVE Sound(s)'
  <2>0. wire'[s] = (IF ws[s] = "open" THEN wire[s] \o v ELSE wire[s]) /\ seen' = seen
    BY <1>1, <1>2, <1>9 DEF Push
  <2>1. CASE ws[s] # "open"
    <3>1. ws[s] # "new"
      BY DEF IInv, Booked, Typed, Connected
    <3>2. wire'[s] = wire[s] /\ ws'[s] # "open" /\ ws'[s] # "new"
      BY <1>2, <2>0, <2>1, <3>1
    <3> QED
      BY <1>2, <2>0, <3>2, <1>13 DEF IInv, Booked, Sound, MaySee
  <2>2. CASE ws[s] = "open"
    <3> PICK w : w = wire[s]
      OBVIOUS
    <3> PICK D : D = DOMAIN subs[s]
      OBVIOUS
    <3>1. w \in Seq(Frame)
      BY <1>2 DEF IInv, Booked, Typed
    <3>2. Tells(w, seen[s], D) /\ Brackets(w, seen[s]) /\ \A i \in 1..Len(w) : MaySee(s, w[i])
      BY <1>2, <2>2, <1>13 DEF IInv, Booked, Sound
    <3>3. Subscribed(v, ch)
      BY <1>6, <1>7, <1>8 DEF Subscribed
    <3>4. Tells(w \o v, seen[s], D \cup {ch}) /\ Brackets(w \o v, seen[s])
      BY <1>8, <3>1, <3>2, <3>3, SubscribedHeard
    <3>5. \A j \in 1..Len(v) : v[j] = a \/ v[j] = p
      <4>1. \A j \in 1..Len(v) : j = 1 \/ j = 2
        BY <1>8
      <4> QED
        BY <1>8, <4>1
    <3>6. MaySee(s, a) /\ MaySee(s, p)
      BY <1>6, <1>7 DEF MaySee
    <3>7. \A j \in 1..Len(v) : MaySee(s, v[j])
      BY <3>5, <3>6
    <3>8. \A i \in 1..Len(w \o v) : MaySee(s, (w \o v)[i])
      BY <1>8, <3>1, <3>2, <3>7, SeenByOwners
    <3>9. ASSUME NEW c \in D \cup {ch}
          PROVE  Shows(w \o v, seen[s][c].roster, c, snapshot(presence, c))
      <4>1. CASE c = ch
        <5>1. \A j \in 1..Len(v) : IsRoster(v[j], ch) => v[j].presences = r
          BY <1>6, <1>7, <3>5 DEF IsRoster
        <5>2. 2 \in 1..Len(v) /\ IsRoster(v[2], ch)
          BY <1>7, <1>8 DEF IsRoster
        <5>3. Shows(w \o v, seen[s][c].roster, ch, r)
          BY <1>8, <3>1, <5>1, <5>2, RosterMoves
        <5> QED
          BY <4>1, <5>3
      <4>2. CASE c # ch
        <5>1. \A j \in 1..Len(v) : ~IsRoster(v[j], c)
          BY <1>6, <1>7, <3>5, <4>2 DEF IsRoster
        <5>2. Shows(w, seen[s][c].roster, c, snapshot(presence, c))
          BY <1>2, <2>2, <4>2, <1>13 DEF IInv, Booked, Sound
        <5> QED
          BY <1>8, <3>1, <5>1, <5>2, RosterMoves
      <4> QED
        BY <4>1, <4>2
    <3>10. DOMAIN subs'[s] = D \cup {ch} /\ wire'[s] = w \o v /\ presence' = presence
      BY <1>1, <1>3, <1>10, <2>0, <2>2
    <3>11. \A c : snapshot(presence', c) = snapshot(presence, c)
      BY <3>10
    <3>12. \A i \in 1..Len(wire'[s]) : MaySee(s, wire'[s][i])
      BY <3>8, <3>10
    <3> QED
      BY <2>0, <3>4, <3>9, <3>10, <3>11, <3>12 DEF Sound, MaySee
  <2> QED
    BY <2>1, <2>2
<1> QED
  BY <1>10, <1>11, <1>12, <1>13 DEF IInv, Booked

\* A client unsubscribes: it gets the acknowledgement, and is tracked no more;
\* the other subscribers hear it, if it was.
LEMMA UnsubscribeKeeps ==
  ASSUME NEW A \in SUBSET Socket, IInv(A), NEW s \in clients, NEW ch \in Channel,
         unsubscribe(s, ch), UNCHANGED <<conn, seen>>
  PROVE  IInv(A)'
<1> PICK g : g = Without(subs[s], ch)
  OBVIOUS
<1> PICK a : a = Ack("unsubscribed", ch)
  OBVIOUS
<1> PICK v : v = <<a>>
  OBVIOUS
<1> PICK S : S = channelSubscribers(ch) \ {s}
  OBVIOUS
<1> PICK leave : leave = Leave(s, ch, S)
  OBVIOUS
<1> PICK out : out = Then(To(s, v), leave)
  OBVIOUS
<1>1. /\ subs' = [subs EXCEPT ![s] = g] /\ presence' = Untracked(s, ch)
      /\ UNCHANGED <<clients, refs, nextRef>> /\ Push(out)
  BY DEF unsubscribe
<1>2. s \in Socket /\ ws' = ws
  BY DEF IInv, Booked, Typed, conn
<1>3. DOMAIN g = DOMAIN subs[s] \ {ch} /\ IsFcn(g)
  BY DEF Without, Restrict, IsFcn
<1>4. DOMAIN g \subseteq Channel
  BY <1>2, <1>3 DEF IInv, Booked, Typed
<1>5. /\ Registered' /\ \A c \in Channel \ {ch} : presence'[c] = presence[c]
      /\ s \notin DOMAIN presence[ch] => presence' = presence
  BY <1>1, <1>2, UntrackedRegistered DEF IInv
<1>6. a \in Frame /\ a.type = "unsubscribed" /\ a.channel = ch
  BY FramesTyped
<1>7. v \in Seq(Frame) /\ Len(v) = 1 /\ v[1] = a
  BY <1>6
<1>8. To(s, v)[s] = v /\ \A t \in Socket \ {s} : To(s, v)[t] = <<>>
  BY <1>2, <1>7, ToOne
<1>9. /\ leave \in [Socket -> Seq(Frame)] /\ leave[s] = <<>>
      /\ \A t \in Socket \ {s} : Fits(t, leave[t])
  <2>1. CASE s \notin DOMAIN presence[ch]
    <3>1. leave = Nothing
      BY <2>1 DEF Leave
    <3>2. Nothing \in [Socket -> Seq(Frame)] /\ \A t \in Socket : Nothing[t] = <<>>
      BY SendsTyped
    <3>3. \A t : Fits(t, <<>>)
      BY <1>5, <2>1, NothingFits
    <3> QED
      BY <1>2, <3>1, <3>2, <3>3
  <2>2. CASE s \in DOMAIN presence[ch]
    <3> PICK r : r = snapshot(presence', ch)
      OBVIOUS
    <3>1. leave = ToAll(S, PresenceFrame(ch, "leave", r))
      BY <1>1, <2>2 DEF Leave
    <3>2. r \in SUBSET Entry
      BY <1>5 DEF Registered, snapshot
    <3>3. leave \in [Socket -> Seq(Frame)] /\ leave[s] = <<>>
      <4> PICK p : p = PresenceFrame(ch, "leave", r)
        OBVIOUS
      <4>1. p \in Frame
        BY <3>2, FramesTyped
      <4>2. ToAll(S, p) \in [Socket -> Seq(Frame)]
        BY <4>1, SendsTyped
      <4>3. leave[s] = <<>>
        BY <1>2, <3>1 DEF ToAll
      <4> QED
        BY <3>1, <4>2, <4>3
    <3>4. \A c \in Channel \ {ch} : snapshot(presence', c) = snapshot(presence, c)
      BY <1>5 DEF snapshot
    <3>5. ASSUME NEW t \in Socket \ {s}
          PROVE  Fits(t, leave[t])
      <4>1. t \in S <=> ch \in DOMAIN subs[t]
        BY SubscribersServed DEF IInv, Booked
      <4>2. Fits(t, ToAll(S, PresenceFrame(ch, "leave", r))[t])
        BY <3>2, <3>4, <4>1, RosterFits DEF IInv, Booked
      <4> QED
        BY <3>1, <4>2
    <3> QED
      BY <3>3, <3>5
  <2> QED
    BY <2>1, <2>2
<1>10. /\ out \in [Socket -> Seq(Frame)] /\ out[s] = v
       /\ \A t \in Socket \ {s} : out[t] = leave[t]
  <2>1. v \o <<>> = v
    BY <1>7, ConcatEmptySeq
  <2>2. \A t \in Socket \ {s} : <<>> \o leave[t] = leave[t]
    <3> TAKE t \in Socket \ {s}
    <3>1. leave[t] \in Seq(Frame)
      BY <1>9
    <3> QED
      BY <3>1, ConcatEmptySeq
  <2>3. \A t \in Socket : out[t] = To(s, v)[t] \o leave[t]
    BY DEF Then
  <2>4. out[s] = v /\ \A t \in Socket \ {s} : out[t] = leave[t]
    <3>1. out[s] = v \o <<>>
      BY <1>2, <1>8, <1>9, <2>3
    <3>2. \A t \in Socket \ {s} : out[t] = <<>> \o leave[t]
      BY <1>8, <2>3
    <3> QED
      BY <2>1, <2>2, <3>1, <3>2
  <2>5. \A t \in Socket : out[t] \in Seq(Frame)
    <3> TAKE t \in Socket
    <3>1. CASE t = s
      BY <1>7, <2>4, <3>1
    <3>2. CASE t # s
      BY <1>9, <2>4, <3>2
    <3> QED
      BY <3>1, <3>2
  <2> QED
    BY <2>4, <2>5 DEF Then
<1>11. Typed' /\ subs'[s] = g /\ \A t \in Socket \ {s} : subs'[t] = subs[t]
  BY <1>1, <1>3, <1>4, <1>10, SubsTyped DEF IInv, Booked
<1>12. ASSUME NEW t \in A, t # s
       PROVE  Sound(t)'
  <2>1. Fits(t, out[t]) /\ subs'[t] = subs[t]
    BY <1>9, <1>10, <1>11, <1>12
  <2> QED
    BY <1>1, <1>2, <1>10, <2>1, PushSound DEF IInv, Booked
<1>13. ASSUME s \in A PROVE Sound(s)'
  <2>0. wire'[s] = (IF ws[s] = "open" THEN wire[s] \o v ELSE wire[s]) /\ seen' = seen
    BY <1>1, <1>2, <1>10 DEF Push
  <2>1. CASE ws[s] # "open"
    <3>1. ws[s] # "new"
      BY DEF IInv, Booked, Typed, Connected
    <3>2. wire'[s] = wire[s] /\ ws'[s] # "open" /\ ws'[s] # "new"
      BY <1>2, <2>0, <2>1, <3>1
    <3> QED
      BY <1>2, <2>0, <3>2, <1>13 DEF IInv, Booked, Sound, MaySee
  <2>2. CASE ws[s] = "open"
    <3> PICK w : w = wire[s]
      OBVIOUS
    <3> PICK D : D = DOMAIN subs[s]
      OBVIOUS
    <3>1. w \in Seq(Frame)
      BY <1>2 DEF IInv, Booked, Typed
    <3>2. Tells(w, seen[s], D) /\ Brackets(w, seen[s]) /\ \A i \in 1..Len(w) : MaySee(s, w[i])
      BY <1>2, <2>2, <1>13 DEF IInv, Booked, Sound
    <3>3. Unsubscribed(v, ch)
      BY <1>6, <1>7 DEF Unsubscribed
    <3>4. Tells(w \o v, seen[s], D \ {ch}) /\ Brackets(w \o v, seen[s])
      BY <1>7, <3>1, <3>2, <3>3, UnsubscribedHeard
    <3>5. \A j \in 1..Len(v) : v[j] = a
      BY <1>7
    <3>6. \A j \in 1..Len(v) : MaySee(s, v[j])
      BY <1>6, <3>5 DEF MaySee
    <3>7. \A i \in 1..Len(w \o v) : MaySee(s, (w \o v)[i])
      BY <1>7, <3>1, <3>2, <3>6, SeenByOwners
    <3>8. ASSUME NEW c \in D \ {ch}
          PROVE  Shows(w \o v, seen[s][c].roster, c, snapshot(presence', c))
      <4>1. \A j \in 1..Len(v) : ~IsRoster(v[j], c)
        BY <1>6, <3>5 DEF IsRoster
      <4>2. Shows(w, seen[s][c].roster, c, snapshot(presence, c))
        BY <1>2, <2>2, <1>13 DEF IInv, Booked, Sound
      <4>3. c \in Channel \ {ch}
        BY <1>2 DEF IInv, Booked, Typed
      <4>4. snapshot(presence', c) = snapshot(presence, c)
        BY <1>5, <4>3 DEF snapshot
      <4> QED
        BY <1>7, <3>1, <4>1, <4>2, <4>4, RosterMoves
    <3>9. DOMAIN subs'[s] = D \ {ch} /\ wire'[s] = w \o v
      BY <1>3, <1>11, <2>0, <2>2
    <3>10. \A i \in 1..Len(wire'[s]) : MaySee(s, wire'[s][i])
      BY <3>7, <3>9
    <3> QED
      BY <2>0, <3>4, <3>8, <3>9, <3>10 DEF Sound, MaySee
  <2> QED
    BY <2>1, <2>2
<1> QED
  BY <1>5, <1>11, <1>12, <1>13 DEF IInv, Booked

-----------------------------------------------------------------------------
(***************************************************************************)
(* A client is removed.                                                    *)
(***************************************************************************)

\* q has members of S only, and all of A.
Lists(q, A, S) ==
  /\ q \in Seq(S) /\ Len(q) \in Nat /\ DOMAIN q = 1..Len(q)
  /\ \A c \in A : \E i \in 1..Len(q) : q[i] = c

\* A list of a finite set's members, each once, has them all.
LEMMA AllListed ==
  ASSUME NEW S, IsFiniteSet(S), NEW q \in SetToSeqs(S)
  PROVE  Lists(q, S, S)
<1> PICK n \in Nat : n = Cardinality(S)
  BY FS_CardinalityType
<1> PICK D : D = 1..n
  OBVIOUS
<1>1. q \in [D -> S] /\ \A i, j \in D : i # j => q[i] # q[j]
  BY DEF SetToSeqs
<1>2. q \in Injection(D, S)
  BY <1>1 DEF Injection, IsInjective
<1>3. Cardinality(D) = n
  BY FS_Interval
<1>4. q \in Surjection(D, S)
  BY <1>2, <1>3, FS_Injection
<1>5. \A c \in S : \E i \in D : q[i] = c
  BY <1>4 DEF Surjection
<1>6. q \in Seq(S)
  BY <1>1, SeqDef
<1>7. Len(q) = n /\ DOMAIN q = D
  BY <1>1, <1>6, LenProperties
<1> QED
  BY <1>5, <1>6, <1>7 DEF Lists

\* The registry without a client.
LEMMA RemovedRegistered ==
  ASSUME Booked, NEW s \in Socket, clients' = clients \ {s}, UNCHANGED nextRef,
         presence' = [ch \in Channel |-> Without(presence[ch], s)],
         refs' = Without(refs, s)
  PROVE  Registered'
<1>1. /\ DOMAIN refs' = DOMAIN refs \ {s}
      /\ \A t \in DOMAIN refs \ {s} : refs'[t] = refs[t]
  BY DEF Without, Restrict
<1>2. ASSUME NEW c \in Channel
      PROVE  /\ IsFcn(presence'[c]) /\ DOMAIN presence'[c] = DOMAIN presence[c] \ {s}
             /\ \A t \in DOMAIN presence'[c] : presence'[c][t] = presence[c][t]
  <2>1. presence'[c] = Without(presence[c], s)
    OBVIOUS
  <2> QED
    BY <2>1 DEF Without, Restrict, IsFcn
<1>3. ASSUME NEW c \in Channel, NEW t \in DOMAIN presence'[c]
      PROVE  /\ t \in clients' /\ t \in DOMAIN refs'
             /\ presence'[c][t] \in Entry
             /\ presence'[c][t].ref = refs'[t] /\ presence'[c][t].sub = Claims[t].sub
  <2> PICK e : e = presence[c][t]
    OBVIOUS
  <2>1. t \in DOMAIN presence[c] /\ t # s /\ presence'[c][t] = e
    BY <1>2, <1>3
  <2>2. t \in clients /\ t \in DOMAIN refs /\ e \in Entry /\ e.ref = refs[t] /\ e.sub = Claims[t].sub
    BY <2>1 DEF Booked, Registered
  <2> QED
    BY <1>1, <2>1, <2>2
<1>4. ASSUME NEW t \in Socket
      PROVE  IsFiniteSet({c \in Channel : t \in DOMAIN presence'[c]})
  <2>1. IsFiniteSet({c \in Channel : t \in DOMAIN presence[c]})
    BY DEF Booked, Registered
  <2>2. {c \in Channel : t \in DOMAIN presence'[c]} \subseteq
          {c \in Channel : t \in DOMAIN presence[c]}
    BY <1>2
  <2> QED
    BY <2>1, <2>2, FS_Subset
<1>5. presence' = [c \in Channel |-> presence'[c]]
  OBVIOUS
<1>6. /\ DOMAIN refs' \subseteq clients' /\ nextRef' \in Nat
      /\ \A t \in DOMAIN refs' : refs'[t] \in Nat /\ refs'[t] < nextRef'
      /\ \A t, u \in DOMAIN refs' : t # u => refs'[t] # refs'[u]
  BY <1>1 DEF Booked, Registered
<1> QED
  BY <1>2, <1>3, <1>4, <1>5, <1>6 DEF Registered

\* Another hears of all the channels it shares with the client that is removed.
LEMMA NoticesListed ==
  ASSUME Booked, NEW s \in Socket, NEW t \in Socket,
         NEW left, \A c : c \in left <=> c \in Channel /\ s \in DOMAIN presence[c],
         NEW place, NEW q \in Notices(t, s, left, place)
  PROVE  Lists(q, {c \in DOMAIN subs[t] : t # s /\ s \in DOMAIN presence[c]}, DOMAIN subs[t])
<1> PICK C : C = {ch \in left : t \in channelSubscribers(ch) \ {s}}
  OBVIOUS
<1>1. IsFiniteSet(C)
  <2>1. IsFiniteSet({c \in Channel : s \in DOMAIN presence[c]})
    BY DEF Booked, Registered
  <2>2. C \subseteq {c \in Channel : s \in DOMAIN presence[c]}
    OBVIOUS
  <2> QED
    BY <2>1, <2>2, FS_Subset
<1>2. q \in SetToSeqs(C)
  BY DEF Notices
<1>3. Lists(q, C, C)
  BY <1>1, <1>2, AllListed
<1>4. \A c \in C : c \in DOMAIN subs[t]
  BY DEF channelSubscribers
<1>5. \A c \in DOMAIN subs[t] : t # s /\ s \in DOMAIN presence[c] => c \in C
  BY DEF channelSubscribers, Booked, Typed
<1> QED
  BY <1>3, <1>4, <1>5, ElementOfSeq DEF Lists

\* The leaves of the client that is removed fit whoever gets them: each tells
\* the roster that stays, and none that changes is left out.
LEMMA LeavesFit ==
  ASSUME Booked, NEW s \in Socket, NEW t \in Socket, ws'[s] # "open",
         presence' = [ch \in Channel |-> Without(presence[ch], s)],
         NEW left, \A c : c \in left <=> c \in Channel /\ s \in DOMAIN presence[c],
         NEW place, NEW q \in Notices(t, s, left, place),
         NEW v, IsFcn(v), DOMAIN v = DOMAIN q,
         \A i \in DOMAIN q :
           v[i] = PresenceFrame(q[i], "leave", snapshot(Untracked(s, q[i]), q[i]))
  PROVE  v \in Seq(Frame) /\ Fits(t, v)
<1>1. Lists(q, {c \in DOMAIN subs[t] : t # s /\ s \in DOMAIN presence[c]}, DOMAIN subs[t])
  BY NoticesListed
<1>2. DOMAIN subs[t] \subseteq Channel
  BY DEF Booked, Typed
<1>3. /\ Len(q) \in Nat /\ DOMAIN q = 1..Len(q)
      /\ \A i \in 1..Len(q) : q[i] \in Channel /\ q[i] \in DOMAIN subs[t]
      /\ \A c \in DOMAIN subs[t] : t # s /\ s \in DOMAIN presence[c] =>
           \E i \in 1..Len(q) : q[i] = c
  BY <1>1, <1>2, ElementOfSeq DEF Lists
<1>5. ASSUME NEW c \in Channel
      PROVE  /\ snapshot(Untracked(s, c), c) = snapshot(presence', c)
             /\ snapshot(presence', c) \in SUBSET Entry
             /\ s \notin DOMAIN presence[c] => snapshot(presence', c) = snapshot(presence, c)
  <2>1. presence'[c] = Without(presence[c], s) /\ Untracked(s, c)[c] = Without(presence[c], s)
    BY DEF Untracked, Booked, Registered
  <2>2. DOMAIN presence'[c] = DOMAIN presence[c] \ {s}
        /\ \A u \in DOMAIN presence'[c] : presence'[c][u] = presence[c][u]
    BY <2>1 DEF Without, Restrict
  <2>3. snapshot(Untracked(s, c), c) = snapshot(presence', c)
    BY <2>1 DEF snapshot
  <2>4. snapshot(presence', c) \in SUBSET Entry
    BY <2>2 DEF snapshot, Booked, Registered
  <2>5. ASSUME s \notin DOMAIN presence[c]
        PROVE  snapshot(presence', c) = snapshot(presence, c)
    <3>1. DOMAIN presence'[c] = DOMAIN presence[c]
      BY <2>2, <2>5
    <3> QED
      BY <2>2, <3>1 DEF snapshot
  <2> QED
    BY <2>3, <2>4, <2>5
<1>6. ASSUME NEW i \in 1..Len(q)
      PROVE  /\ q[i] \in DOMAIN subs[t] /\ v[i] \in Frame
             /\ v[i].type = "presence" /\ v[i].channel = q[i]
             /\ v[i].presences = snapshot(presence', q[i])
  <2>1. q[i] \in DOMAIN subs[t] /\ q[i] \in Channel
    BY <1>3
  <2> PICK r : r = snapshot(presence', q[i])
    OBVIOUS
  <2>2. r \in SUBSET Entry /\ v[i] = PresenceFrame(q[i], "leave", r)
    BY <1>3, <1>5, <2>1
  <2> QED
    BY <2>1, <2>2, FramesTyped
<1>7. v \in Seq(Frame) /\ Len(v) = Len(q)
  <2>1. Len(q) \in Nat /\ v \in [1..Len(q) -> Frame]
    BY <1>3, <1>6 DEF IsFcn
  <2>2. v \in Seq(Frame)
    BY <2>1, SeqDef
  <2> QED
    BY <2>1, <2>2, LenProperties
<1>8. ASSUME NEW j \in 1..Len(v)
      PROVE  /\ v[j].type \notin {"subscribed", "unsubscribed"}
             /\ IsContent(v[j]) => v[j].channel \in DOMAIN subs[t]
             /\ MaySee(t, v[j])
  BY <1>6, <1>7 DEF MaySee
<1>9. ASSUME ws'[t] = "open", NEW ch \in DOMAIN subs[t]
      PROVE  /\ \A j \in 1..Len(v) : IsRoster(v[j], ch) => v[j].presences = snapshot(presence', ch)
             /\ \/ snapshot(presence', ch) = snapshot(presence, ch)
                \/ \E j \in 1..Len(v) : IsRoster(v[j], ch)
  <2>1. t # s /\ ch \in Channel
    BY <1>9 DEF Booked, Typed
  <2>2. \A j \in 1..Len(v) : IsRoster(v[j], ch) => v[j].presences = snapshot(presence', ch)
    <3> SUFFICES ASSUME NEW j \in 1..Len(v), IsRoster(v[j], ch)
                 PROVE  v[j].presences = snapshot(presence', ch)
      OBVIOUS
    <3>1. v[j].channel = q[j] /\ v[j].presences = snapshot(presence', q[j])
      BY <1>6, <1>7
    <3>2. q[j] = ch
      BY <3>1 DEF IsRoster
    <3> QED
      BY <3>1, <3>2
  <2>3. CASE s \in DOMAIN presence[ch]
    <3>2. PICK j \in 1..Len(q) : q[j] = ch
      BY <1>3, <2>1, <2>3
    <3>3. j \in 1..Len(v) /\ IsRoster(v[j], ch)
      BY <1>6, <1>7, <3>2 DEF IsRoster
    <3> QED
      BY <2>2, <3>3
  <2>4. CASE s \notin DOMAIN presence[ch]
    BY <1>5, <2>1, <2>2, <2>4
  <2> QED
    BY <2>3, <2>4
<1> QED
  BY <1>7, <1>8, <1>9 DEF Fits

\* A client leaves with all that the hub holds of it.
LEMMA RemoveKeeps ==
  ASSUME NEW A \in SUBSET Socket, IInv(A), NEW s \in Socket, remove(s), UNCHANGED <<authed, seen>>,
         NEW after \in {"closing", "closed"}, ws' = [ws EXCEPT ![s] = after],
         grace' \subseteq grace, after = "closed" => s \notin grace', Connected(s)
  PROVE  IInv(A)'
<1> DEFINE left == {ch \in Channel : s \in DOMAIN presence[ch]}
<1>1. /\ clients' = clients \ {s} /\ subs' = [subs EXCEPT ![s] = Empty]
      /\ presence' = [ch \in Channel |-> Without(presence[ch], s)]
      /\ refs' = Without(refs, s) /\ UNCHANGED nextRef
  BY DEF remove
<1>2. PICK place \in Bijection(left, 1..Cardinality(left)) :
      \E told \in [Socket -> UNION {Notices(t, s, left, place) : t \in Socket}] :
        /\ \A t \in Socket : told[t] \in Notices(t, s, left, place)
        /\ Push([t \in Socket |-> [i \in DOMAIN told[t] |->
             PresenceFrame(told[t][i], "leave",
                           snapshot(Untracked(s, told[t][i]), told[t][i]))]])
  BY Zenon DEF remove
<1>3. PICK told \in [Socket -> UNION {Notices(t, s, left, place) : t \in Socket}] :
        /\ \A t \in Socket : told[t] \in Notices(t, s, left, place)
        /\ Push([t \in Socket |-> [i \in DOMAIN told[t] |->
             PresenceFrame(told[t][i], "leave",
                           snapshot(Untracked(s, told[t][i]), told[t][i]))]])
  BY <1>2
<1> PICK out : out = [t \in Socket |-> [i \in DOMAIN told[t] |->
             PresenceFrame(told[t][i], "leave",
                           snapshot(Untracked(s, told[t][i]), told[t][i]))]]
  OBVIOUS
<1>4. Push(out)
  BY <1>3
<1>5. ws'[s] = after /\ ws' \in [Socket -> {"new", "open", "closing", "closed"}]
      /\ \A t \in Socket \ {s} : ws'[t] = ws[t]
  BY DEF IInv, Booked, Typed
<1>6. ASSUME NEW t \in Socket
      PROVE  out[t] \in Seq(Frame) /\ Fits(t, out[t])
  <2>1. told[t] \in Notices(t, s, left, place)
    BY <1>3
  <2> PICK q : q = told[t]
    OBVIOUS
  <2> PICK v : v = [i \in DOMAIN q |->
                      PresenceFrame(q[i], "leave", snapshot(Untracked(s, q[i]), q[i]))]
    OBVIOUS
  <2>2. ws'[s] # "open"
    BY <1>5
  <2>3. IsFcn(v) /\ DOMAIN v = DOMAIN q
        /\ \A i \in DOMAIN q :
             v[i] = PresenceFrame(q[i], "leave", snapshot(Untracked(s, q[i]), q[i]))
    BY DEF IsFcn
  <2>5. \A c : c \in left <=> c \in Channel /\ s \in DOMAIN presence[c]
    OBVIOUS
  <2>6. q \in Notices(t, s, left, place)
    BY <2>1
  <2> HIDE DEF left
  <2>7. v \in Seq(Frame) /\ Fits(t, v)
    BY <1>1, <2>2, <2>3, <2>5, <2>6, LeavesFit DEF IInv
  <2>4. out[t] = v
    OBVIOUS
  <2> QED
    BY <2>4, <2>7
<1>7. out \in [Socket -> Seq(Frame)]
  BY <1>6
<1>8. \A t \in Socket \ {s} : subs'[t] = subs[t]
  BY <1>1 DEF IInv, Booked, Typed
<1>9. Typed'
  <2>1. wire' \in [Socket -> Seq(Frame)]
    BY <1>4, <1>7, PushTyped DEF IInv, Booked
  <2>2. DOMAIN Empty = {} /\ IsFcn(Empty)
    BY DEF Empty, IsFcn
  <2>3. subs'[s] = Empty /\ subs' = [t \in Socket |-> subs'[t]]
    BY <1>1 DEF IInv, Booked, Typed
  <2>4. ASSUME NEW t \in Socket
        PROVE  /\ ws'[t] = "new" => ~authed'[t]
               /\ IsFcn(subs'[t]) /\ DOMAIN subs'[t] \subseteq Channel
               /\ DOMAIN subs'[t] # {} => t \in clients'
    <3>1. CASE t = s
      BY <1>5, <2>2, <2>3, <3>1
    <3>2. CASE t # s
      BY <1>1, <1>5, <1>8, <3>2 DEF IInv, Booked, Typed
    <3> QED
      BY <3>1, <3>2
  <2>5. grace' \subseteq {t \in Socket : ws'[t] \in {"open", "closing"} /\ ~authed'[t]}
    BY <1>5 DEF IInv, Booked, Typed, Connected
  <2>6. clients' \subseteq {t \in Socket : ws'[t] \in {"open", "closing"} /\ authed'[t]}
    BY <1>1, <1>5 DEF IInv, Booked, Typed, Connected
  <2> QED
    BY <1>5, <2>1, <2>3, <2>4, <2>5, <2>6 DEF IInv, Booked, Typed, Connected
<1>10. Registered'
  BY <1>1, RemovedRegistered DEF IInv
<1>11. ASSUME NEW t \in A
       PROVE  Sound(t)'
  <2>1. ws'[t] = ws[t] \/ ws'[t] \in {"closing", "closed"}
    BY <1>5
  <2>2. ws'[t] \in {"new", "open"} => subs'[t] = subs[t]
    BY <1>5, <1>8
  <2> QED
    BY <1>4, <1>6, <1>7, <2>1, <2>2, PushSound DEF IInv, Booked
<1> QED
  BY <1>9, <1>10, <1>11 DEF IInv, Booked

-----------------------------------------------------------------------------
(***************************************************************************)
(* The browser reads, and the invariant is inductive.                      *)
(***************************************************************************)

\* What a frame is made of.
LEMMA FrameFields ==
  ASSUME NEW f \in Frame
  PROVE  /\ f.type \in {"presence", "subscribed", "unsubscribed", "broadcast", "change"} =>
              f.channel \in Channel
         /\ f.type = "presence" => f.presences \in SUBSET Entry
         /\ f.type = "change" => f.note \in Notes
BY DEF Frame

\* The browser of s has seen of each channel what its next frame says of it.
LEMMA ReadSeen ==
  ASSUME Typed, NEW s \in Socket, Read(s), NEW f \in Frame, f = Head(wire[s])
  PROVE  /\ seen' \in [Socket -> [Channel -> Sight]]
         /\ \A t \in Socket \ {s} : seen'[t] = seen[t]
         /\ \A ch \in Channel : Read1(f, ch, seen[s][ch], seen'[s][ch])
<1> PICK g \in [Channel -> Sight] : g = seen[s]
  BY DEF Typed
<1> PICK c : c = f.channel
  OBVIOUS
<1>1. seen' = IF f.type = "presence" THEN [seen EXCEPT ![s][c].roster = f.presences]
              ELSE IF f.type = "subscribed" THEN [seen EXCEPT ![s][c].on = TRUE]
              ELSE IF f.type = "unsubscribed" THEN [seen EXCEPT ![s][c].on = FALSE]
              ELSE seen
  BY DEF Read
<1>2. CASE f.type = "presence"
  <2> PICK x : x = [g[c] EXCEPT !.roster = f.presences]
    OBVIOUS
  <2>1. c \in Channel /\ f.presences \in SUBSET Entry
    BY <1>2, FrameFields
  <2>2. g[c] \in Sight
    BY <2>1
  <2>3. x \in Sight /\ (x.on <=> g[c].on) /\ x.roster = f.presences
    BY <2>1, <2>2 DEF Sight
  <2> PICK h : h = [g EXCEPT ![c] = x]
    OBVIOUS
  <2>4. seen' = [seen EXCEPT ![s] = h]
    BY <1>1, <1>2
  <2>5. h \in [Channel -> Sight] /\ h[c] = x /\ \A ch \in Channel \ {c} : h[ch] = g[ch]
    BY <2>1, <2>3
  <2>6. /\ seen' \in [Socket -> [Channel -> Sight]] /\ seen'[s] = h
        /\ \A t \in Socket \ {s} : seen'[t] = seen[t]
    <3>1. seen \in [Socket -> [Channel -> Sight]] /\ h \in [Channel -> Sight]
      BY <2>5 DEF Typed
    <3> QED
      BY <2>4, <3>1
  <2>7. seen'[s][c] = x /\ \A ch \in Channel \ {c} : seen'[s][ch] = seen[s][ch]
    <3>1. seen'[s] = h /\ seen[s] = g
      BY <2>6
    <3> QED
      BY <2>5, <3>1
  <2>8. ASSUME NEW ch \in Channel
        PROVE  Read1(f, ch, seen[s][ch], seen'[s][ch])
    BY <1>2, <2>3, <2>7 DEF Read1, IsAck, IsRoster
  <2> QED
    BY <2>8, <2>6
<1>3. ASSUME NEW on \in BOOLEAN, f.type \in {"subscribed", "unsubscribed"},
             on <=> f.type = "subscribed",
             seen' = [seen EXCEPT ![s][c].on = on]
      PROVE  /\ seen' \in [Socket -> [Channel -> Sight]]
             /\ \A t \in Socket \ {s} : seen'[t] = seen[t]
             /\ \A ch \in Channel : Read1(f, ch, seen[s][ch], seen'[s][ch])
  <2> PICK x : x = [g[c] EXCEPT !.on = on]
    OBVIOUS
  <2>1. c \in Channel
    BY <1>3, FrameFields
  <2>2. g[c] \in Sight
    BY <2>1
  <2>3. x \in Sight /\ (x.on <=> on) /\ x.roster = g[c].roster
    BY <2>1, <2>2 DEF Sight
  <2> PICK h : h = [g EXCEPT ![c] = x]
    OBVIOUS
  <2>4. seen' = [seen EXCEPT ![s] = h]
    BY <1>3
  <2>5. h \in [Channel -> Sight] /\ h[c] = x /\ \A ch \in Channel \ {c} : h[ch] = g[ch]
    BY <2>1, <2>3
  <2>6. /\ seen' \in [Socket -> [Channel -> Sight]] /\ seen'[s] = h
        /\ \A t \in Socket \ {s} : seen'[t] = seen[t]
    <3>1. seen \in [Socket -> [Channel -> Sight]] /\ h \in [Channel -> Sight]
      BY <2>5 DEF Typed
    <3> QED
      BY <2>4, <3>1
  <2>7. seen'[s][c] = x /\ \A ch \in Channel \ {c} : seen'[s][ch] = seen[s][ch]
    <3>1. seen'[s] = h /\ seen[s] = g
      BY <2>6
    <3> QED
      BY <2>5, <3>1
  <2>8. ASSUME NEW ch \in Channel
        PROVE  Read1(f, ch, seen[s][ch], seen'[s][ch])
    <3>1. CASE ch = c
      <4>1. IsAck(f, c) /\ ~IsRoster(f, c)
        BY <1>3 DEF IsAck, IsRoster
      <4>2. (seen'[s][c].on <=> f.type = "subscribed") /\ seen'[s][c].roster = seen[s][c].roster
        BY <1>3, <2>3, <2>7
      <4> QED
        BY <3>1, <4>1, <4>2 DEF Read1
    <3>2. CASE ch # c
      <4>1. ~IsAck(f, ch) /\ ~IsRoster(f, ch)
        BY <3>2 DEF IsAck, IsRoster
      <4> QED
        BY <2>7, <3>2, <4>1 DEF Read1
    <3> QED
      BY <3>1, <3>2
  <2> QED
    BY <2>8, <2>6
<1>4. CASE f.type = "subscribed"
  <2>1. seen' = [seen EXCEPT ![s][c].on = TRUE]
    BY <1>1, <1>4
  <2> QED
    BY <1>3, <1>4, <2>1
<1>5. CASE f.type = "unsubscribed"
  <2>1. seen' = [seen EXCEPT ![s][c].on = FALSE]
    BY <1>1, <1>5
  <2> QED
    BY <1>3, <1>5, <2>1
<1>6. CASE f.type \notin {"presence", "subscribed", "unsubscribed"}
  <2>1. seen' = seen
    BY <1>1, <1>6
  <2> QED
    BY <1>6, <2>1 DEF Typed, Read1, IsAck, IsRoster
<1> QED
  BY <1>2, <1>4, <1>5, <1>6

\* Reading changes where the story is told, not the story.
LEMMA ReadKeeps ==
  ASSUME NEW A \in SUBSET Socket, IInv(A), NEW s \in Socket, Read(s)
  PROVE  IInv(A)'
<1> PICK w : w = wire[s]
  OBVIOUS
<1> PICK f : f = Head(w)
  OBVIOUS
<1>1. w \in Seq(Frame) /\ w # <<>> /\ wire' = [wire EXCEPT ![s] = Tail(w)]
  BY DEF IInv, Booked, Typed, Read
<1>2. UNCHANGED <<ws, authed, grace, clients, subs, presence, refs, nextRef>>
  BY DEF Read, conn, hub
<1>3. Len(w) \in Nat /\ Len(w) > 0 /\ f = w[1] /\ Tail(w) \in Seq(Frame)
  BY <1>1, Rest, HeadTailProperties
<1>4. f \in Frame
  BY <1>1, <1>3, ElementOfSeq
<1>5. /\ seen' \in [Socket -> [Channel -> Sight]]
      /\ \A t \in Socket \ {s} : seen'[t] = seen[t]
      /\ \A ch \in Channel : Read1(f, ch, seen[s][ch], seen'[s][ch])
  BY <1>4, ReadSeen DEF IInv, Booked
<1>6. wire' \in [Socket -> Seq(Frame)] /\ wire'[s] = Tail(w)
      /\ \A t \in Socket \ {s} : wire'[t] = wire[t]
  BY <1>1, <1>3 DEF IInv, Booked, Typed
<1>7. Typed'
  BY <1>2, <1>5, <1>6 DEF IInv, Booked, Typed, Connected
<1>8. Registered'
  BY <1>2 DEF IInv, Booked, Registered
<1>9. ASSUME NEW t \in A, t # s
      PROVE  Sound(t)'
  <2>1. wire'[t] = wire[t] /\ seen'[t] = seen[t] /\ ws'[t] = ws[t] /\ subs'[t] = subs[t]
    BY <1>2, <1>5, <1>6, <1>9
  <2>2. \A ch : snapshot(presence', ch) = snapshot(presence, ch)
    BY <1>2
  <2> QED
    BY <2>1, <2>2 DEF IInv, Booked, Sound, MaySee
<1>10. ASSUME s \in A PROVE Sound(s)'
  <2> PICK u : u = Tail(w)
    OBVIOUS
  <2> PICK D : D = DOMAIN subs[s]
    OBVIOUS
  <2>1. \A i \in 1..Len(w) : IsContent(w[i]) => w[i].channel \in Channel
    BY <1>1, ElementOfSeq, FrameFields DEF IsContent
  <2>2. ASSUME ws[s] \in {"new", "open"}
        PROVE  Tells(u, seen'[s], D) /\ Brackets(u, seen'[s])
    <3>1. Tells(w, seen[s], D) /\ Brackets(w, seen[s])
      BY <2>2, <1>10 DEF IInv, Booked, Sound
    <3> QED
      BY <1>1, <1>3, <1>5, <2>1, <3>1, ReadHeard
  <2>3. Brackets(u, seen'[s])
    <3> PICK E : E = {ch \in Channel : OnAfter(w, Len(w), seen[s][ch].on, ch)}
      OBVIOUS
    <3>1. Tells(w, seen[s], E) /\ Brackets(w, seen[s])
      BY <1>10 DEF IInv, Booked, Sound, Tells
    <3> QED
      BY <1>1, <1>3, <1>5, <2>1, <3>1, ReadHeard
  <2>4. ASSUME ws[s] = "open", NEW ch \in D
        PROVE  Shows(u, seen'[s][ch].roster, ch, snapshot(presence, ch))
    <3>1. Shows(w, seen[s][ch].roster, ch, snapshot(presence, ch)) /\ ch \in Channel
      BY <2>4, <1>10 DEF IInv, Booked, Sound, Typed
    <3>2. seen'[s][ch].roster = IF IsRoster(w[1], ch) THEN w[1].presences ELSE seen[s][ch].roster
      BY <1>3, <1>5, <3>1 DEF Read1
    <3> QED
      BY <1>1, <3>1, <3>2, RosterRead
  <2>5. \A i \in 1..Len(u) : MaySee(s, u[i])
    <3>1. Len(u) = Len(w) - 1 /\ \A i \in 1..Len(u) : u[i] = w[i + 1]
      BY <1>1, Rest
    <3>2. \A i \in 1..Len(w) : MaySee(s, w[i])
      BY <1>10 DEF IInv, Booked, Sound
    <3>3. \A i \in 1..Len(u) : i + 1 \in 1..Len(w)
      BY <1>3, <3>1
    <3> QED
      BY <3>1, <3>2, <3>3
  <2>6. wire'[s] = u
    BY <1>6
  <2>7. \A ch : snapshot(presence', ch) = snapshot(presence, ch)
    BY <1>2
  <2>8. \A i \in 1..Len(wire'[s]) : MaySee(s, wire'[s][i])
    BY <2>5, <2>6
  <2> QED
    BY <1>2, <2>2, <2>3, <2>4, <2>6, <2>7, <2>8 DEF Sound, MaySee
<1> QED
  BY <1>7, <1>8, <1>9, <1>10 DEF IInv, Booked

\* A message keeps the invariant, whatever it is.
LEMMA ReceiveKeeps ==
  ASSUME NEW A \in SUBSET Socket, IInv(A), NEW s \in Socket, NEW m, Receive(s, m),
         m.type \in {"subscribe", "unsubscribe", "broadcast", "presence_track", "presence_untrack"} =>
           m.channel \in Channel,
         m.type = "broadcast" => m.payload \in PStates,
         m.type = "presence_track" => m.state \in PStates
  PROVE  IInv(A)'
<1>1. UNCHANGED <<conn, seen>>
  BY DEF Receive
<1>2. CASE ~authed[s]
  BY <1>1, <1>2, MalformedKeeps DEF Receive
<1>3. CASE authed[s] /\ s \notin clients
  <2>1. UNCHANGED <<hub, wire>>
    BY <1>3 DEF Receive, handleMessage
  <2>2. ws[s] # "new" /\ ws' = ws /\ grace' = grace /\ authed' = authed
    BY <1>1 DEF Receive, Connected, conn
  <2> QED
    BY <1>1, <2>1, <2>2, ClosingKeeps
<1>4. CASE authed[s] /\ s \in clients
  <2>1. Handle(s, m) /\ s \in clients
    BY <1>4 DEF Receive, handleMessage
  <2>2. ASSUME m.type = "subscribe", subscribe(s, m.channel, m.event, m.filter)
        PROVE  IInv(A)'
    <3>1. m.channel \in Channel
      BY <2>2 DEF Messages
    <3> QED
      BY <1>1, <2>1, <2>2, <3>1, SubscribeKeeps
  <2>3. ASSUME m.type = "unsubscribe", unsubscribe(s, m.channel)
        PROVE  IInv(A)'
    <3>1. m.channel \in Channel
      BY <2>3 DEF Messages
    <3> QED
      BY <1>1, <2>1, <2>3, <3>1, UnsubscribeKeeps
  <2>4. ASSUME m.type = "broadcast", broadcast(s, m.channel, m.payload)
        PROVE  IInv(A)'
    <3>1. m.channel \in Channel /\ m.payload \in PStates
      BY <2>4 DEF Messages
    <3> QED
      BY <1>1, <2>4, <3>1, BroadcastKeeps
  <2>5. ASSUME m.type = "presence_track", presenceTrack(s, m.channel, m.state)
        PROVE  IInv(A)'
    <3>1. m.channel \in Channel /\ m.state \in PStates
      BY <2>5 DEF Messages
    <3> QED
      BY <1>1, <2>1, <2>5, <3>1, PresenceTrackKeeps
  <2>6. ASSUME m.type = "presence_untrack", presenceUntrack(s, m.channel)
        PROVE  IInv(A)'
    <3>1. m.channel \in Channel
      BY <2>6 DEF Messages
    <3> QED
      BY <1>1, <2>6, <3>1, PresenceUntrackKeeps
  <2>7. ASSUME Malformed(s)
        PROVE  IInv(A)'
    BY <1>1, <2>7, MalformedKeeps
  <2> QED
    BY <2>1, <2>2, <2>3, <2>4, <2>5, <2>6, <2>7 DEF Handle
<1> QED
  BY <1>2, <1>3, <1>4

\* Every step keeps the invariant.
LEMMA NextIInv ==
  ASSUME NEW A \in SUBSET Socket, IInv(A), [Next]_vars
  PROVE  IInv(A)'
<1>1. CASE UNCHANGED vars
  <2>1. UNCHANGED <<ws, authed, grace, clients, subs, presence, refs, nextRef, wire, seen>>
    BY <1>1 DEF vars
  <2>2. Typed'
    BY <2>1 DEF IInv, Booked, Typed, Connected
  <2>3. Registered'
    BY <2>1 DEF IInv, Booked, Registered
  <2>4. \A t \in A : Sound(t)'
    BY <2>1, SoundKept DEF IInv, Booked
  <2> QED
    BY <2>2, <2>3, <2>4 DEF IInv, Booked
<1>2. ASSUME NEW s \in Socket, NEW tok, Connect(s, tok)
      PROVE  IInv(A)'
  BY <1>2, ConnectKeeps
<1>3. ASSUME NEW s \in Socket, NEW valid \in BOOLEAN, AuthMessage(s, valid)
      PROVE  IInv(A)'
  BY <1>3, AuthMessageKeeps
<1>4. ASSUME NEW s \in Socket, NEW m \in Messages(s), Receive(s, m)
      PROVE  IInv(A)'
  BY <1>4, ReceiveKeeps DEF Messages
<1>5. ASSUME NEW s \in Socket, GraceExpires(s)
      PROVE  IInv(A)'
  BY <1>5, GraceExpiresKeeps
<1>6. ASSUME NEW s \in Socket, OnError(s)
      PROVE  IInv(A)'
  <2>1. /\ remove(s) /\ UNCHANGED <<authed, seen>> /\ ws' = [ws EXCEPT ![s] = "closing"]
        /\ grace' \subseteq grace /\ Connected(s)
    BY <1>6 DEF OnError, Connected
  <2>2. "closing" \in {"closing", "closed"} /\ ("closing" = "closed" => s \notin grace')
    OBVIOUS
  <2> QED
    BY <2>1, <2>2, RemoveKeeps
<1>7. ASSUME NEW s \in Socket, OnClose(s)
      PROVE  IInv(A)'
  <2>1. /\ remove(s) /\ UNCHANGED <<authed, seen>> /\ ws' = [ws EXCEPT ![s] = "closed"]
        /\ grace' \subseteq grace /\ s \notin grace' /\ Connected(s)
    BY <1>7 DEF OnClose
  <2>2. "closed" \in {"closing", "closed"}
    OBVIOUS
  <2> QED
    BY <2>1, <2>2, RemoveKeeps
<1>8. ASSUME NEW s \in Socket, Read(s)
      PROVE  IInv(A)'
  BY <1>8, ReadKeeps
<1>9. ASSUME NEW n \in Notes, Dispatch(n)
      PROVE  IInv(A)'
  BY <1>9, DispatchKeeps
<1> QED
  BY <1>1, <1>2, <1>3, <1>4, <1>5, <1>6, <1>7, <1>8, <1>9 DEF Next, SocketStep

\* In every run, for every number of sockets and of frames in flight, what the
\* hub holds is well formed and what its browsers are told of it is so.
THEOREM SpecIInv == Spec => []IInv(Socket)
<1>1. Init => IInv(Socket)
  BY InitIInv
<1>2. IInv(Socket) /\ [Next]_vars => IInv(Socket)'
  BY NextIInv
<1> QED
  BY <1>1, <1>2, PTL DEF Spec

-----------------------------------------------------------------------------
(***************************************************************************)
(* What the invariant gives.                                               *)
(***************************************************************************)

\* The last frame of a kind, as the properties look for it.
LEMMA LastOf ==
  ASSUME NEW n \in Nat, NEW I \in SUBSET (1..n), NEW i, i = IF I # {} THEN Max(I) ELSE 0
  PROVE  (i = 0 <=> I = {}) /\ (I # {} => i = Max(I) /\ i \in 1..n /\ i \in I)
<1>1. CASE I = {}
  BY <1>1
<1>2. CASE I # {}
  <2>1. Max(I) \in I
    BY <1>2, Greatest
  <2>2. i = Max(I)
    BY <1>2
  <2>3. \A j \in I : j \in 1..n /\ j # 0
    OBVIOUS
  <2> QED
    BY <1>2, <2>1, <2>2, <2>3
<1> QED
  BY <1>1, <1>2

\* The invariant holds the types.
LEMMA IInvTypeOK ==
  ASSUME Booked
  PROVE  TypeOK
<1>1. /\ ws \in [Socket -> {"new", "open", "closing", "closed"}]
      /\ authed \in [Socket -> BOOLEAN]
      /\ grace \subseteq {s \in Socket : Connected(s) /\ ~authed[s]}
      /\ clients \subseteq Socket /\ DOMAIN refs \subseteq clients /\ nextRef \in Nat
      /\ \A s \in Socket : DOMAIN subs[s] \subseteq Channel
  BY DEF Booked, Typed, Registered
<1>2. ASSUME NEW s \in Socket, subs[s] # Empty
      PROVE  s \in clients
  <2> PICK f : f = subs[s]
    OBVIOUS
  <2>1. f = [x \in DOMAIN f |-> f[x]]
    BY DEF Booked, Typed, IsFcn
  <2>2. DOMAIN f # {}
    BY <1>2, <2>1 DEF Empty
  <2> QED
    BY <2>2 DEF Booked, Typed
<1>3. ASSUME NEW s \in Socket, NEW i \in DOMAIN wire[s], wire[s][i].type = "change"
      PROVE  wire[s][i].note \in Notes
  <2>1. wire[s] \in Seq(Frame)
    BY DEF Booked, Typed
  <2>2. wire[s][i] \in Frame
    BY <2>1, ElementOfSeq, LenProperties
  <2> QED
    BY <1>3, <2>2, FrameFields
<1> QED
  BY <1>1, <1>2, <1>3 DEF TypeOK

\* The invariant holds what PresenceOnline says.
LEMMA IInvPresenceOnline ==
  ASSUME Booked
  PROVE  PresenceOnline
BY DEF Booked, Typed, Registered, PresenceOnline

\* The invariant holds what RosterCurrent says.
LEMMA IInvRosterCurrent ==
  ASSUME IInv(Socket)
  PROVE  RosterCurrent
<1> SUFFICES ASSUME NEW s \in clients, NEW ch \in Channel, ws[s] = "open", ch \in DOMAIN subs[s]
             PROVE  LastRoster(s, ch) = snapshot(presence, ch)
  BY DEF RosterCurrent
<1> DEFINE I == {i \in 1..Len(wire[s]) : wire[s][i].type = "presence" /\ wire[s][i].channel = ch}
<1> DEFINE newest == IF I # {} THEN Max(I) ELSE 0
<1>1. LastRoster(s, ch) = IF newest = 0 THEN seen[s][ch].roster ELSE wire[s][newest].presences
  BY Zenon DEF LastRoster, SelectLastInSeq
<1> PICK w : w = wire[s]
  OBVIOUS
<1>2. s \in Socket
  BY DEF IInv, Booked, Typed
<1>3. w \in Seq(Frame) /\ Len(w) \in Nat
  BY <1>2, LenProperties DEF IInv, Booked, Typed
<1> PICK n \in Nat : n = Len(w)
  BY <1>3
<1>4. RostersOf(I, w, n, ch) /\ I \in SUBSET (1..n)
  BY DEF RostersOf, IsRoster
<1> PICK J : J = I
  OBVIOUS
<1> HIDE DEF I
<1>5. Shows(w, seen[s][ch].roster, ch, snapshot(presence, ch))
  BY <1>2 DEF IInv, Booked, Sound
<1>6. /\ J = {} => seen[s][ch].roster = snapshot(presence, ch)
      /\ J # {} => w[Max(J)].presences = snapshot(presence, ch)
  <2>1. RostersOf(J, w, n, ch) /\ Len(w) = n
    BY <1>4
  <2>2. \A m \in Nat : \A held, r :
          Len(w) = m /\ RostersOf(J, w, m, ch) /\ Shows(w, held, ch, r) =>
            (J = {} => held = r) /\ (J # {} => w[Max(J)].presences = r)
    BY LastRosterShown
  <2> QED
    BY <1>5, <2>1, <2>2
<1>7. (newest = 0 <=> I = {}) /\ (I # {} => newest = Max(I))
  BY <1>3, <1>4, LastOf
<1> HIDE DEF newest
<1> QED
  BY <1>1, <1>6, <1>7

\* The invariant holds what AckAgrees says.
LEMMA IInvAckAgrees ==
  ASSUME IInv(Socket)
  PROVE  AckAgrees
<1> SUFFICES ASSUME NEW s \in clients, NEW ch \in Channel, ws[s] = "open"
             PROVE  LastAck(s, ch) = (ch \in DOMAIN subs[s])
  BY DEF AckAgrees
<1> DEFINE I == {i \in 1..Len(wire[s]) :
                   wire[s][i].type \in {"subscribed", "unsubscribed"} /\ wire[s][i].channel = ch}
<1> DEFINE newest == IF I # {} THEN Max(I) ELSE 0
<1>1. LastAck(s, ch) = IF newest = 0 THEN seen[s][ch].on ELSE wire[s][newest].type = "subscribed"
  BY Zenon DEF LastAck, SelectLastInSeq
<1> PICK w : w = wire[s]
  OBVIOUS
<1>2. s \in Socket
  BY DEF IInv, Booked, Typed
<1>3. w \in Seq(Frame) /\ Len(w) \in Nat
  BY <1>2, LenProperties DEF IInv, Booked, Typed
<1> PICK n \in Nat : n = Len(w)
  BY <1>3
<1>4. AcksOf(I, w, n, ch) /\ I \in SUBSET (1..n)
  BY DEF AcksOf, IsAck
<1> PICK J : J = I
  OBVIOUS
<1> HIDE DEF I
<1> PICK on : on = seen[s][ch].on
  OBVIOUS
<1>5. on \in BOOLEAN
  BY <1>2 DEF IInv, Booked, Typed, Sight
<1>6. OnAfter(w, Len(w), on, ch) <=> ch \in DOMAIN subs[s]
  BY <1>2 DEF IInv, Booked, Sound, Tells
<1>7. /\ J = {} => (OnAfter(w, n, on, ch) <=> on)
      /\ J # {} => (OnAfter(w, n, on, ch) <=> w[Max(J)].type = "subscribed")
  <2>1. AcksOf(J, w, n, ch)
    BY <1>4
  <2>2. \A m \in Nat : AcksOf(J, w, m, ch) =>
          /\ J = {} => (OnAfter(w, m, on, ch) <=> on)
          /\ J # {} => (OnAfter(w, m, on, ch) <=> w[Max(J)].type = "subscribed")
    BY <1>5, LastAckDecides
  <2> QED
    BY <2>1, <2>2
<1>8. (newest = 0 <=> I = {}) /\ (I # {} => newest = Max(I))
  BY <1>3, <1>4, LastOf
<1> HIDE DEF newest
<1>9. LastAck(s, ch) \in BOOLEAN
  BY <1>1, <1>5
<1>10. LastAck(s, ch) <=> ch \in DOMAIN subs[s]
  BY <1>1, <1>6, <1>7, <1>8
<1> QED
  BY <1>9, <1>10

\* The invariant holds what FramesAreBracketed says.
LEMMA IInvFramesAreBracketed ==
  ASSUME IInv(Socket)
  PROVE  FramesAreBracketed
<1> SUFFICES ASSUME NEW s \in Socket, NEW k \in DOMAIN wire[s],
                    wire[s][k].type \in {"presence", "broadcast", "change"}
             PROVE  LET ch == wire[s][k].channel
                        before == SubSeq(wire[s], 1, k - 1)
                        a == SelectLastInSeq(before,
                               LAMBDA f : f.type \in {"subscribed", "unsubscribed"}
                                            /\ f.channel = ch)
                    IN IF a = 0 THEN seen[s][ch].on ELSE before[a].type = "subscribed"
  BY Zenon DEF FramesAreBracketed
<1> DEFINE ch == wire[s][k].channel
<1> DEFINE before == SubSeq(wire[s], 1, k - 1)
<1> DEFINE I == {i \in 1..Len(before) :
                   before[i].type \in {"subscribed", "unsubscribed"} /\ before[i].channel = ch}
<1> DEFINE newest == IF I # {} THEN Max(I) ELSE 0
<1> SUFFICES IF newest = 0 THEN seen[s][ch].on ELSE before[newest].type = "subscribed"
  BY Zenon DEF SelectLastInSeq
<1> PICK w : w = wire[s]
  OBVIOUS
<1>1. w \in Seq(Frame) /\ Len(w) \in Nat /\ k \in 1..Len(w)
  BY LenProperties DEF IInv, Booked, Typed
<1>2. ch = w[k].channel /\ ch \in Channel /\ IsContent(w[k])
  BY <1>1, ElementOfSeq, FrameFields DEF IsContent
<1>3. Len(before) = k - 1 /\ k - 1 \in Nat /\ \A i \in 1..(k - 1) : before[i] = w[i]
  BY <1>1, SubSeqProperties
<1> HIDE DEF ch, before
<1>4. AcksOf(I, w, k - 1, ch) /\ I \in SUBSET (1..(k - 1))
  BY <1>3 DEF AcksOf, IsAck
<1> PICK J : J = I
  OBVIOUS
<1> HIDE DEF I
<1> PICK on : on = seen[s][ch].on
  OBVIOUS
<1>5. on \in BOOLEAN
  BY <1>2 DEF IInv, Booked, Typed, Sight
<1>6. OnAfter(w, k - 1, on, ch)
  BY <1>1, <1>2 DEF IInv, Booked, Sound, Brackets
<1>7. /\ J = {} => (OnAfter(w, k - 1, on, ch) <=> on)
      /\ J # {} => (OnAfter(w, k - 1, on, ch) <=> w[Max(J)].type = "subscribed")
  BY <1>3, <1>4, <1>5, LastAckDecides
<1>8. (newest = 0 <=> I = {}) /\ (I # {} => newest = Max(I) /\ newest \in 1..(k - 1))
  BY <1>3, <1>4, LastOf
<1> HIDE DEF newest
<1> QED
  BY <1>3, <1>6, <1>7, <1>8

\* The registry shows connected clients only, and the rosters, the
\* acknowledgements and the frames that an open client is sent tell it what the
\* hub holds, in whatever order messages, errors, closes and timers come.
THEOREM ClientsAlwaysToldTheTruth == Spec => []ClientsToldTheTruth
<1>1. IInv(Socket) => ClientsToldTheTruth
  BY IInvTypeOK, IInvPresenceOnline, IInvRosterCurrent, IInvAckAgrees, IInvFramesAreBracketed
     DEF IInv, ClientsToldTheTruth
<1> QED
  BY <1>1, SpecIInv, PTL

\* No client that is not an admin is ever sent a change of a row that has an
\* owner and is not its own, nor a truncated change.
THEOREM OwnerAlwaysScoped == Spec => []OwnerScoped
<1>1. IInv(Socket) => OwnerScoped
  <2> SUFFICES ASSUME IInv(Socket), NEW s \in Socket, NEW i \in DOMAIN wire[s],
                      wire[s][i].type = "change", Claims[s].role \notin Admins
               PROVE  LET n == wire[s][i].note IN
                      /\ ~n.truncated
                      /\ Row(n) # NoRow /\ OwnerColumnsOf(Row(n)) # {} =>
                           \E c \in Range(OwnerColumns) \cap DOMAIN Row(n) :
                             ownerMatches(Claims[s].sub, Row(n)[c])
    BY DEF OwnerScoped
  <2>1. i \in 1..Len(wire[s])
    BY LenProperties DEF IInv, Booked, Typed
  <2>2. MaySee(s, wire[s][i])
    BY <2>1 DEF IInv, Booked, Sound
  <2> QED
    BY <2>2 DEF MaySee
<1> QED
  BY <1>1, SpecIInv, PTL

-----------------------------------------------------------------------------
(***************************************************************************)
(* The library.  Its messages to the server first: those that may wait in  *)
(* the outbox, and those it sends at once.                                 *)
(***************************************************************************)
Waiting ==
  [type : {"presence_untrack"} \cup ({"unsubscribe"} \cap OfflineCalls), channel : Channel]
    \cup [type : {"presence_track"}, channel : Channel, state : PStates]
Outgoing ==
  [type : {"presence_untrack", "unsubscribe"}, channel : Channel]
    \cup [type : {"presence_track"}, channel : Channel, state : PStates]
    \cup {SubscribeMsg(ch) : ch \in Channel}
    \cup [type : {"auth"}, valid : BOOLEAN]

Says(m, kind, ch) == m.type = kind /\ m.channel = ch
Coming(u, kind, ch) == \E i \in 1..Len(u) : Says(u[i], kind, ch)
Undone(u, kind, other, ch) ==
  \A i \in 1..Len(u) : Says(u[i], kind, ch) =>
    \E j \in 1..Len(u) : i < j /\ Says(u[j], other, ch)

\* Once the messages u are handled, the subscriptions D are W as far as ch goes.
Agrees(u, D, W, ch) ==
  /\ ch \in W => /\ ch \in D \/ Coming(u, "subscribe", ch)
                 /\ Undone(u, "unsubscribe", "subscribe", ch)
  /\ ch \notin W => /\ ch \in D => Coming(u, "unsubscribe", ch)
                    /\ Undone(u, "subscribe", "unsubscribe", ch)

Served(s) == ws[s] = "open" /\ authed[s] /\ s \in clients
Greeted(s) == \E i \in 1..Len(wire[s]) : wire[s][i].type = "authenticated"
OnlyAuth(u) == \A i \in 1..Len(u) : u[i].type = "auth"

\* The library's state has its type; what waits is no subscribe.
LibTyped ==
  /\ cur \in Own \cup {NoSocket}
  /\ rs \in [Own -> {"none", "connecting", "open"}]
  /\ urlToken \in [Own -> {"none", "good"}]
  /\ token \in {"none", "good"}
  /\ channels \subseteq Channel /\ active \subseteq Channel /\ IsFiniteSet(channels)
  /\ authedC \in BOOLEAN /\ closedByUser \in BOOLEAN /\ timer \in BOOLEAN
  /\ outbox \in Seq(Waiting)
  /\ up \in [Own -> Seq(Outgoing)]
  /\ last = [ch \in Channel |-> last[ch]]

\* this.ws is the one socket that is not torn down, and none while the timer runs.
OneSocket ==
  /\ \A s \in Own : rs[s] # "none" <=> s = cur
  /\ timer => cur = NoSocket

\* The library holds itself signed in only where the server does, and until
\* then has sent nothing but its token.
SignedIn ==
  /\ authedC => cur # NoSocket /\ rs[cur] = "open" /\ Served(cur)
  /\ cur # NoSocket =>
       /\ urlToken[cur] = "good" /\ ws[cur] # "new" => Served(cur)
       /\ Greeted(cur) => Served(cur)
       /\ ~authedC => OnlyAuth(up[cur]) /\ DOMAIN subs[cur] = {}

\* The roster shown of ch is the last one read, or a newer one is to come.
Shown(ch) ==
  \/ last[ch] = seen[cur][ch].roster
  \/ Coming(up[cur], "subscribe", ch)
  \/ \E i \in 1..Len(wire[cur]) : IsRoster(wire[cur][i], ch)

\* What is on its way to the server makes it serve the active channels, and
\* what is on its way back shows their rosters.
InStep ==
  authedC => \A ch \in Channel :
    /\ Agrees(up[cur], DOMAIN subs[cur], channels \cap active, ch)
    /\ ch \in channels \cap active => Shown(ch)

ServerInv == Booked /\ (cur # NoSocket => Sound(cur))

\* The frames x are the frames w and more, none of which says "authenticated".
Extended(w, x) ==
  /\ Len(w) <= Len(x)
  /\ \A i \in 1..Len(w) : x[i] = w[i]
  /\ \A i \in 1..Len(x) : i > Len(w) => x[i].type # "authenticated"

Grown(t) == Extended(wire[t], wire'[t])

\* For t, no more than that has happened.
Aside(t) ==
  /\ ws'[t] = ws[t] /\ (authed'[t] <=> authed[t]) /\ (t \in clients' <=> t \in clients)
  /\ subs'[t] = subs[t] /\ seen'[t] = seen[t] /\ Grown(t)

\* The server accepts every token the application has, and no call made while a
\* reconnect is pending opens a socket.
Prudent ==
  Tokens \subseteq {"none", "good"} /\ {"subscribe", "track"} \cap PendingCalls = {}

\* What comes once v is sent too.
LEMMA ComesLater ==
  ASSUME NEW F, NEW u \in Seq(F), NEW v \in Seq(F), NEW kind, NEW ch
  PROVE  Coming(u \o v, kind, ch) <=> Coming(u, kind, ch) \/ Coming(v, kind, ch)
<1>1. /\ Len(u) \in Nat /\ Len(v) \in Nat /\ Len(u \o v) = Len(u) + Len(v)
      /\ \A i \in 1..Len(u) : (u \o v)[i] = u[i]
      /\ \A i \in 1..Len(v) : (u \o v)[Len(u) + i] = v[i]
      /\ \A i \in 1..Len(u \o v) :
           i \in 1..Len(u) \/ \E j \in 1..Len(v) : i = Len(u) + j
  BY Behind
<1> PICK x : x = u \o v
  OBVIOUS
<1>2. ASSUME NEW i \in 1..Len(x), Says(x[i], kind, ch)
      PROVE  Coming(u, kind, ch) \/ Coming(v, kind, ch)
  BY <1>1, <1>2 DEF Coming
<1>3. ASSUME NEW i \in 1..Len(u), Says(u[i], kind, ch)
      PROVE  Coming(x, kind, ch)
  <2>1. i \in 1..Len(x) /\ x[i] = u[i]
    BY <1>1
  <2> QED
    BY <1>3, <2>1 DEF Coming
<1>4. ASSUME NEW i \in 1..Len(v), Says(v[i], kind, ch)
      PROVE  Coming(x, kind, ch)
  <2>1. Len(u) + i \in 1..Len(x) /\ x[Len(u) + i] = v[i]
    BY <1>1
  <2> QED
    BY <1>4, <2>1 DEF Coming
<1> QED
  BY <1>2, <1>3, <1>4 DEF Coming

\* Each of a kind is undone after it, still or by what is sent.
LEMMA UndoneLater ==
  ASSUME NEW F, NEW u \in Seq(F), NEW v \in Seq(F), NEW kind, NEW other, NEW ch,
         ~Coming(v, kind, ch),
         Undone(u, kind, other, ch) \/ Coming(v, other, ch)
  PROVE  Undone(u \o v, kind, other, ch)
<1>1. /\ Len(u) \in Nat /\ Len(v) \in Nat /\ Len(u \o v) = Len(u) + Len(v)
      /\ \A i \in 1..Len(u) : (u \o v)[i] = u[i]
      /\ \A i \in 1..Len(v) : (u \o v)[Len(u) + i] = v[i]
      /\ \A i \in 1..Len(u \o v) :
           i \in 1..Len(u) \/ \E j \in 1..Len(v) : i = Len(u) + j
  BY Behind
<1> PICK x : x = u \o v
  OBVIOUS
<1> SUFFICES ASSUME NEW i \in 1..Len(x), Says(x[i], kind, ch)
             PROVE  \E j \in 1..Len(x) : i < j /\ Says(x[j], other, ch)
  BY DEF Undone
<1>2. i \in 1..Len(u) /\ Says(u[i], kind, ch)
  BY <1>1 DEF Coming
<1>3. CASE Undone(u, kind, other, ch)
  <2>1. PICK j \in 1..Len(u) : i < j /\ Says(u[j], other, ch)
    BY <1>2, <1>3 DEF Undone
  <2>2. j \in 1..Len(x) /\ x[j] = u[j]
    BY <1>1
  <2> QED
    BY <2>1, <2>2
<1>4. CASE Coming(v, other, ch)
  <2>1. PICK j \in 1..Len(v) : Says(v[j], other, ch)
    BY <1>4 DEF Coming
  <2>2. Len(u) + j \in 1..Len(x) /\ x[Len(u) + j] = v[j] /\ i < Len(u) + j
    BY <1>1, <1>2
  <2> QED
    BY <2>1, <2>2
<1> QED
  BY <1>3, <1>4

\* Messages about other things change nothing, and the last of those about ch
\* is what counts.
LEMMA SentAgrees ==
  ASSUME NEW F, NEW u \in Seq(F), NEW v \in Seq(F), NEW D, NEW W, NEW W2, NEW ch,
         \/ /\ ~Coming(v, "subscribe", ch) /\ ~Coming(v, "unsubscribe", ch)
            /\ (ch \in W2 <=> ch \in W) /\ Agrees(u, D, W, ch)
         \/ ch \in W2 /\ Coming(v, "subscribe", ch) /\ ~Coming(v, "unsubscribe", ch)
         \/ ch \notin W2 /\ Coming(v, "unsubscribe", ch) /\ ~Coming(v, "subscribe", ch)
  PROVE  Agrees(u \o v, D, W2, ch)
<1>1. \A kind : Coming(u \o v, kind, ch) <=> Coming(u, kind, ch) \/ Coming(v, kind, ch)
  BY ComesLater
<1>2. CASE ch \in W2
  <2>1. Undone(u, "unsubscribe", "subscribe", ch) \/ Coming(v, "subscribe", ch)
    BY <1>2 DEF Agrees
  <2>2. Undone(u \o v, "unsubscribe", "subscribe", ch)
    BY <1>2, <2>1, UndoneLater
  <2>3. ch \in D \/ Coming(u, "subscribe", ch) \/ Coming(v, "subscribe", ch)
    BY <1>2 DEF Agrees
  <2> QED
    BY <1>1, <1>2, <2>2, <2>3 DEF Agrees
<1>3. CASE ch \notin W2
  <2>1. Undone(u, "subscribe", "unsubscribe", ch) \/ Coming(v, "unsubscribe", ch)
    BY <1>3 DEF Agrees
  <2>2. Undone(u \o v, "subscribe", "unsubscribe", ch)
    BY <1>3, <2>1, UndoneLater
  <2>3. ch \in D => Coming(u, "unsubscribe", ch) \/ Coming(v, "unsubscribe", ch)
    BY <1>3 DEF Agrees
  <2> QED
    BY <1>1, <1>3, <2>2, <2>3 DEF Agrees
<1> QED
  BY <1>2, <1>3

\* What is left once the first message is handled.
LEMMA RestComes ==
  ASSUME NEW F, NEW u \in Seq(F), u # <<>>, NEW kind, NEW ch
  PROVE  /\ Coming(u, kind, ch) => Says(u[1], kind, ch) \/ Coming(Tail(u), kind, ch)
         /\ \A other : Undone(u, kind, other, ch) =>
              /\ Undone(Tail(u), kind, other, ch)
              /\ Says(u[1], kind, ch) => Coming(Tail(u), other, ch)
<1>1. /\ Len(u) \in Nat /\ Len(u) > 0 /\ Len(Tail(u)) = Len(u) - 1
      /\ \A i \in 1..Len(Tail(u)) : Tail(u)[i] = u[i + 1]
  BY Rest
<1> PICK x : x = Tail(u)
  OBVIOUS
<1>2. \A i \in 1..Len(u) : i # 1 => i - 1 \in 1..Len(x) /\ x[i - 1] = u[i]
  BY <1>1
<1>3. Coming(u, kind, ch) => Says(u[1], kind, ch) \/ Coming(x, kind, ch)
  BY <1>2 DEF Coming
<1>4. ASSUME NEW other, Undone(u, kind, other, ch)
      PROVE  Undone(x, kind, other, ch)
  <2> SUFFICES ASSUME NEW i \in 1..Len(x), Says(x[i], kind, ch)
               PROVE  \E j \in 1..Len(x) : i < j /\ Says(x[j], other, ch)
    BY DEF Undone
  <2>1. i + 1 \in 1..Len(u) /\ Says(u[i + 1], kind, ch)
    BY <1>1
  <2>2. PICK j \in 1..Len(u) : i + 1 < j /\ Says(u[j], other, ch)
    BY <1>4, <2>1 DEF Undone
  <2>3. j - 1 \in 1..Len(x) /\ x[j - 1] = u[j] /\ i < j - 1
    BY <1>1, <1>2, <2>2
  <2> QED
    BY <2>2, <2>3
<1>5. ASSUME NEW other, Undone(u, kind, other, ch), Says(u[1], kind, ch)
      PROVE  Coming(x, other, ch)
  <2>1. PICK j \in 1..Len(u) : 1 < j /\ Says(u[j], other, ch)
    BY <1>1, <1>5 DEF Undone
  <2>2. j - 1 \in 1..Len(x) /\ x[j - 1] = u[j]
    BY <1>2, <2>1
  <2> QED
    BY <2>1, <2>2 DEF Coming
<1> QED
  BY <1>3, <1>4, <1>5

\* The server has handled the first message.
LEMMA HandledAgrees ==
  ASSUME NEW F, NEW u \in Seq(F), u # <<>>, NEW D, NEW D2, NEW W, NEW ch,
         Agrees(u, D, W, ch),
         Says(u[1], "subscribe", ch) => ch \in D2,
         Says(u[1], "unsubscribe", ch) => ch \notin D2,
         ~Says(u[1], "subscribe", ch) /\ ~Says(u[1], "unsubscribe", ch) => (ch \in D2 <=> ch \in D)
  PROVE  Agrees(Tail(u), D2, W, ch)
<1>1. \A kind : Coming(u, kind, ch) => Says(u[1], kind, ch) \/ Coming(Tail(u), kind, ch)
  BY RestComes
<1>2. \A kind, other : Undone(u, kind, other, ch) =>
        /\ Undone(Tail(u), kind, other, ch)
        /\ Says(u[1], kind, ch) => Coming(Tail(u), other, ch)
  BY RestComes
<1>3. ~(Says(u[1], "subscribe", ch) /\ Says(u[1], "unsubscribe", ch))
  BY DEF Says
<1> QED
  BY <1>1, <1>2, <1>3 DEF Agrees

\* A sequence over a set is one over a greater set.
LEMMA SeqWider ==
  ASSUME NEW S, NEW T, S \subseteq T, NEW w \in Seq(S)
  PROVE  w \in Seq(T)
<1>1. Len(w) \in Nat /\ DOMAIN w = 1..Len(w) /\ w \in [1..Len(w) -> S]
  BY LenProperties
<1>2. w \in [1..Len(w) -> T]
  BY <1>1
<1> QED
  BY <1>1, <1>2, IsASeq

\* A wire that is left alone.
LEMMA SameGrows ==
  ASSUME Typed, NEW t \in Socket, wire'[t] = wire[t]
  PROVE  Grown(t)
<1>1. Len(wire[t]) \in Nat
  BY LenProperties DEF Typed
<1> QED
  BY <1>1 DEF Grown, Extended

\* A wire w and the frames v that are put behind it.
LEMMA Longer ==
  ASSUME NEW F, NEW G, NEW w \in Seq(F), NEW v \in Seq(G),
         \A f \in G : f.type # "authenticated"
  PROVE  Extended(w, w \o v)
<1>0. \A j \in 1..Len(v) : v[j].type # "authenticated"
  BY ElementOfSeq
<1> PICK H : H = F \cup G
  OBVIOUS
<1>1. w \in Seq(H) /\ v \in Seq(H)
  BY SeqWider
<1>2. /\ Len(w) \in Nat /\ Len(v) \in Nat /\ Len(w \o v) = Len(w) + Len(v)
      /\ \A i \in 1..Len(w) : (w \o v)[i] = w[i]
      /\ \A i \in 1..Len(v) : (w \o v)[Len(w) + i] = v[i]
      /\ \A i \in 1..Len(w \o v) :
           i \in 1..Len(w) \/ \E j \in 1..Len(v) : i = Len(w) + j
  BY <1>1, Behind
<1> PICK x : x = w \o v
  OBVIOUS
<1>3. \A i \in 1..Len(x) : i > Len(w) => x[i].type # "authenticated"
  BY <1>0, <1>2
<1>4. Len(w) <= Len(x) /\ \A i \in 1..Len(w) : x[i] = w[i]
  BY <1>2
<1> QED
  BY <1>3, <1>4 DEF Extended

\* Short sequences.
LEMMA Short ==
  ASSUME NEW f, NEW g
  PROVE  /\ <<>> \in Seq({f, g}) /\ <<f>> \in Seq({f, g})
         /\ <<g>> \in Seq({f, g}) /\ <<f, g>> \in Seq({f, g})
OBVIOUS

\* Frames of G are pushed.
LEMMA PushGrows ==
  ASSUME Typed, NEW out, Push(out), NEW t \in Socket,
         NEW G, \A f \in G : f.type # "authenticated", out[t] \in Seq(G)
  PROVE  Grown(t)
<1>1. wire[t] \in Seq(Frame) /\ wire'[t] = IF ws[t] = "open" THEN wire[t] \o out[t] ELSE wire[t]
  BY DEF Push, Typed
<1>2. CASE ws[t] = "open"
  <2> PICK w : w = wire[t]
    OBVIOUS
  <2> PICK v : v = out[t]
    OBVIOUS
  <2>2. w \in Seq(Frame) /\ v \in Seq(G) /\ wire'[t] = w \o v
    BY <1>1, <1>2
  <2>4. Extended(w, w \o v)
    BY <2>2, Longer
  <2> QED
    BY <2>2, <2>4 DEF Grown
<1>3. CASE ws[t] # "open"
  BY <1>1, <1>3, SameGrows
<1> QED
  BY <1>2, <1>3

\* One frame for the sockets of S, or a few frames for s.
LEMMA SendsGrow ==
  ASSUME Typed, NEW t \in Socket, NEW s \in Socket
  PROVE  /\ \A S, f : Push(ToAll(S, f)) /\ f.type # "authenticated" => Grown(t)
         /\ \A f : Push(To(s, <<f>>)) /\ (s = t => f.type # "authenticated") => Grown(t)
         /\ \A f, g : Push(To(s, <<f, g>>)) /\ f.type # "authenticated"
                        /\ g.type # "authenticated" => Grown(t)
         /\ Push(Nothing) => Grown(t)
<1>1. ASSUME NEW S, NEW f, Push(ToAll(S, f)), f.type # "authenticated"
      PROVE  Grown(t)
  <2>1. ToAll(S, f)[t] \in {<<>>, <<f>>}
    BY DEF ToAll
  <2>2. ToAll(S, f)[t] \in Seq({f, f})
    BY <2>1, Short
  <2> QED
    BY <1>1, <2>2, PushGrows
<1>2. ASSUME NEW f, Push(To(s, <<f>>)), s = t => f.type # "authenticated"
      PROVE  Grown(t)
  <2>1. CASE s = t
    <3>1. To(s, <<f>>)[t] = <<f>>
      BY <2>1 DEF To, Nothing
    <3>2. To(s, <<f>>)[t] \in Seq({f, f})
      BY <3>1, Short
    <3> QED
      BY <1>2, <2>1, <3>2, PushGrows
  <2>2. CASE s # t
    <3>1. To(s, <<f>>)[t] = <<>>
      BY <2>2 DEF To, Nothing
    <3>2. To(s, <<f>>)[t] \in Seq({})
      BY <3>1, EmptySeq
    <3> QED
      BY <1>2, <3>2, PushGrows
  <2> QED
    BY <2>1, <2>2
<1>3. ASSUME NEW f, NEW g, Push(To(s, <<f, g>>)), f.type # "authenticated", g.type # "authenticated"
      PROVE  Grown(t)
  <2>1. To(s, <<f, g>>)[t] \in {<<>>, <<f, g>>}
    BY DEF To, Nothing
  <2>3. To(s, <<f, g>>)[t] \in Seq({f, g})
    BY <2>1, Short
  <2>2. \A x \in {f, g} : x.type # "authenticated"
    BY <1>3
  <2> QED
    BY <1>3, <2>2, <2>3, PushGrows
<1>4. ASSUME Push(Nothing) PROVE Grown(t)
  <2>1. Nothing[t] \in Seq({})
    BY DEF Nothing
  <2> QED
    BY <1>4, <2>1, PushGrows
<1> QED
  BY <1>1, <1>2, <1>3, <1>4

\* The hub handles a message: nothing but the subscriptions of its sender and
\* the wires move.
LEMMA ReceiveAside ==
  ASSUME Typed, NEW s \in Socket, NEW m, Receive(s, m), NEW t \in Socket
  PROVE  /\ UNCHANGED <<ws, authed, clients, seen>> /\ Grown(t)
         /\ t # s => Aside(t)
<1>1. UNCHANGED <<ws, authed, seen>>
  BY DEF Receive, conn
<1>2. clients' = clients /\ (t # s => subs'[t] = subs[t])
  BY DEF Receive, Malformed, handleMessage, Handle, subscribe, unsubscribe, broadcast,
         presenceTrack, presenceUntrack, hub, Typed
<1>3. \A ch, event, roster, kind :
        /\ PresenceFrame(ch, event, roster).type # "authenticated"
        /\ kind # "authenticated" => Ack(kind, ch).type # "authenticated"
  BY DEF PresenceFrame, Ack
<1>4. ASSUME NEW S, NEW ch, Push(Leave(s, ch, S))
      PROVE  Grown(t)
  BY <1>3, <1>4, SendsGrow DEF Leave
<1>5. ASSUME Malformed(s) PROVE Grown(t)
  BY <1>5, SendsGrow DEF Malformed, Plain
<1>6. ASSUME NEW ch, NEW event, NEW filter, subscribe(s, ch, event, filter)
      PROVE  Grown(t)
  BY <1>3, <1>6, SendsGrow DEF subscribe
<1>7. ASSUME NEW ch, unsubscribe(s, ch)
      PROVE  Grown(t)
  <2> PICK S : S = channelSubscribers(ch) \ {s}
    OBVIOUS
  <2> PICK out : out = Then(To(s, <<Ack("unsubscribed", ch)>>), Leave(s, ch, S))
    OBVIOUS
  <2> PICK a : a = Ack("unsubscribed", ch)
    OBVIOUS
  <2> PICK p : p = PresenceFrame(ch, "leave", snapshot(Untracked(s, ch), ch))
    OBVIOUS
  <2>1. Push(out)
    BY <1>7 DEF unsubscribe
  <2>2. To(s, <<a>>)[t] \in Seq({a, p})
    <3>1. To(s, <<a>>)[t] \in {<<>>, <<a>>}
      BY DEF To, Nothing
    <3> QED
      BY <3>1, Short
  <2>3. Leave(s, ch, S)[t] \in Seq({a, p})
    <3>1. Leave(s, ch, S)[t] \in {<<>>, <<p>>}
      BY DEF Leave, ToAll, Nothing
    <3> QED
      BY <3>1, Short
  <2>4. out[t] = To(s, <<a>>)[t] \o Leave(s, ch, S)[t]
    BY DEF Then
  <2>5. out[t] \in Seq({a, p})
    <3>1. \A G : \A x, y \in Seq(G) : x \o y \in Seq(G)
      BY ConcatProperties
    <3> QED
      BY <2>2, <2>3, <2>4, <3>1
  <2>6. \A f \in {a, p} : f.type # "authenticated"
    BY <1>3
  <2> QED
    BY <2>1, <2>5, <2>6, PushGrows
<1>8. ASSUME NEW ch, NEW payload, broadcast(s, ch, payload)
      PROVE  Grown(t)
  <2> PICK f : f = [type |-> "broadcast", channel |-> ch, payload |-> payload,
                    from |-> Claims[s].sub]
    OBVIOUS
  <2>1. \E S : Push(ToAll(S, f))
    BY <1>8 DEF broadcast
  <2> QED
    BY <2>1, SendsGrow
<1>9. ASSUME NEW ch, NEW state, presenceTrack(s, ch, state)
      PROVE  Grown(t)
  BY <1>3, <1>9, SendsGrow DEF presenceTrack
<1>10. ASSUME NEW ch, presenceUntrack(s, ch)
       PROVE  Grown(t)
  BY <1>4, <1>10 DEF presenceUntrack
<1>11. ASSUME wire' = wire PROVE Grown(t)
  BY <1>11, SameGrows
<1>12. Grown(t)
  BY <1>5, <1>6, <1>7, <1>8, <1>9, <1>10, <1>11 DEF Receive, handleMessage, Handle
<1> QED
  BY <1>1, <1>2, <1>12 DEF Aside

\* A socket other than t is upgraded, authenticates or is closed by its timer.
LEMMA OthersAside ==
  ASSUME Typed, NEW t \in Socket, NEW s \in Socket \ {t}
  PROVE  /\ \A tok : Connect(s, tok) => Aside(t)
         /\ \A valid : AuthMessage(s, valid) => Aside(t)
         /\ GraceExpires(s) => Aside(t)
<1>1. ASSUME NEW tok, Connect(s, tok)
      PROVE  Aside(t)
  <2>1. wire' = wire /\ seen' = seen /\ subs' = subs
    BY <1>1 DEF Connect, Add, hub
  <2>2. ws'[t] = ws[t] /\ (authed'[t] <=> authed[t]) /\ (t \in clients' <=> t \in clients)
    BY <1>1 DEF Connect, Add, hub, Typed
  <2> QED
    BY <2>1, <2>2, SameGrows DEF Aside
<1>2. ASSUME NEW valid, AuthMessage(s, valid)
      PROVE  Aside(t)
  <2>1. seen' = seen /\ subs' = subs
    BY <1>2 DEF AuthMessage, Add, hub
  <2>2. ws'[t] = ws[t] /\ (authed'[t] <=> authed[t]) /\ (t \in clients' <=> t \in clients)
    BY <1>2 DEF AuthMessage, Add, hub, Typed
  <2>3. wire' = wire \/ Push(To(s, <<Plain("authenticated")>>))
    BY <1>2 DEF AuthMessage
  <2>4. Grown(t)
    BY <2>3, SameGrows, SendsGrow
  <2> QED
    BY <2>1, <2>2, <2>4 DEF Aside
<1>3. ASSUME GraceExpires(s)
      PROVE  Aside(t)
  <2>1. UNCHANGED <<wire, seen, subs, authed, clients>> /\ ws'[t] = ws[t]
    BY <1>3 DEF GraceExpires, hub, Typed
  <2> QED
    BY <2>1, SameGrows DEF Aside
<1> QED
  BY <1>1, <1>2, <1>3

\* A socket other than t is gone.
LEMMA CloseAside ==
  ASSUME Booked, NEW t \in Socket, NEW s \in Socket \ {t}, OnClose(s)
  PROVE  Aside(t)
<1> USE DEF Booked
<1>1. /\ ws'[t] = ws[t] /\ authed' = authed /\ (t \in clients' <=> t \in clients)
      /\ subs'[t] = subs[t] /\ seen' = seen
  BY DEF OnClose, remove, Typed
<1>2. Grown(t)
  <2> PICK left : left = {ch \in Channel : s \in DOMAIN presence[ch]}
    OBVIOUS
  <2> PICK P : P = [ch \in Channel |->
                      PresenceFrame(ch, "leave", snapshot(Untracked(s, ch), ch))]
    OBVIOUS
  <2>1. PICK place, told :
          /\ \A x \in Socket : told[x] \in Notices(x, s, left, place)
          /\ Push([x \in Socket |-> [i \in DOMAIN told[x] |->
               PresenceFrame(told[x][i], "leave",
                             snapshot(Untracked(s, told[x][i]), told[x][i]))]])
    BY DEF OnClose, remove
  <2> PICK q : q = told[t]
    OBVIOUS
  <2>2. \A c : c \in left <=> c \in Channel /\ s \in DOMAIN presence[c]
    OBVIOUS
  <2>3. q \in Notices(t, s, left, place)
    BY <2>1
  <2>4. Lists(q, {c \in DOMAIN subs[t] : t # s /\ s \in DOMAIN presence[c]}, DOMAIN subs[t])
    BY <2>2, <2>3, NoticesListed
  <2>5. q \in Seq(DOMAIN subs[t]) /\ Len(q) \in Nat /\ DOMAIN q = 1..Len(q)
    BY <2>4 DEF Lists
  <2>6. \A i \in 1..Len(q) : q[i] \in Channel
    BY <2>5, ElementOfSeq DEF Typed
  <2> PICK v : v = [i \in DOMAIN q |->
                      PresenceFrame(q[i], "leave", snapshot(Untracked(s, q[i]), q[i]))]
    OBVIOUS
  <2> PICK G : G = {P[ch] : ch \in Channel}
    OBVIOUS
  <2>7. v \in [1..Len(q) -> G]
    BY <2>5, <2>6
  <2>8. v \in Seq(G)
    BY <2>5, <2>7, IsASeq
  <2>9. \A f \in G : f.type # "authenticated"
    BY DEF PresenceFrame
  <2> PICK out : out = [x \in Socket |-> [i \in DOMAIN told[x] |->
               PresenceFrame(told[x][i], "leave",
                             snapshot(Untracked(s, told[x][i]), told[x][i]))]]
    OBVIOUS
  <2>10. Push(out) /\ out[t] = v
    BY <2>1
  <2> QED
    BY <2>8, <2>9, <2>10, PushGrows
<1> QED
  BY <1>1, <1>2 DEF Aside

\* The messages of the library.
LEMMA MessagesTyped ==
  /\ \A ch \in Channel : /\ SubscribeMsg(ch) \in Outgoing
                         /\ Says(SubscribeMsg(ch), "subscribe", ch)
  /\ \A ch \in Channel : \A kind \in {"unsubscribe", "presence_untrack"} :
       /\ Msg(kind, ch) \in Outgoing /\ Says(Msg(kind, ch), kind, ch)
       /\ kind = "presence_untrack" \/ kind \in OfflineCalls => Msg(kind, ch) \in Waiting
  /\ \A ch \in Channel, state \in PStates :
       TrackMsg(ch, state) \in Waiting /\ TrackMsg(ch, state).type = "presence_track"
  /\ AuthMsg \in Outgoing /\ AuthMsg.type = "auth"
  /\ \A ch, kind : SubscribeMsg(ch).type = "subscribe" /\ Msg(kind, ch).type = kind
BY DEF SubscribeMsg, Outgoing, Waiting, Says, Msg, TrackMsg, AuthMsg

LEMMA WaitingTyped ==
  ASSUME NEW m \in Waiting
  PROVE  /\ m \in Outgoing /\ m.type \in {"presence_untrack", "presence_track", "unsubscribe"}
         /\ m.type = "unsubscribe" => "unsubscribe" \in OfflineCalls
BY DEF Waiting, Outgoing

LEMMA OutgoingTyped ==
  ASSUME NEW m \in Outgoing
  PROVE  /\ m.type \in {"subscribe", "unsubscribe", "presence_track", "presence_untrack", "auth"}
         /\ m.type # "auth" => m.channel \in Channel
         /\ m.type = "presence_track" => m.state \in PStates
BY DEF Outgoing, SubscribeMsg

\* One message, or none, is on its way.
LEMMA OneComes ==
  ASSUME NEW m, NEW kind, NEW ch
  PROVE  (Coming(<<m>>, kind, ch) <=> Says(m, kind, ch)) /\ ~Coming(<<>>, kind, ch)
BY DEF Coming

\* Nothing that waits subscribes, nor unsubscribes where that is not called offline.
LEMMA WaitingComes ==
  ASSUME NEW o \in Seq(Waiting), NEW ch
  PROVE  /\ ~Coming(o, "subscribe", ch)
         /\ "unsubscribe" \notin OfflineCalls => ~Coming(o, "unsubscribe", ch)
<1>1. \A i \in 1..Len(o) : o[i] \in Waiting
  BY ElementOfSeq
<1> QED
  BY <1>1, WaitingTyped DEF Coming, Says

\* The re-subscriptions, in some order.
LEMMA OrderListed ==
  ASSUME LibTyped, NEW order \in SetToSeqs(channels \cap active),
         NEW v, v = [i \in DOMAIN order |-> SubscribeMsg(order[i])]
  PROVE  /\ v \in Seq(Outgoing)
         /\ \A ch : ~Coming(v, "unsubscribe", ch)
         /\ \A ch : Coming(v, "subscribe", ch) <=> ch \in channels \cap active
<1> PICK W : W = channels \cap active
  OBVIOUS
<1>1. IsFiniteSet(W) /\ W \subseteq Channel
  BY FS_Intersection DEF LibTyped
<1>2. Lists(order, W, W)
  BY <1>1, AllListed
<1>3. /\ order \in Seq(W) /\ Len(order) \in Nat /\ DOMAIN order = 1..Len(order)
      /\ \A c \in W : \E i \in 1..Len(order) : order[i] = c
  BY <1>2 DEF Lists
<1>4. \A i \in 1..Len(order) : order[i] \in W /\ order[i] \in Channel
  BY <1>1, <1>3, ElementOfSeq
<1>5. v \in [1..Len(order) -> Outgoing]
  BY <1>3, <1>4, MessagesTyped
<1>6. v \in Seq(Outgoing) /\ Len(v) = Len(order)
  BY <1>3, <1>5, IsASeq, LenProperties
<1>7. \A i \in 1..Len(v) : v[i] = SubscribeMsg(order[i]) /\ order[i] \in W
  BY <1>3, <1>4, <1>6
<1>8. \A c : SubscribeMsg(c).type = "subscribe" /\ SubscribeMsg(c).channel = c
  BY DEF SubscribeMsg
<1>9. \A ch : ~Coming(v, "unsubscribe", ch)
  BY <1>7, <1>8 DEF Coming, Says
<1>10. ASSUME NEW ch
       PROVE  Coming(v, "subscribe", ch) <=> ch \in W
  BY <1>3, <1>6, <1>7, <1>8 DEF Coming, Says
<1> QED
  BY <1>6, <1>9, <1>10

\* A flush sends messages of the library and empties the outbox.
LEMMA FlushTyped ==
  ASSUME LibTyped, NEW u \in [Own -> Seq(Outgoing)], cur \in Own, Flush(u)
  PROVE  /\ up' \in [Own -> Seq(Outgoing)] /\ outbox' \in Seq(Waiting)
         /\ \A s \in Own \ {cur} : up'[s] = u[s]
         /\ \E v \in Seq(Outgoing) :
              /\ up'[cur] = (u[cur] \o v) \o outbox
              /\ \A ch : ~Coming(v, "unsubscribe", ch)
              /\ \A ch : Coming(v, "subscribe", ch) <=> ch \in channels \cap active
<1>1. PICK order \in SetToSeqs(channels \cap active) :
        up' = [u EXCEPT ![cur] = @ \o [i \in DOMAIN order |-> SubscribeMsg(order[i])] \o outbox]
  BY DEF Flush
<1> PICK v : v = [i \in DOMAIN order |-> SubscribeMsg(order[i])]
  OBVIOUS
<1>2. /\ v \in Seq(Outgoing)
      /\ \A ch : ~Coming(v, "unsubscribe", ch)
      /\ \A ch : Coming(v, "subscribe", ch) <=> ch \in channels \cap active
  BY OrderListed
<1>3. outbox \in Seq(Outgoing)
  <2>1. Waiting \subseteq Outgoing
    BY WaitingTyped
  <2> QED
    BY <2>1, SeqWider DEF LibTyped
<1>4. \A x, y \in Seq(Outgoing) : x \o y \in Seq(Outgoing)
  BY ConcatProperties
<1> PICK x : x = (u[cur] \o v) \o outbox
  OBVIOUS
<1>5. x \in Seq(Outgoing)
  BY <1>2, <1>3, <1>4
<1>6. up' = [u EXCEPT ![cur] = x]
  BY <1>1
<1>7. up' \in [Own -> Seq(Outgoing)] /\ up'[cur] = x /\ \A s \in Own \ {cur} : up'[s] = u[s]
  BY <1>5, <1>6
<1>8. outbox' \in Seq(Waiting)
  BY EmptySeq DEF Flush
<1> QED
  BY <1>2, <1>7, <1>8

\* Whatever was on its way: after a flush the active channels are what the
\* server will serve.
LEMMA FlushAgrees ==
  ASSUME LibTyped, NEW u \in [Own -> Seq(Outgoing)], cur \in Own, Flush(u),
         "unsubscribe" \notin OfflineCalls, NEW D, NEW ch,
         ch \notin channels \cap active => Agrees(u[cur], D, channels \cap active, ch)
  PROVE  /\ Agrees(up'[cur], D, channels \cap active, ch)
         /\ ch \in channels \cap active => Coming(up'[cur], "subscribe", ch)
<1> PICK W : W = channels \cap active
  OBVIOUS
<1> PICK w : w = u[cur]
  OBVIOUS
<1>1. PICK v \in Seq(Outgoing) :
        /\ up'[cur] = (w \o v) \o outbox
        /\ ~Coming(v, "unsubscribe", ch)
        /\ Coming(v, "subscribe", ch) <=> ch \in W
  BY FlushTyped
<1>2. w \in Seq(Outgoing) /\ outbox \in Seq(Outgoing)
  <2>1. Waiting \subseteq Outgoing
    BY WaitingTyped
  <2> QED
    BY <2>1, SeqWider DEF LibTyped
<1>3. Agrees(w \o v, D, W, ch)
  BY <1>1, <1>2, SentAgrees
<1>4. ~Coming(outbox, "subscribe", ch) /\ ~Coming(outbox, "unsubscribe", ch)
  BY WaitingComes DEF LibTyped
<1>5. w \o v \in Seq(Outgoing)
  BY <1>1, <1>2, ConcatProperties
<1>6. Agrees((w \o v) \o outbox, D, W, ch)
  BY <1>2, <1>3, <1>4, <1>5, SentAgrees
<1>7. ch \in W => Coming((w \o v) \o outbox, "subscribe", ch)
  <2>1. ch \in W => Coming(w \o v, "subscribe", ch)
    BY <1>1, <1>2, ComesLater
  <2> QED
    BY <1>2, <1>5, <2>1, ComesLater
<1> QED
  BY <1>1, <1>6, <1>7

-----------------------------------------------------------------------------
(***************************************************************************)
(* What the server, the network and the peer do to the library.            *)
(***************************************************************************)

\* A step that leaves the library and its socket alone.
LEMMA AsideKeeps ==
  ASSUME Booked, Booked', LibTyped, OneSocket, SignedIn, UNCHANGED <<lib, token>>,
         up' \in [Own -> Seq(Outgoing)],
         cur \in Own => up'[cur] = up[cur] /\ Aside(cur)
  PROVE  LibTyped' /\ OneSocket' /\ SignedIn' /\ (InStep => InStep')
<1>1. UNCHANGED <<cur, rs, urlToken, channels, active, outbox, authedC, closedByUser, timer,
                  last, token>>
  BY DEF lib
<1>2. LibTyped' /\ OneSocket'
  BY <1>1 DEF LibTyped, OneSocket
<1>3. CASE cur = NoSocket
  <2>1. ~authedC /\ ~authedC' /\ cur' = NoSocket
    BY <1>1, <1>3 DEF SignedIn
  <2>2. SignedIn' /\ InStep'
    BY <2>1 DEF SignedIn, InStep
  <2> QED
    BY <1>2, <2>2
<1>4. CASE cur \in Own
  <2> PICK c \in Own : c = cur
    BY <1>4
  <2>1. up'[c] = up[c] /\ Aside(c) /\ c \in Socket
    BY DEF Own
  <2>2. wire[c] \in Seq(Frame) /\ Len(wire[c]) \in Nat
    BY <2>1, LenProperties DEF Booked, Typed
  <2>3. Greeted(c)' => Greeted(c)
    BY <2>1, <2>2 DEF Greeted, Aside, Grown, Extended
  <2>4. Served(c)' <=> Served(c)
    BY <2>1 DEF Served, Aside
  <2>5. ws'[c] = ws[c] /\ subs'[c] = subs[c] /\ seen'[c] = seen[c]
    BY <2>1 DEF Aside
  <2>6. SignedIn'
    BY <1>1, <2>1, <2>3, <2>4, <2>5 DEF SignedIn
  <2>7. ASSUME NEW ch, Shown(ch)
        PROVE  Shown(ch)'
    <3>1. ASSUME NEW i \in 1..Len(wire[c]), IsRoster(wire[c][i], ch)
          PROVE  \E j \in 1..Len(wire'[c]) : IsRoster(wire'[c][j], ch)
      <4>1. Len(wire[c]) <= Len(wire'[c]) /\ wire'[c][i] = wire[c][i]
        BY <2>1 DEF Aside, Grown, Extended
      <4>2. Len(wire'[c]) \in Nat
        BY <2>1, LenProperties DEF Booked, Typed
      <4> QED
        BY <2>2, <3>1, <4>1
    <3> QED
      BY <1>1, <2>1, <2>5, <2>7, <3>1 DEF Shown
  <2>8. InStep => InStep'
    BY <1>1, <2>1, <2>5, <2>7 DEF InStep
  <2> QED
    BY <1>2, <2>6, <2>8
<1> QED
  BY <1>3, <1>4 DEF LibTyped

\* The upgrade of this.ws.
LEMMA ServerConnectKeeps ==
  ASSUME Booked, LibTyped, OneSocket, SignedIn, NEW s \in Own, ServerConnect(s)
  PROVE  LibTyped' /\ OneSocket' /\ SignedIn' /\ (InStep => InStep')
<1>1. /\ UNCHANGED <<cur, rs, urlToken, channels, active, outbox, authedC, closedByUser, timer,
                     last, token, up, wire, seen>>
      /\ Connect(s, urlToken[s]) /\ s = cur /\ s \in Socket
  BY DEF ServerConnect, Connect, lib, env, OneSocket, Own
<1>2. LibTyped' /\ OneSocket'
  BY <1>1 DEF LibTyped, OneSocket
<1>3. ~authed[s] /\ ws[s] = "new" /\ subs' = subs
  BY <1>1 DEF Connect, Add, hub, Booked, Typed
<1>4. ~authedC /\ ~Greeted(s)
  <2>1. cur # NoSocket /\ ~Served(s)
    BY <1>1, <1>3, PeerAssumption DEF Served
  <2> QED
    BY <1>1, <2>1 DEF SignedIn
<1>5. urlToken[s] = "good" => Served(s)'
  BY <1>1 DEF Connect, Add, Served, Booked, Typed
<1>6. ~Greeted(s)'
  BY <1>1, <1>4 DEF Greeted
<1>7. SignedIn'
  BY <1>1, <1>3, <1>4, <1>5, <1>6 DEF SignedIn
<1>8. InStep'
  BY <1>1, <1>4 DEF InStep
<1> QED
  BY <1>2, <1>7, <1>8

\* The grace timer of this.ws.
LEMMA ServerGraceKeeps ==
  ASSUME Booked, Booked', LibTyped, OneSocket, SignedIn, NEW s \in Own, ServerGrace(s)
  PROVE  LibTyped' /\ OneSocket' /\ SignedIn' /\ (InStep => InStep')
<1>1. /\ UNCHANGED <<cur, rs, urlToken, channels, active, outbox, authedC, closedByUser, timer,
                     last, token, up, wire, seen, authed, clients, subs>>
      /\ GraceExpires(s) /\ s \in Socket
  BY DEF ServerGrace, GraceExpires, lib, env, hub, Own
<1>2. CASE s # cur
  <2>1. cur \in Own => Aside(cur)
    BY <1>1, <1>2, OthersAside DEF Own, Booked
  <2>2. UNCHANGED <<lib, token>> /\ up' \in [Own -> Seq(Outgoing)]
    BY <1>1 DEF lib, LibTyped
  <2> QED
    BY <1>1, <2>1, <2>2, AsideKeeps
<1>3. CASE s = cur
  <2>1. LibTyped' /\ OneSocket'
    BY <1>1 DEF LibTyped, OneSocket
  <2>2. ws[s] # "new" /\ (authed[s] => ws'[s] = ws[s])
    BY <1>1 DEF GraceExpires, Connected, Booked, Typed
  <2>3. Served(s) => Served(s)'
    BY <1>1, <2>2 DEF Served
  <2>4. Greeted(s)' <=> Greeted(s)
    BY <1>1 DEF Greeted
  <2>5. SignedIn'
    BY <1>1, <1>3, <2>2, <2>3, <2>4 DEF SignedIn
  <2>6. InStep => InStep'
    BY <1>1 DEF InStep, Shown
  <2> QED
    BY <2>1, <2>5, <2>6
<1> QED
  BY <1>2, <1>3

\* The server notices that a browser has gone, or its frames are lost.
LEMMA ServerCloseKeeps ==
  ASSUME Booked, Booked', LibTyped, OneSocket, SignedIn, NEW s \in Own,
         ServerClose(s) \/ Discard(s)
  PROVE  LibTyped' /\ OneSocket' /\ SignedIn' /\ (InStep => InStep')
<1>1. s # cur /\ s \in Socket
  BY DEF ServerClose, Discard, OneSocket, Own
<1>2. UNCHANGED <<lib, token>>
  BY DEF ServerClose, Discard, env
<1>3. CASE ServerClose(s)
  <2>1. cur \in Own => Aside(cur)
    BY <1>1, <1>3, CloseAside DEF ServerClose, Own
  <2>2. up' \in [Own -> Seq(Outgoing)] /\ \A t \in Own \ {s} : up'[t] = up[t]
    BY <1>3, EmptySeq DEF ServerClose, LibTyped
  <2> QED
    BY <1>1, <1>2, <2>1, <2>2, AsideKeeps
<1>4. CASE Discard(s)
  <2>1. UNCHANGED <<ws, authed, clients, subs, seen, up>>
    BY <1>4 DEF Discard, conn, hub
  <2>2. cur \in Own => Aside(cur)
    <3> SUFFICES ASSUME cur \in Own PROVE Aside(cur)
      OBVIOUS
    <3>1. cur \in Socket /\ wire'[cur] = wire[cur]
      BY <1>1, <1>4 DEF Discard, Own, Booked, Typed
    <3> QED
      BY <2>1, <3>1, SameGrows DEF Aside, Booked
  <2>3. up' \in [Own -> Seq(Outgoing)]
    BY <2>1 DEF LibTyped
  <2> QED
    BY <1>2, <2>1, <2>2, <2>3, AsideKeeps
<1> QED
  BY <1>3, <1>4

\* The peer comes, goes and tracks itself.
LEMMA PeerStepKeeps ==
  ASSUME Booked, Booked', LibTyped, OneSocket, SignedIn, PeerStep
  PROVE  LibTyped' /\ OneSocket' /\ SignedIn' /\ (InStep => InStep')
<1>1. UNCHANGED <<lib, token, up>> /\ up' \in [Own -> Seq(Outgoing)]
  BY DEF PeerStep, env, LibTyped
<1>2. Peer \in Socket /\ (cur \in Own => cur \in Socket \ {Peer} /\ Peer \in Socket \ {cur})
  BY PeerAssumption DEF Own
<1>3. cur \in Own => Aside(cur)
  <2> SUFFICES ASSUME cur \in Own PROVE Aside(cur)
    OBVIOUS
  <2>1. ASSUME Connect(Peer, "good") PROVE Aside(cur)
    BY <1>2, <2>1, OthersAside DEF Booked
  <2>2. ASSUME NEW m, Receive(Peer, m) PROVE Aside(cur)
    BY <1>2, <2>2, ReceiveAside DEF Booked
  <2>3. ASSUME OnClose(Peer) PROVE Aside(cur)
    BY <1>2, <2>3, CloseAside
  <2> QED
    BY <2>1, <2>2, <2>3 DEF PeerStep
<1> QED
  BY <1>1, <1>3, AsideKeeps

\* A subscription is answered with a roster.
LEMMA SubscribeShows ==
  ASSUME Typed, NEW s \in Socket, NEW ch, NEW event, NEW filter, subscribe(s, ch, event, filter),
         ws[s] = "open"
  PROVE  \E i \in 1..Len(wire'[s]) : IsRoster(wire'[s][i], ch)
<1> PICK a : a = Ack("subscribed", ch)
  OBVIOUS
<1> PICK p : p = PresenceFrame(ch, "sync", snapshot(presence, ch))
  OBVIOUS
<1> PICK w : w = wire[s]
  OBVIOUS
<1> PICK v : v = <<a, p>>
  OBVIOUS
<1> PICK F : F = Frame \cup {a, p}
  OBVIOUS
<1>1. wire'[s] = w \o v
  BY DEF subscribe, Push, To, Nothing
<1>2. w \in Seq(F) /\ v \in Seq(F)
  <2>1. w \in Seq(Frame) /\ v \in Seq({a, p})
    BY Short DEF Typed
  <2> QED
    BY <2>1, SeqWider
<1>3. /\ Len(w) \in Nat /\ Len(v) \in Nat /\ Len(w \o v) = Len(w) + Len(v)
      /\ \A i \in 1..Len(v) : (w \o v)[Len(w) + i] = v[i]
  BY <1>2, Behind
<1>4. Len(v) = 2 /\ v[2] = p /\ IsRoster(p, ch)
  BY DEF IsRoster, PresenceFrame
<1>5. Len(w) + 2 \in 1..Len(w \o v) /\ (w \o v)[Len(w) + 2] = p
  BY <1>3, <1>4
<1> QED
  BY <1>1, <1>4, <1>5

\* What a message makes of the subscriptions of its sender.
LEMMA HandleSubs ==
  ASSUME Typed, NEW s \in Socket, NEW m, Handle(s, m)
  PROVE  \A ch :
           /\ Says(m, "subscribe", ch) => ch \in DOMAIN subs'[s]
           /\ Says(m, "unsubscribe", ch) => ch \notin DOMAIN subs'[s]
           /\ ~Says(m, "subscribe", ch) /\ ~Says(m, "unsubscribe", ch) =>
                (ch \in DOMAIN subs'[s] <=> ch \in DOMAIN subs[s])
<1>1. CASE m.type = "subscribe"
  <2>1. DOMAIN subs'[s] = DOMAIN subs[s] \cup {m.channel}
    BY <1>1 DEF Handle, subscribe, With, Typed
  <2> QED
    BY <1>1, <2>1 DEF Says
<1>2. CASE m.type = "unsubscribe"
  <2>1. DOMAIN subs'[s] = DOMAIN subs[s] \ {m.channel}
    BY <1>2 DEF Handle, unsubscribe, Without, Restrict, Typed
  <2> QED
    BY <1>2, <2>1 DEF Says
<1>3. CASE m.type \notin {"subscribe", "unsubscribe"}
  <2>1. subs' = subs
    BY <1>3 DEF Handle, broadcast, presenceTrack, presenceUntrack, Malformed, hub
  <2> QED
    BY <1>3, <2>1 DEF Says
<1> QED
  BY <1>1, <1>2, <1>3

\* The server receives the token on this.ws.
LEMMA TokenReceived ==
  ASSUME Booked, LibTyped, OneSocket, SignedIn, NEW s \in Own, s = cur, UNCHANGED <<lib, token>>,
         up[s] # <<>>, Head(up[s]).type = "auth", up' = [up EXCEPT ![s] = Tail(@)],
         \/ authed[s] /\ UNCHANGED vars
         \/ \E valid : AuthMessage(s, valid)
  PROVE  LibTyped' /\ OneSocket' /\ SignedIn' /\ (InStep => InStep')
<1>1. UNCHANGED <<cur, rs, urlToken, channels, active, outbox, authedC, closedByUser, timer,
                  last, token>>
  BY DEF lib
<1> PICK u \in Seq(Outgoing) : u = up[s]
  BY DEF LibTyped
<1>2. /\ u # <<>> /\ Len(u) \in Nat /\ Len(u) > 0 /\ Len(Tail(u)) = Len(u) - 1 /\ Head(u) = u[1]
      /\ \A i \in 1..Len(Tail(u)) : Tail(u)[i] = u[i + 1]
  BY Rest
<1>3. Tail(u) \in Seq(Outgoing)
  BY <1>2, HeadTailProperties
<1>4. up' \in [Own -> Seq(Outgoing)] /\ up'[s] = Tail(u)
  BY <1>3 DEF LibTyped
<1>5. LibTyped' /\ OneSocket'
  BY <1>1, <1>4 DEF LibTyped, OneSocket
<1>6. s \in Socket /\ s # NoSocket
  BY PeerAssumption DEF Own
<1>7. subs' = subs /\ seen' = seen /\ (ws[s] # "new" => ws'[s] # "new")
  BY <1>6 DEF AuthMessage, Add, vars, hub, Booked, Typed
<1>8. ws'[s] # "new" => ws[s] # "new"
  BY <1>6 DEF AuthMessage, Connected, vars
<1>9. Served(s) => Served(s)'
  BY <1>6 DEF AuthMessage, Served, vars
<1>10. OnlyAuth(u) => OnlyAuth(Tail(u))
  BY <1>2 DEF OnlyAuth
<1>11. CASE wire'[s] = wire[s]
  <2>1. SignedIn'
    BY <1>1, <1>4, <1>6, <1>7, <1>8, <1>9, <1>10, <1>11 DEF SignedIn, Greeted
  <2>2. ASSUME InStep PROVE InStep'
    <3> SUFFICES ASSUME authedC, NEW ch \in Channel
                 PROVE  /\ Agrees(Tail(u), DOMAIN subs[s], channels \cap active, ch)
                        /\ ch \in channels \cap active => Shown(ch)'
      BY <1>1, <1>4, <1>7 DEF InStep
    <3>1. Agrees(u, DOMAIN subs[s], channels \cap active, ch)
      BY <2>2 DEF InStep
    <3>2. ~Says(u[1], "subscribe", ch) /\ ~Says(u[1], "unsubscribe", ch)
      BY <1>2 DEF Says
    <3>3. Agrees(Tail(u), DOMAIN subs[s], channels \cap active, ch)
      BY <1>2, <3>1, <3>2, HandledAgrees
    <3>4. Coming(u, "subscribe", ch) => Coming(Tail(u), "subscribe", ch)
      BY <1>2, <3>2, RestComes
    <3>5. Shown(ch) => Shown(ch)'
      BY <1>1, <1>4, <1>7, <1>11, <3>4 DEF Shown
    <3> QED
      BY <2>2, <3>3, <3>5 DEF InStep
  <2> QED
    BY <1>5, <2>1, <2>2
<1>12. CASE wire'[s] # wire[s]
  <2>1. ~authed[s] /\ ws[s] = "open" /\ Served(s)'
    BY <1>6, <1>12 DEF AuthMessage, Add, Push, Served, vars, Booked, Typed
  <2>2. ~authedC
    BY <2>1 DEF SignedIn, Served
  <2>3. SignedIn'
    BY <1>1, <1>4, <1>6, <1>7, <1>10, <2>1, <2>2 DEF SignedIn
  <2>4. InStep'
    BY <1>1, <2>2 DEF InStep
  <2> QED
    BY <1>5, <2>3, <2>4
<1> QED
  BY <1>11, <1>12

\* The server receives a message on this.ws: it has authenticated the socket.
LEMMA MessageReceived ==
  ASSUME Booked, Booked', LibTyped, OneSocket, SignedIn, NEW s \in Own, s = cur,
         UNCHANGED <<lib, token>>, up[s] # <<>>, up' = [up EXCEPT ![s] = Tail(@)],
         NEW m, m = Head(up[s]), m.type # "auth", Receive(s, m)
  PROVE  LibTyped' /\ OneSocket' /\ SignedIn' /\ (InStep => InStep')
<1>1. UNCHANGED <<cur, rs, urlToken, channels, active, outbox, authedC, closedByUser, timer,
                  last, token>>
  BY DEF lib
<1> PICK u \in Seq(Outgoing) : u = up[s]
  BY DEF LibTyped
<1>2. /\ u # <<>> /\ Len(u) \in Nat /\ Len(u) > 0 /\ Len(Tail(u)) = Len(u) - 1 /\ m = u[1]
      /\ \A i \in 1..Len(Tail(u)) : Tail(u)[i] = u[i + 1]
  BY Rest
<1>3. Tail(u) \in Seq(Outgoing)
  BY <1>2, HeadTailProperties
<1>4. up' \in [Own -> Seq(Outgoing)] /\ up'[s] = Tail(u)
  BY <1>3 DEF LibTyped
<1>5. LibTyped' /\ OneSocket'
  BY <1>1, <1>4 DEF LibTyped, OneSocket
<1>6. s \in Socket /\ s # NoSocket
  BY PeerAssumption DEF Own
<1>7. authedC /\ Served(s)
  <2>1. ~OnlyAuth(u)
    BY <1>2 DEF OnlyAuth
  <2> QED
    BY <1>6, <2>1 DEF SignedIn
<1>8. UNCHANGED <<ws, authed, clients, seen>> /\ Grown(s)
  BY <1>6, ReceiveAside DEF Booked
<1>9. Handle(s, m)
  BY <1>7 DEF Served, Receive, handleMessage
<1>10. Served(s)'
  BY <1>7, <1>8 DEF Served
<1>11. SignedIn'
  BY <1>1, <1>6, <1>7, <1>10 DEF SignedIn
<1>12. ASSUME InStep PROVE InStep'
  <2> SUFFICES ASSUME NEW ch \in Channel
               PROVE  /\ Agrees(Tail(u), DOMAIN subs'[s], channels \cap active, ch)
                      /\ ch \in channels \cap active => Shown(ch)'
    BY <1>1, <1>4 DEF InStep
  <2>1. Agrees(u, DOMAIN subs[s], channels \cap active, ch)
        /\ (ch \in channels \cap active => Shown(ch))
    BY <1>7, <1>12 DEF InStep
  <2>2. /\ Says(u[1], "subscribe", ch) => ch \in DOMAIN subs'[s]
        /\ Says(u[1], "unsubscribe", ch) => ch \notin DOMAIN subs'[s]
        /\ ~Says(u[1], "subscribe", ch) /\ ~Says(u[1], "unsubscribe", ch) =>
             (ch \in DOMAIN subs'[s] <=> ch \in DOMAIN subs[s])
    BY <1>2, <1>6, <1>9, HandleSubs DEF Booked
  <2>3. Agrees(Tail(u), DOMAIN subs'[s], channels \cap active, ch)
    BY <1>2, <2>1, <2>2, HandledAgrees
  <2>4. ASSUME Shown(ch) PROVE Shown(ch)'
    <3>1. CASE last[ch] = seen[s][ch].roster
      BY <1>1, <1>8, <3>1 DEF Shown
    <3>2. CASE Coming(Tail(u), "subscribe", ch)
      BY <1>1, <1>4, <3>2 DEF Shown
    <3>3. CASE Says(u[1], "subscribe", ch)
      <4>1. m.type = "subscribe" /\ m.channel = ch
        BY <1>2, <3>3 DEF Says
      <4>2. subscribe(s, ch, m.event, m.filter)
        BY <1>9, <4>1 DEF Handle
      <4>3. \E i \in 1..Len(wire'[s]) : IsRoster(wire'[s][i], ch)
        BY <1>6, <1>7, <4>2, SubscribeShows DEF Served, Booked
      <4> QED
        BY <1>1, <4>3 DEF Shown
    <3>4. CASE \E i \in 1..Len(wire[s]) : IsRoster(wire[s][i], ch)
      <4>1. PICK i \in 1..Len(wire[s]) : IsRoster(wire[s][i], ch)
        BY <3>4
      <4>2. Len(wire[s]) \in Nat /\ Len(wire'[s]) \in Nat
        BY <1>6, LenProperties DEF Booked, Typed
      <4>3. i \in 1..Len(wire'[s]) /\ wire'[s][i] = wire[s][i]
        BY <1>8, <4>2 DEF Grown, Extended
      <4> QED
        BY <1>1, <4>1, <4>3 DEF Shown
    <3>5. Coming(u, "subscribe", ch) => Says(u[1], "subscribe", ch) \/ Coming(Tail(u), "subscribe", ch)
      BY <1>2, RestComes
    <3> QED
      BY <2>4, <3>1, <3>2, <3>3, <3>4, <3>5 DEF Shown
  <2> QED
    BY <2>1, <2>3, <2>4
<1> QED
  BY <1>5, <1>11, <1>12

\* The server receives whatever comes next.
LEMMA ServerReceiveKeeps ==
  ASSUME Booked, Booked', LibTyped, OneSocket, SignedIn, NEW s \in Own, ServerReceive(s)
  PROVE  LibTyped' /\ OneSocket' /\ SignedIn' /\ (InStep => InStep')
<1> PICK m : m = Head(up[s])
  OBVIOUS
<1>1. /\ up[s] # <<>> /\ up' = [up EXCEPT ![s] = Tail(@)] /\ UNCHANGED <<lib, token>>
      /\ \/ m.type # "auth" /\ Receive(s, m)
         \/ m.type = "auth" /\ authed[s] /\ UNCHANGED vars
         \/ m.type = "auth" /\ AuthMessage(s, m.valid)
  BY DEF ServerReceive, env
<1>2. CASE s = cur
  <2>1. CASE m.type = "auth"
    BY <1>1, <1>2, <2>1, TokenReceived
  <2>2. CASE m.type # "auth"
    BY <1>1, <1>2, <2>2, MessageReceived
  <2> QED
    BY <2>1, <2>2
<1>3. CASE s # cur
  <2>1. up' \in [Own -> Seq(Outgoing)] /\ \A t \in Own \ {s} : up'[t] = up[t]
    <3>1. up[s] \in Seq(Outgoing)
      BY DEF LibTyped
    <3>2. Tail(up[s]) \in Seq(Outgoing)
      BY <1>1, <3>1, HeadTailProperties
    <3> QED
      BY <1>1, <3>2 DEF LibTyped
  <2>2. ASSUME cur \in Own PROVE Aside(cur)
    <3>1. s \in Socket /\ cur \in Socket /\ s \in Socket \ {cur}
      BY <1>3, <2>2 DEF Own
    <3>2. UNCHANGED vars => Aside(cur)
      BY <3>1, SameGrows DEF vars, Aside, Booked
    <3> QED
      BY <1>1, <1>3, <3>1, <3>2, ReceiveAside, OthersAside DEF Booked
  <2> QED
    BY <1>1, <1>3, <2>1, <2>2, AsideKeeps
<1> QED
  BY <1>2, <1>3

-----------------------------------------------------------------------------
(***************************************************************************)
(* What the application calls, and the events of the browser.              *)
(***************************************************************************)

\* A message is sent at once, or waits.
LEMMA SendTyped ==
  ASSUME LibTyped, NEW m \in Outgoing, m \in Waiting \/ m.type = "subscribe" \/ Ready, Send(m)
  PROVE  /\ up' \in [Own -> Seq(Outgoing)] /\ outbox' \in Seq(Waiting)
         /\ Ready => cur \in Own /\ up'[cur] = up[cur] \o <<m>>
         /\ ~Ready => up' = up
<1>1. CASE Ready
  <2>1. cur \in Own /\ up[cur] \in Seq(Outgoing)
    BY <1>1 DEF Ready, LibTyped
  <2>2. up' = [up EXCEPT ![cur] = Append(@, m)] /\ outbox' = outbox
    BY <1>1 DEF Send
  <2>3. Append(up[cur], m) = up[cur] \o <<m>> /\ Append(up[cur], m) \in Seq(Outgoing)
    BY <2>1, AppendIsConcat, AppendProperties
  <2> QED
    BY <1>1, <2>1, <2>2, <2>3 DEF LibTyped
<1>2. CASE ~Ready
  <2>1. up' = up /\ Queue(m)
    BY <1>2 DEF Send
  <2>2. outbox' \in Seq(Waiting)
    BY <1>2, <2>1, AppendProperties DEF Queue, LibTyped
  <2> QED
    BY <1>2, <2>1, <2>2 DEF LibTyped
<1> QED
  BY <1>1, <1>2

\* A call that sends a message and opens no socket.
LEMMA SendKeeps ==
  ASSUME Booked, LibTyped, OneSocket, SignedIn,
         NEW m \in Outgoing, m \in Waiting \/ m.type = "subscribe" \/ Ready, Send(m),
         UNCHANGED <<vars, cur, rs, urlToken, authedC, timer, token, last>>,
         closedByUser' \in BOOLEAN, channels' \subseteq Channel, IsFiniteSet(channels'),
         active' \subseteq Channel,
         \A ch \in Channel :
           \/ /\ ~Says(m, "subscribe", ch) /\ ~Says(m, "unsubscribe", ch)
              /\ ch \in channels' \cap active' <=> ch \in channels \cap active
           \/ Says(m, "subscribe", ch) /\ ch \in channels' \cap active'
           \/ Says(m, "unsubscribe", ch) /\ ch \notin channels' \cap active'
  PROVE  LibTyped' /\ OneSocket' /\ SignedIn' /\ (InStep => InStep')
<1>1. /\ up' \in [Own -> Seq(Outgoing)] /\ outbox' \in Seq(Waiting)
      /\ Ready => cur \in Own /\ up'[cur] = up[cur] \o <<m>>
      /\ ~Ready => up' = up
  BY SendTyped
<1>2. LibTyped' /\ OneSocket'
  BY <1>1 DEF LibTyped, OneSocket
<1>3. authedC <=> Ready
  BY DEF SignedIn, Ready
<1>4. UNCHANGED <<ws, authed, clients, subs, wire, seen>>
  BY DEF vars
<1>5. SignedIn'
  BY <1>1, <1>3, <1>4 DEF SignedIn, Served, Greeted
<1>6. ASSUME InStep PROVE InStep'
  <2> SUFFICES ASSUME authedC, NEW ch \in Channel
               PROVE  /\ Agrees(up'[cur], DOMAIN subs[cur], channels' \cap active', ch)
                      /\ ch \in channels' \cap active' => Shown(ch)'
    BY <1>4 DEF InStep
  <2> PICK u \in Seq(Outgoing) : u = up[cur]
    BY <1>1, <1>3 DEF LibTyped
  <2> PICK v : v = <<m>>
    OBVIOUS
  <2>1. v \in Seq(Outgoing) /\ up'[cur] = u \o v
    BY <1>1, <1>3
  <2>2. Agrees(u, DOMAIN subs[cur], channels \cap active, ch)
        /\ (ch \in channels \cap active => Shown(ch))
    BY <1>6 DEF InStep
  <2>3. \A kind : Coming(v, kind, ch) <=> Says(m, kind, ch)
    BY OneComes
  <2>4. ~(Says(m, "subscribe", ch) /\ Says(m, "unsubscribe", ch))
    BY DEF Says
  <2>5. Agrees(u \o v, DOMAIN subs[cur], channels' \cap active', ch)
    BY <2>1, <2>2, <2>3, <2>4, SentAgrees
  <2>6. ASSUME ch \in channels' \cap active' PROVE Shown(ch)'
    <3>1. Coming(u \o v, "subscribe", ch) <=> Coming(u, "subscribe", ch) \/ Coming(v, "subscribe", ch)
      BY <2>1, ComesLater
    <3>2. Shown(ch) \/ Coming(v, "subscribe", ch)
      BY <2>2, <2>3, <2>6
    <3> QED
      BY <1>4, <2>1, <3>1, <3>2 DEF Shown
  <2> QED
    BY <2>1, <2>5, <2>6
<1> QED
  BY <1>2, <1>5, <1>6

\* connect(): the browser is told nothing yet, and that is the truth.
LEMMA DialSound ==
  ASSUME Booked, LibTyped, connect
  PROVE  Booked' /\ Sound(cur)'
<1>1. PICK s \in Own :
        /\ Fresh(s) /\ cur' = s /\ rs' = [rs EXCEPT ![s] = "connecting"]
        /\ urlToken' = [urlToken EXCEPT ![s] = token] /\ authedC' = FALSE
        /\ ws' = [ws EXCEPT ![s] = "new"] /\ authed' = [authed EXCEPT ![s] = FALSE]
        /\ wire' = [wire EXCEPT ![s] = <<>>] /\ up' = [up EXCEPT ![s] = <<>>]
        /\ seen' = [seen EXCEPT ![s] = [ch \in Channel |-> [on |-> FALSE, roster |-> {}]]]
        /\ UNCHANGED <<grace, clients, subs, presence, refs, nextRef>>
  BY DEF connect, hub
<1>2. s \in Socket
  BY DEF Own
<1>3. s \notin clients /\ s \notin grace /\ DOMAIN subs[s] = {}
  BY <1>1, <1>2 DEF Fresh, Booked, Typed, Connected
<1>4. /\ wire'[s] = <<>> /\ Len(wire'[s]) = 0 /\ ws'[s] = "new"
      /\ \A ch \in Channel : ~seen'[s][ch].on
  BY <1>1, <1>2 DEF Booked, Typed
<1>5. Typed'
  <2>1. /\ ws' \in [Socket -> {"new", "open", "closing", "closed"}]
        /\ authed' \in [Socket -> BOOLEAN] /\ ~authed'[s]
        /\ \A t \in Socket \ {s} : ws'[t] = ws[t] /\ (authed'[t] <=> authed[t])
    BY <1>1, <1>2 DEF Booked, Typed
  <2>2. grace' \subseteq {t \in Socket : ws'[t] \in {"open", "closing"} /\ ~authed'[t]}
    BY <1>1, <1>3, <2>1 DEF Booked, Typed, Connected
  <2>3. clients' \subseteq {t \in Socket : ws'[t] \in {"open", "closing"} /\ authed'[t]}
    BY <1>1, <1>3, <2>1 DEF Booked, Typed, Connected
  <2>4. \A t \in Socket : ws'[t] = "new" => ~authed'[t]
    BY <2>1 DEF Booked, Typed
  <2>5. wire' \in [Socket -> Seq(Frame)]
    BY <1>1, EmptySeq DEF Booked, Typed
  <2>6. seen' \in [Socket -> [Channel -> Sight]]
    BY <1>1 DEF Booked, Typed, Sight
  <2> QED
    BY <1>1, <2>1, <2>2, <2>3, <2>4, <2>5, <2>6 DEF Booked, Typed, Connected
<1>6. Registered'
  BY <1>1 DEF Booked, Registered
<1>7. Sound(s)'
  BY <1>1, <1>3, <1>4 DEF Sound, Tells, Brackets, OnAfter
<1> QED
  BY <1>1, <1>5, <1>6, <1>7 DEF Booked

\* connect(), where this.ws is none: the library starts on a socket that
\* neither end knows.
LEMMA DialKeeps ==
  ASSUME Booked, LibTyped, OneSocket, cur = NoSocket, connect, timer' = FALSE,
         outbox' \in Seq(Waiting), UNCHANGED <<token, last>>,
         closedByUser' \in BOOLEAN, channels' \subseteq Channel, IsFiniteSet(channels'),
         active' \subseteq Channel
  PROVE  LibTyped' /\ OneSocket' /\ SignedIn' /\ InStep'
<1>1. PICK s \in Own :
        /\ Fresh(s) /\ cur' = s /\ rs' = [rs EXCEPT ![s] = "connecting"]
        /\ urlToken' = [urlToken EXCEPT ![s] = token] /\ authedC' = FALSE
        /\ ws' = [ws EXCEPT ![s] = "new"] /\ authed' = [authed EXCEPT ![s] = FALSE]
        /\ wire' = [wire EXCEPT ![s] = <<>>] /\ up' = [up EXCEPT ![s] = <<>>]
        /\ seen' = [seen EXCEPT ![s] = [ch \in Channel |-> [on |-> FALSE, roster |-> {}]]]
        /\ UNCHANGED <<grace, clients, subs, presence, refs, nextRef>>
  BY DEF connect, hub
<1>2. s \in Socket /\ s # NoSocket /\ \A t \in Own : t # NoSocket
  BY PeerAssumption DEF Own
<1>3. s \notin clients /\ s \notin grace /\ DOMAIN subs[s] = {}
  BY <1>1, <1>2 DEF Fresh, Booked, Typed, Connected
<1>4. LibTyped'
  <2>1. up' \in [Own -> Seq(Outgoing)]
    BY <1>1, EmptySeq DEF LibTyped
  <2> QED
    BY <1>1, <2>1 DEF LibTyped
<1>5. OneSocket'
  BY <1>1, <1>2 DEF OneSocket, LibTyped
<1>6. wire'[s] = <<>> /\ Len(wire'[s]) = 0 /\ up'[s] = <<>> /\ ws'[s] = "new"
  BY <1>1, <1>2 DEF Booked, Typed, LibTyped
<1>7. SignedIn' /\ InStep'
  <2>1. ~Greeted(s)'
    BY <1>6 DEF Greeted
  <2>2. OnlyAuth(<<>>)
    BY DEF OnlyAuth
  <2> QED
    BY <1>1, <1>3, <1>6, <2>1, <2>2 DEF SignedIn, InStep
<1> QED
  BY <1>4, <1>5, <1>7

\* ensureConnected(), then send().
LEMMA ConnectAndSendKeeps ==
  ASSUME Booked, LibTyped, OneSocket, SignedIn, ~timer,
         NEW m \in Outgoing, m \in Waiting \/ m.type = "subscribe", ConnectAndSend(m),
         UNCHANGED <<timer, token, last>>,
         channels' \subseteq Channel, IsFiniteSet(channels'), active' \subseteq Channel,
         \A ch \in Channel :
           \/ /\ ~Says(m, "subscribe", ch) /\ ~Says(m, "unsubscribe", ch)
              /\ ch \in channels' \cap active' <=> ch \in channels \cap active
           \/ Says(m, "subscribe", ch) /\ ch \in channels' \cap active'
           \/ Says(m, "unsubscribe", ch) /\ ch \notin channels' \cap active'
  PROVE  LibTyped' /\ OneSocket' /\ SignedIn' /\ (InStep => InStep')
<1>1. closedByUser' \in BOOLEAN
  BY DEF ConnectAndSend
<1>2. CASE cur = NoSocket
  <2>1. connect /\ Queue(m) /\ timer' = FALSE
    BY <1>2 DEF ConnectAndSend, LibTyped
  <2>2. outbox' \in Seq(Waiting)
    BY <2>1, AppendProperties DEF Queue, LibTyped
  <2> QED
    BY <1>1, <1>2, <2>1, <2>2, DialKeeps
<1>3. CASE cur # NoSocket
  <2>1. Send(m) /\ UNCHANGED <<cur, rs, urlToken, authedC, conn, hub, wire, seen>>
    BY <1>3 DEF ConnectAndSend
  <2>2. UNCHANGED <<vars, cur, rs, urlToken, authedC, timer, token, last>>
    BY <2>1 DEF vars, conn, hub
  <2> QED
    BY <1>1, <2>1, <2>2, SendKeeps
<1> QED
  BY <1>2, <1>3

LEMMA CallSubscribeKeeps ==
  ASSUME Booked, LibTyped, OneSocket, SignedIn, Prudent, NEW ch \in Channel, CallSubscribe(ch)
  PROVE  LibTyped' /\ OneSocket' /\ SignedIn' /\ (InStep => InStep')
<1> PICK m : m = SubscribeMsg(ch)
  OBVIOUS
<1>1. m \in Outgoing /\ m.type = "subscribe" /\ m.channel = ch
  BY MessagesTyped DEF Says
<1>2. /\ ~timer /\ ConnectAndSend(m) /\ UNCHANGED <<timer, token, last>>
      /\ active' = active \cup {ch} /\ channels' = channels \cup {ch}
  BY DEF CallSubscribe, Call, Prudent
<1>3. channels' \subseteq Channel /\ IsFiniteSet(channels') /\ active' \subseteq Channel
  BY <1>2, FS_AddElement DEF LibTyped
<1>4. \A c \in Channel :
        \/ /\ ~Says(m, "subscribe", c) /\ ~Says(m, "unsubscribe", c)
           /\ c \in channels' \cap active' <=> c \in channels \cap active
        \/ Says(m, "subscribe", c) /\ c \in channels' \cap active'
  BY <1>1, <1>2 DEF Says
<1> QED
  BY <1>1, <1>2, <1>3, <1>4, ConnectAndSendKeeps

LEMMA CallTrackKeeps ==
  ASSUME Booked, LibTyped, OneSocket, SignedIn, Prudent, NEW ch \in Channel, CallTrack(ch)
  PROVE  LibTyped' /\ OneSocket' /\ SignedIn' /\ (InStep => InStep')
<1> PICK state \in PStates : ConnectAndSend(TrackMsg(ch, state))
  BY DEF CallTrack
<1> PICK m : m = TrackMsg(ch, state)
  OBVIOUS
<1>1. m \in Waiting /\ m \in Outgoing /\ m.type = "presence_track"
  BY MessagesTyped, WaitingTyped
<1>2. /\ ~timer /\ ConnectAndSend(m)
      /\ UNCHANGED <<timer, token, last, channels, active>>
  BY DEF CallTrack, Call, Prudent
<1>3. channels' \subseteq Channel /\ IsFiniteSet(channels') /\ active' \subseteq Channel
  BY <1>2 DEF LibTyped
<1>4. \A c \in Channel :
        /\ ~Says(m, "subscribe", c) /\ ~Says(m, "unsubscribe", c)
        /\ c \in channels' \cap active' <=> c \in channels \cap active
  BY <1>1, <1>2 DEF Says
<1> QED
  BY <1>1, <1>2, <1>3, <1>4, ConnectAndSendKeeps

LEMMA CallUnsubscribeKeeps ==
  ASSUME Booked, LibTyped, OneSocket, SignedIn, NEW ch \in Channel, CallUnsubscribe(ch)
  PROVE  LibTyped' /\ OneSocket' /\ SignedIn' /\ (InStep => InStep')
<1> PICK m : m = Msg("unsubscribe", ch)
  OBVIOUS
<1>1. /\ m \in Outgoing /\ m.type = "unsubscribe" /\ m.channel = ch
      /\ "unsubscribe" \in OfflineCalls => m \in Waiting
  BY MessagesTyped DEF Says
<1>2. /\ Ready \/ "unsubscribe" \in OfflineCalls
      /\ Send(m) /\ UNCHANGED <<vars, cur, rs, urlToken, authedC, closedByUser, timer, token, last>>
      /\ active' = active \ {ch} /\ channels' = channels \ {ch}
  BY DEF CallUnsubscribe, Call
<1>3. /\ channels' \subseteq Channel /\ IsFiniteSet(channels') /\ active' \subseteq Channel
      /\ closedByUser' \in BOOLEAN
  BY <1>2, FS_RemoveElement DEF LibTyped
<1>4. \A c \in Channel :
        \/ /\ ~Says(m, "subscribe", c) /\ ~Says(m, "unsubscribe", c)
           /\ c \in channels' \cap active' <=> c \in channels \cap active
        \/ Says(m, "unsubscribe", c) /\ c \notin channels' \cap active'
  BY <1>1, <1>2 DEF Says
<1>5. UNCHANGED <<vars, cur, rs, urlToken, authedC, timer, token, last>>
  BY <1>2
<1> QED
  BY <1>1, <1>2, <1>3, <1>4, <1>5, SendKeeps

LEMMA CallUntrackKeeps ==
  ASSUME Booked, LibTyped, OneSocket, SignedIn, NEW ch \in Channel, CallUntrack(ch)
  PROVE  LibTyped' /\ OneSocket' /\ SignedIn' /\ (InStep => InStep')
<1> PICK m : m = Msg("presence_untrack", ch)
  OBVIOUS
<1>1. m \in Outgoing /\ m.type = "presence_untrack" /\ m \in Waiting
  BY MessagesTyped DEF Says
<1>2. /\ Send(m) /\ UNCHANGED <<vars, cur, rs, urlToken, authedC, timer, token, last>>
      /\ UNCHANGED <<closedByUser, channels, active>>
  BY DEF CallUntrack, Call
<1>3. /\ channels' \subseteq Channel /\ IsFiniteSet(channels') /\ active' \subseteq Channel
      /\ closedByUser' \in BOOLEAN
  BY <1>2 DEF LibTyped
<1>4. \A c \in Channel :
        /\ ~Says(m, "subscribe", c) /\ ~Says(m, "unsubscribe", c)
        /\ c \in channels' \cap active' <=> c \in channels \cap active
  BY <1>1, <1>2 DEF Says
<1> QED
  BY <1>1, <1>2, <1>3, <1>4, SendKeeps

\* channel() makes a channel that nobody has subscribed yet; the token changes.
LEMMA QuietKeeps ==
  ASSUME Booked, LibTyped, OneSocket, SignedIn, Prudent,
         (\E ch \in Channel : CallChannel(ch)) \/ TokenChanges
  PROVE  LibTyped' /\ OneSocket' /\ SignedIn' /\ (InStep => InStep')
<1>1. /\ UNCHANGED <<cur, rs, urlToken, outbox, authedC, closedByUser, timer, up>>
      /\ UNCHANGED <<ws, authed, clients, subs, wire, seen>>
      /\ token' \in {"none", "good"}
  BY DEF CallChannel, TokenChanges, Call, Prudent, vars, lib, LibTyped
<1>2. /\ channels' \subseteq Channel /\ IsFiniteSet(channels') /\ active' \subseteq Channel
      /\ last' = [ch \in Channel |-> last'[ch]]
  BY FS_AddElement DEF CallChannel, TokenChanges, lib, LibTyped
<1>3. LibTyped' /\ OneSocket' /\ SignedIn'
  BY <1>1, <1>2 DEF LibTyped, OneSocket, SignedIn, Served, Greeted
<1>4. channels' \cap active' = channels \cap active
  BY DEF CallChannel, TokenChanges, lib
<1>5. \A c \in channels \cap active : last'[c] = last[c]
  BY DEF CallChannel, TokenChanges, lib, LibTyped
<1>6. \A c \in channels \cap active : Shown(c) => Shown(c)'
  BY <1>1, <1>5 DEF Shown
<1>7. InStep => InStep'
  BY <1>1, <1>4, <1>6 DEF InStep
<1> QED
  BY <1>3, <1>7

\* this.ws goes, by disconnect() or because it is closed.
LEMMA TeardownKeeps ==
  ASSUME Booked, LibTyped, OneSocket, SignedIn,
         CallDisconnect \/ \E s \in Own : OnSocketClose(s)
  PROVE  LibTyped' /\ OneSocket' /\ SignedIn' /\ (InStep => InStep')
<1>1. /\ UNCHANGED <<urlToken, outbox, up, active, last, token>>
      /\ cur' = NoSocket /\ ~authedC' /\ authedC' \in BOOLEAN
      /\ closedByUser' \in BOOLEAN /\ timer' \in BOOLEAN
  BY DEF CallDisconnect, OnSocketClose, Call, teardownSocket, scheduleReconnect, LibTyped
<1>2. channels' \subseteq Channel /\ IsFiniteSet(channels')
  BY FS_EmptySet DEF CallDisconnect, OnSocketClose, LibTyped
<1>3. rs' = TornDown(rs)
  <2>1. CASE CallDisconnect
    BY <2>1 DEF CallDisconnect
  <2>2. ASSUME NEW s \in Own, OnSocketClose(s)
        PROVE  rs' = TornDown(rs)
    <3>1. rs' = [TornDown(rs) EXCEPT ![s] = "none"] /\ s = cur /\ s # NoSocket
      BY <2>2, PeerAssumption DEF OnSocketClose, teardownSocket, OneSocket, Own
    <3> QED
      BY <3>1 DEF TornDown, LibTyped
  <2> QED
    BY <2>1, <2>2
<1>4. \A s \in Own : s # NoSocket
  BY PeerAssumption DEF Own
<1>5. rs' \in [Own -> {"none", "connecting", "open"}] /\ \A s \in Own : rs'[s] = "none"
  <2>1. CASE cur = NoSocket
    BY <1>3, <1>4, <2>1 DEF TornDown, LibTyped, OneSocket
  <2>2. CASE cur # NoSocket
    <3>1. rs' = [rs EXCEPT ![cur] = "none"]
      BY <1>3, <2>2 DEF TornDown
    <3>2. \A s \in Own : s # cur => rs[s] = "none"
      BY DEF OneSocket
    <3> QED
      BY <3>1, <3>2 DEF LibTyped
  <2> QED
    BY <2>1, <2>2
<1>6. LibTyped' /\ OneSocket'
  BY <1>1, <1>2, <1>4, <1>5 DEF LibTyped, OneSocket
<1> QED
  BY <1>1, <1>6 DEF SignedIn, InStep

LEMMA TimerFiresKeeps ==
  ASSUME Booked, LibTyped, OneSocket, SignedIn, TimerFires
  PROVE  LibTyped' /\ OneSocket' /\ SignedIn' /\ (InStep => InStep')
<1>1. /\ cur = NoSocket /\ timer' = FALSE
      /\ UNCHANGED <<channels, active, outbox, closedByUser, last, token>>
  BY DEF TimerFires, OneSocket, env
<1>2. CASE channels # {}
  <2>1. connect
    BY <1>2 DEF TimerFires
  <2>2. outbox' \in Seq(Waiting) /\ closedByUser' \in BOOLEAN /\ channels' \subseteq Channel
        /\ IsFiniteSet(channels') /\ active' \subseteq Channel
    BY <1>1 DEF LibTyped
  <2> QED
    BY <1>1, <2>1, <2>2, DialKeeps
<1>3. CASE channels = {}
  <2>1. UNCHANGED <<cur, rs, urlToken, authedC, up>>
    BY <1>3 DEF TimerFires
  <2>2. LibTyped' /\ OneSocket'
    BY <1>1, <2>1 DEF LibTyped, OneSocket
  <2>3. ~authedC
    BY <1>1 DEF SignedIn
  <2> QED
    BY <1>1, <2>1, <2>2, <2>3 DEF SignedIn, InStep
<1> QED
  BY <1>2, <1>3

\* Where only the token has been sent, nothing is on its way about a channel.
LEMMA OnlyAuthAgrees ==
  ASSUME NEW u, OnlyAuth(u), NEW W, NEW ch, ch \notin W
  PROVE  Agrees(u, {}, W, ch)
BY DEF OnlyAuth, Agrees, Coming, Undone, Says

\* A socket opens: with a token in its URL the library holds itself signed in
\* and flushes, without one it sends the token first.
LEMMA OnOpenKeeps ==
  ASSUME Booked, LibTyped, OneSocket, SignedIn, NEW s \in Own, OnOpen(s)
  PROVE  /\ LibTyped' /\ OneSocket' /\ SignedIn'
         /\ "unsubscribe" \notin OfflineCalls /\ InStep => InStep'
<1> PICK u : u = IF urlToken[s] = "none" /\ token # "none"
                 THEN [up EXCEPT ![s] = Append(@, AuthMsg)] ELSE up
  OBVIOUS
<1>1. /\ rs[s] = "connecting" /\ ws[s] # "new" /\ rs' = [rs EXCEPT ![s] = "open"]
      /\ authedC' = (authedC \/ urlToken[s] # "none")
      /\ IF (authedC \/ urlToken[s] # "none") /\ cur # NoSocket /\ (cur = s \/ rs[cur] = "open")
         THEN Flush(u) ELSE up' = u /\ UNCHANGED outbox
      /\ UNCHANGED <<vars, cur, urlToken, channels, active, closedByUser, timer, last, env>>
  BY DEF OnOpen
<1>2. s = cur /\ s # NoSocket /\ s \in Own
  BY <1>1, PeerAssumption DEF OneSocket, Own
<1>3. ~authedC /\ OnlyAuth(up[s]) /\ DOMAIN subs[s] = {}
  BY <1>1, <1>2 DEF SignedIn
<1>4. /\ UNCHANGED <<ws, authed, clients, subs, wire, seen, token>>
      /\ rs' \in [Own -> {"none", "connecting", "open"}] /\ \A t \in Own : rs'[t] # "none" <=> t = s
      /\ rs'[s] = "open"
  BY <1>1, <1>2 DEF vars, env, LibTyped, OneSocket
<1>5. OneSocket'
  BY <1>1, <1>2, <1>4 DEF OneSocket
<1>6. CASE urlToken[s] = "none"
  <2>1. authedC' = FALSE /\ up' = u /\ outbox' = outbox
    BY <1>1, <1>3, <1>6 DEF LibTyped
  <2>2. u[s] = up[s] \/ u[s] = Append(up[s], AuthMsg)
    BY DEF LibTyped
  <2>3. up[s] \in Seq(Outgoing) /\ AuthMsg \in Outgoing /\ AuthMsg.type = "auth"
    BY MessagesTyped DEF LibTyped
  <2>4. Append(up[s], AuthMsg) \in Seq(Outgoing)
    BY <2>3, AppendProperties
  <2>5. u \in [Own -> Seq(Outgoing)]
    BY <2>4 DEF LibTyped
  <2>6. OnlyAuth(Append(up[s], AuthMsg))
    <3> PICK w \in Seq(Outgoing) : w = up[s]
      BY <2>3
    <3> PICK x : x = Append(w, AuthMsg)
      OBVIOUS
    <3>1. /\ Len(w) \in Nat /\ Len(x) = Len(w) + 1 /\ x[Len(w) + 1] = AuthMsg
          /\ \A i \in 1..Len(w) : x[i] = w[i]
      BY <2>3, AppendProperties
    <3>2. \A i \in 1..Len(x) : i \in 1..Len(w) \/ i = Len(w) + 1
      BY <3>1
    <3>3. \A i \in 1..Len(w) : w[i].type = "auth"
      BY <1>3 DEF OnlyAuth
    <3> QED
      BY <2>3, <3>1, <3>2, <3>3 DEF OnlyAuth
  <2>7. LibTyped'
    BY <1>1, <1>4, <2>1, <2>5 DEF LibTyped
  <2>8. OnlyAuth(up'[s])
    BY <1>3, <2>1, <2>2, <2>6
  <2>9. SignedIn'
    BY <1>1, <1>2, <1>3, <1>4, <2>1, <2>8 DEF SignedIn, Served, Greeted
  <2> QED
    BY <1>5, <2>1, <2>7, <2>9 DEF InStep
<1>7. CASE urlToken[s] # "none"
  <2>1. u = up /\ Flush(up) /\ authedC' = TRUE
    BY <1>1, <1>2, <1>7 DEF LibTyped
  <2>2. up' \in [Own -> Seq(Outgoing)] /\ outbox' \in Seq(Waiting)
    BY <1>2, <2>1, FlushTyped DEF LibTyped
  <2>3. LibTyped'
    BY <1>1, <1>4, <2>1, <2>2 DEF LibTyped
  <2>4. urlToken[s] = "good"
    BY <1>7 DEF LibTyped
  <2>5. Served(s)
    BY <1>1, <1>2, <2>4 DEF SignedIn
  <2>6. SignedIn'
    BY <1>1, <1>2, <1>4, <2>1, <2>5 DEF SignedIn, Served
  <2>7. ASSUME "unsubscribe" \notin OfflineCalls, NEW ch \in Channel
        PROVE  /\ Agrees(up'[s], {}, channels \cap active, ch)
               /\ ch \in channels \cap active => Coming(up'[s], "subscribe", ch)
    <3>1. ch \notin channels \cap active => Agrees(up[cur], {}, channels \cap active, ch)
      BY <1>2, <1>3, OnlyAuthAgrees
    <3>2. up \in [Own -> Seq(Outgoing)] /\ cur \in Own
      BY <1>2 DEF LibTyped
    <3> QED
      BY <1>2, <2>1, <2>7, <3>1, <3>2, FlushAgrees
  <2>8. "unsubscribe" \notin OfflineCalls => InStep'
    BY <1>1, <1>2, <1>3, <1>4, <2>7 DEF InStep, Shown
  <2> QED
    BY <1>5, <2>3, <2>6, <2>8
<1> QED
  BY <1>6, <1>7

\* A frame is read: "authenticated" makes the library flush, a roster is shown.
LEMMA OnMessageKeeps ==
  ASSUME Booked, Booked', LibTyped, OneSocket, SignedIn, NEW s \in Own, OnMessage(s)
  PROVE  /\ LibTyped' /\ OneSocket' /\ SignedIn'
         /\ "unsubscribe" \notin OfflineCalls /\ InStep => InStep'
<1> PICK f : f = Head(wire[s])
  OBVIOUS
<1>1. /\ rs[s] = "open" /\ Read(s)
      /\ authedC' = (authedC \/ f.type = "authenticated")
      /\ IF f.type = "authenticated" /\ cur # NoSocket /\ rs[cur] = "open" THEN Flush(up)
         ELSE UNCHANGED <<up, outbox>>
      /\ IF f.type = "presence" THEN _emitPresence(f) ELSE UNCHANGED last
      /\ UNCHANGED <<cur, rs, urlToken, channels, active, closedByUser, timer, token>>
  BY DEF OnMessage, env
<1>2. s = cur /\ s # NoSocket /\ s \in Socket
  BY <1>1, PeerAssumption DEF OneSocket, Own
<1> PICK w \in Seq(Frame) : w = wire[s]
  BY <1>2 DEF Booked, Typed
<1>3. /\ w # <<>> /\ Len(w) \in Nat /\ Len(w) > 0 /\ Len(Tail(w)) = Len(w) - 1 /\ f = w[1]
      /\ \A i \in 1..Len(Tail(w)) : Tail(w)[i] = w[i + 1]
  BY <1>1, Rest DEF Read
<1>4. f \in Frame
  BY <1>3, ElementOfSeq
<1>5. /\ wire'[s] = Tail(w) /\ UNCHANGED <<ws, authed, clients, subs>>
  BY <1>1, <1>2 DEF Read, conn, hub, Booked, Typed
<1>6. \A ch \in Channel : Read1(f, ch, seen[s][ch], seen'[s][ch])
  BY <1>1, <1>2, <1>4, ReadSeen DEF Booked
<1>7. OneSocket'
  BY <1>1 DEF OneSocket
<1>8. last' = [ch \in Channel |-> last'[ch]]
  BY <1>1 DEF _emitPresence, LibTyped
<1>9. Greeted(s)' => Greeted(s)
  <2> SUFFICES ASSUME NEW i \in 1..Len(Tail(w)), Tail(w)[i].type = "authenticated"
               PROVE  \E j \in 1..Len(w) : w[j].type = "authenticated"
    BY <1>5 DEF Greeted
  <2>1. i + 1 \in 1..Len(w) /\ w[i + 1].type = "authenticated"
    BY <1>3
  <2> QED
    BY <2>1
<1>10. Served(s)' <=> Served(s)
  BY <1>5 DEF Served
<1>11. CASE f.type = "authenticated"
  <2>1. Flush(up) /\ authedC' = TRUE
    BY <1>1, <1>2, <1>11 DEF LibTyped
  <2>2. up' \in [Own -> Seq(Outgoing)] /\ outbox' \in Seq(Waiting)
    BY <1>2, <2>1, FlushTyped DEF LibTyped
  <2>3. LibTyped'
    BY <1>1, <1>8, <2>1, <2>2 DEF LibTyped
  <2>4. Served(s)
    <3>1. 1 \in 1..Len(w) /\ w[1].type = "authenticated"
      BY <1>3, <1>11
    <3>2. Greeted(s)
      BY <3>1 DEF Greeted
    <3> QED
      BY <1>2, <3>2 DEF SignedIn
  <2>5. SignedIn'
    BY <1>1, <1>2, <1>10, <2>1, <2>4 DEF SignedIn
  <2>6. ASSUME "unsubscribe" \notin OfflineCalls, InStep, NEW ch \in Channel
        PROVE  /\ Agrees(up'[s], DOMAIN subs[s], channels \cap active, ch)
               /\ ch \in channels \cap active => Coming(up'[s], "subscribe", ch)
    <3>1. ch \notin channels \cap active =>
            Agrees(up[cur], DOMAIN subs[s], channels \cap active, ch)
      <4>1. CASE authedC
        BY <1>2, <2>6, <4>1 DEF InStep
      <4>2. CASE ~authedC
        BY <1>2, <4>2, OnlyAuthAgrees DEF SignedIn
      <4> QED
        BY <4>1, <4>2
    <3>2. up \in [Own -> Seq(Outgoing)] /\ cur \in Own
      BY <1>2 DEF LibTyped
    <3> QED
      BY <1>2, <2>1, <2>6, <3>1, <3>2, FlushAgrees
  <2>7. "unsubscribe" \notin OfflineCalls /\ InStep => InStep'
    BY <1>1, <1>2, <1>5, <2>6 DEF InStep, Shown
  <2> QED
    BY <1>7, <2>3, <2>5, <2>7
<1>12. CASE f.type # "authenticated"
  <2>1. UNCHANGED <<up, outbox, authedC>>
    BY <1>1, <1>12 DEF LibTyped
  <2>2. LibTyped'
    BY <1>1, <1>8, <2>1 DEF LibTyped
  <2>3. SignedIn'
    BY <1>1, <1>2, <1>5, <1>9, <1>10, <2>1 DEF SignedIn
  <2>4. ASSUME NEW ch \in channels \cap active, Shown(ch)
        PROVE  Shown(ch)'
    <3>1. ch \in Channel
      BY DEF LibTyped
    <3>2. seen'[s][ch].roster = IF IsRoster(f, ch) THEN f.presences ELSE seen[s][ch].roster
      BY <1>6, <3>1 DEF Read1
    <3>3. last'[ch] = IF IsRoster(f, ch) THEN f.presences ELSE last[ch]
      BY <1>1, <3>1 DEF _emitPresence, IsRoster, LibTyped
    <3>4. CASE last[ch] = seen[s][ch].roster \/ IsRoster(f, ch)
      BY <1>1, <1>2, <3>2, <3>3, <3>4 DEF Shown
    <3>5. CASE Coming(up[s], "subscribe", ch)
      BY <1>1, <1>2, <2>1, <3>5 DEF Shown
    <3>6. ASSUME NEW i \in 1..Len(w), IsRoster(w[i], ch), ~IsRoster(f, ch)
          PROVE  Shown(ch)'
      <4>1. i # 1
        BY <1>3, <3>6
      <4>2. i - 1 \in 1..Len(Tail(w)) /\ Tail(w)[i - 1] = w[i]
        BY <1>3, <4>1
      <4> QED
        BY <1>1, <1>2, <1>5, <3>6, <4>2 DEF Shown
    <3> QED
      BY <1>2, <2>4, <3>4, <3>5, <3>6 DEF Shown
  <2>5. ASSUME InStep, authedC, NEW ch \in Channel
        PROVE  /\ Agrees(up'[s], DOMAIN subs'[s], channels \cap active, ch)
               /\ ch \in channels \cap active => Shown(ch)'
    <3>1. /\ Agrees(up[s], DOMAIN subs[s], channels \cap active, ch)
          /\ ch \in channels \cap active => Shown(ch)
      BY <1>2, <2>5 DEF InStep
    <3>2. up' = up /\ subs' = subs
      BY <1>5, <2>1
    <3> QED
      BY <2>4, <3>1, <3>2
  <2>6. InStep => InStep'
    <3>1. cur' = s /\ UNCHANGED <<channels, active, authedC>>
      BY <1>1, <1>2, <2>1
    <3> QED
      BY <2>5, <3>1 DEF InStep
  <2> QED
    BY <1>7, <2>2, <2>3, <2>6
<1> QED
  BY <1>11, <1>12

-----------------------------------------------------------------------------
(***************************************************************************)
(* The server's own invariant, of it and of the browser at this.ws.        *)
(***************************************************************************)

\* A step that leaves the server alone.
LEMMA StillKeeps ==
  ASSUME NEW A \in SUBSET Socket, IInv(A), UNCHANGED vars
  PROVE  IInv(A)'
BY NextIInv

\* The upgrade, a message, the grace timer, a socket that is gone.
LEMMA ServerStepSound ==
  ASSUME NEW A \in SUBSET Socket, IInv(A), LibTyped, NEW s \in Own,
         ServerConnect(s) \/ ServerReceive(s) \/ ServerGrace(s) \/ ServerClose(s)
  PROVE  IInv(A)'
<1>0. s \in Socket
  BY DEF Own
<1>1. ASSUME ServerConnect(s)
      PROVE  IInv(A)'
  BY <1>0, <1>1, ConnectKeeps DEF ServerConnect
<1>2. ASSUME ServerReceive(s)
      PROVE  IInv(A)'
  <2> PICK m : m = Head(up[s])
    OBVIOUS
  <2>1. m \in Outgoing
    BY <1>2, HeadTailProperties DEF ServerReceive, LibTyped
  <2>2. /\ m.type # "auth" => Receive(s, m)
        /\ m.type = "auth" => UNCHANGED vars \/ AuthMessage(s, m.valid)
    BY <1>2 DEF ServerReceive
  <2>3. CASE m.type # "auth"
    <3>1. /\ m.type \in {"subscribe", "unsubscribe", "presence_track", "presence_untrack"}
          /\ m.channel \in Channel
          /\ m.type = "presence_track" => m.state \in PStates
      BY <2>1, <2>3, OutgoingTyped
    <3> QED
      BY <1>0, <2>2, <2>3, <3>1, ReceiveKeeps
  <2>4. CASE m.type = "auth"
    <3>1. m.valid \in BOOLEAN
      BY <2>1, <2>4 DEF Outgoing, SubscribeMsg
    <3> QED
      BY <1>0, <2>2, <2>4, <3>1, StillKeeps, AuthMessageKeeps
  <2> QED
    BY <2>3, <2>4
<1>3. ASSUME ServerGrace(s)
      PROVE  IInv(A)'
  BY <1>0, <1>3, GraceExpiresKeeps DEF ServerGrace
<1>4. ASSUME ServerClose(s)
      PROVE  IInv(A)'
  BY <1>0, <1>4, NextIInv DEF ServerClose, Next, SocketStep
<1> QED
  BY <1>1, <1>2, <1>3, <1>4

\* The peer's steps are steps of the hub.
LEMMA PeerStepSound ==
  ASSUME NEW A \in SUBSET Socket, IInv(A), PeerStep
  PROVE  IInv(A)'
<1>0. Peer \in Socket
  BY PeerAssumption
<1>1. ASSUME Connect(Peer, "good")
      PROVE  IInv(A)'
  BY <1>0, <1>1, ConnectKeeps
<1>2. ASSUME NEW ch \in Channel, NEW state \in PStates, Receive(Peer, TrackMsg(ch, state))
      PROVE  IInv(A)'
  <2>1. LET m == TrackMsg(ch, state) IN
          m.type = "presence_track" /\ m.channel \in Channel /\ m.state \in PStates
    BY DEF TrackMsg
  <2> QED
    BY <1>0, <1>2, <2>1, ReceiveKeeps
<1>3. ASSUME NEW ch \in Channel, Receive(Peer, Msg("presence_untrack", ch))
      PROVE  IInv(A)'
  <2>1. LET m == Msg("presence_untrack", ch) IN m.type = "presence_untrack" /\ m.channel \in Channel
    BY DEF Msg
  <2> QED
    BY <1>0, <1>3, <2>1, ReceiveKeeps
<1>4. ASSUME OnClose(Peer)
      PROVE  IInv(A)'
  BY <1>0, <1>4, NextIInv DEF Next, SocketStep
<1> QED
  BY <1>1, <1>2, <1>3, <1>4 DEF PeerStep

\* Frames on a wire that nobody reads are dropped.
LEMMA DiscardSound ==
  ASSUME NEW A \in SUBSET Socket, IInv(A), NEW s \in Own, s \notin A, Discard(s)
  PROVE  IInv(A)'
<1>1. /\ s \in Socket /\ wire' = [wire EXCEPT ![s] = <<>>]
      /\ UNCHANGED <<ws, authed, grace, clients, subs, presence, refs, nextRef, seen>>
  BY DEF Discard, conn, hub, Own
<1>2. <<>> \in Seq(Frame)
  BY EmptySeq
<1>3. Typed'
  BY <1>1, <1>2 DEF IInv, Booked, Typed, Connected
<1>4. Registered'
  BY <1>1 DEF IInv, Booked, Registered
<1>5. ASSUME NEW t \in A
      PROVE  Sound(t)'
  <2>1. /\ wire'[t] = wire[t] /\ seen'[t] = seen[t] /\ presence' = presence
        /\ subs'[t] = subs[t] /\ ws'[t] = ws[t]
    BY <1>1 DEF IInv, Booked, Typed
  <2>2. Sound(t)
    BY DEF IInv
  <2>3. snapshot(presence', t) = snapshot(presence, t)
    BY <2>1
  <2> QED
    BY <2>1, <2>2 DEF Sound
<1> QED
  BY <1>3, <1>4, <1>5 DEF IInv, Booked

\* Every step keeps the server in order, and what this.ws is told true.
LEMMA NextServerInv ==
  ASSUME ServerInv, LibTyped, OneSocket, [NextClient]_allVars
  PROVE  ServerInv'
<1>1. CASE UNCHANGED <<vars, cur>> \/ (UNCHANGED vars /\ cur' = NoSocket)
  <2>0. IInv({}) /\ {} \in SUBSET Socket /\ UNCHANGED vars
    BY <1>1 DEF IInv, ServerInv
  <2>1. IInv({})'
    BY <2>0, StillKeeps
  <2>2. Booked'
    BY <2>1 DEF IInv
  <2>3. ASSUME cur' # NoSocket
        PROVE  Sound(cur)'
    <3> PICK c : c = cur
      OBVIOUS
    <3>1. cur' = c /\ c \in Socket /\ Sound(c) /\ UNCHANGED vars
      BY <1>1, <2>3 DEF LibTyped, Own, ServerInv
    <3>2. IInv({c})
      BY <3>1 DEF IInv, ServerInv
    <3>3. IInv({c})'
      BY <3>1, <3>2, StillKeeps
    <3>4. Sound(c)'
      BY <3>3 DEF IInv
    <3> QED
      BY <3>1, <3>4
  <2> QED
    BY <2>2, <2>3 DEF ServerInv
<1>2. CASE \/ \E s \in Own : ServerStep(s) \/ OnMessage(s)
           \/ PeerStep
  <2>0. cur' = cur
    BY <1>2 DEF ServerStep, ServerConnect, ServerReceive, ServerGrace, ServerClose, Discard,
                OnMessage, PeerStep, lib
  <2>1. ASSUME NEW A \in SUBSET Socket, IInv(A), \A s \in A : s = cur
        PROVE  IInv(A)'
    <3>1. ASSUME PeerStep
          PROVE  IInv(A)'
      BY <2>1, <3>1, PeerStepSound
    <3>2. ASSUME NEW s \in Own, OnMessage(s)
          PROVE  IInv(A)'
      <4>1. s \in Socket /\ Read(s)
        BY <3>2 DEF OnMessage, Own
      <4> QED
        BY <2>1, <4>1, ReadKeeps
    <3>3. ASSUME NEW s \in Own, Discard(s)
          PROVE  IInv(A)'
      <4>1. s \notin A
        BY <2>1, <3>3 DEF Discard, OneSocket
      <4> QED
        BY <2>1, <3>3, <4>1, DiscardSound
    <3>4. ASSUME NEW s \in Own,
                 ServerConnect(s) \/ ServerReceive(s) \/ ServerGrace(s) \/ ServerClose(s)
          PROVE  IInv(A)'
      BY <2>1, <3>4, ServerStepSound
    <3> QED
      BY <1>2, <3>1, <3>2, <3>3, <3>4 DEF ServerStep
  <2>2. Booked'
    <3>1. IInv({})
      BY DEF IInv, ServerInv
    <3>2. IInv({})'
      BY <2>1, <3>1
    <3> QED
      BY <3>2 DEF IInv
  <2>3. ASSUME cur # NoSocket
        PROVE  Sound(cur)'
    <3> PICK c : c = cur
      OBVIOUS
    <3>1. c \in Socket /\ IInv({c})
      BY <2>3 DEF LibTyped, Own, ServerInv, IInv
    <3>2. IInv({c})'
      BY <2>1, <3>1
    <3>3. Sound(c)'
      BY <3>2 DEF IInv
    <3> QED
      BY <2>0, <3>3
  <2> QED
    BY <2>0, <2>2, <2>3 DEF ServerInv
<1>3. CASE connect
  <2>1. Booked' /\ Sound(cur)'
    BY <1>3, DialSound DEF ServerInv
  <2> QED
    BY <2>1 DEF ServerInv
<1>4. ASSUME NEW ch \in Channel, CallSubscribe(ch) \/ CallTrack(ch)
      PROVE  connect \/ UNCHANGED <<vars, cur>>
  BY <1>4 DEF CallSubscribe, CallTrack, ConnectAndSend, vars, conn, hub
<1>5. ASSUME NEW ch \in Channel, CallChannel(ch) \/ CallUnsubscribe(ch) \/ CallUntrack(ch)
      PROVE  UNCHANGED <<vars, cur>>
  BY <1>5 DEF CallChannel, CallUnsubscribe, CallUntrack
<1>6. CallDisconnect => UNCHANGED vars /\ cur' = NoSocket
  BY DEF CallDisconnect
<1>7. TokenChanges => UNCHANGED <<vars, cur>>
  BY DEF TokenChanges, lib
<1>8. TimerFires => connect \/ UNCHANGED <<vars, cur>>
  BY DEF TimerFires
<1>9. ASSUME NEW s \in Own, OnOpen(s)
      PROVE  UNCHANGED <<vars, cur>>
  BY <1>9 DEF OnOpen
<1>10. ASSUME NEW s \in Own, OnSocketClose(s)
       PROVE  UNCHANGED vars /\ cur' = NoSocket
  BY <1>10 DEF OnSocketClose, teardownSocket
<1>11. UNCHANGED allVars => UNCHANGED <<vars, cur>>
  BY DEF allVars, lib
<1> QED
  BY <1>1, <1>2, <1>3, <1>4, <1>5, <1>6, <1>7, <1>8, <1>9, <1>10, <1>11 DEF NextClient, BrowserStep

-----------------------------------------------------------------------------
(***************************************************************************)
(* The two ends together.                                                  *)
(***************************************************************************)
LEMMA InitLib ==
  ASSUME Prudent, InitClient
  PROVE  ServerInv /\ LibTyped /\ OneSocket /\ SignedIn /\ InStep
<1>1. Booked
  BY InitIInv DEF InitClient, IInv
<1>2. <<>> \in Seq(Outgoing) /\ <<>> \in Seq(Waiting)
  BY EmptySeq
<1>3. LibTyped
  BY <1>2, FS_EmptySet DEF InitClient, LibTyped, Prudent
<1>4. \A s \in Own : s # NoSocket
  BY PeerAssumption DEF Own
<1> QED
  BY <1>1, <1>3, <1>4 DEF InitClient, ServerInv, OneSocket, SignedIn, InStep

\* A step that changes nothing.
LEMMA StutterKeeps ==
  ASSUME ServerInv, ServerInv', LibTyped, OneSocket, SignedIn, UNCHANGED allVars
  PROVE  LibTyped' /\ OneSocket' /\ SignedIn' /\ (InStep => InStep')
<1>1. /\ UNCHANGED <<lib, token, up>>
      /\ UNCHANGED <<ws, authed, clients, subs, seen, wire>>
  BY DEF allVars, env, vars
<1>2. ASSUME cur \in Own
      PROVE  up'[cur] = up[cur] /\ Aside(cur)
  <2>1. cur \in Socket
    BY <1>2 DEF Own
  <2>2. Grown(cur)
    BY <1>1, <2>1, SameGrows DEF ServerInv, Booked
  <2> QED
    BY <1>1, <2>2 DEF Aside
<1>3. up' \in [Own -> Seq(Outgoing)]
  BY <1>1 DEF LibTyped
<1> QED
  BY <1>1, <1>2, <1>3, AsideKeeps DEF ServerInv

\* Every step of the library, the server or the network keeps the library's
\* invariant; that the ends are in step, where no unsubscribe is sent offline.
LEMMA NextLib ==
  ASSUME Prudent, ServerInv, LibTyped, OneSocket, SignedIn, [NextClient]_allVars
  PROVE  /\ LibTyped' /\ OneSocket' /\ SignedIn'
         /\ "unsubscribe" \notin OfflineCalls /\ InStep => InStep'
<1>0. ServerInv' /\ Booked /\ Booked'
  BY NextServerInv DEF ServerInv
<1> DEFINE Goal == /\ LibTyped' /\ OneSocket' /\ SignedIn'
                   /\ "unsubscribe" \notin OfflineCalls /\ InStep => InStep'
<1>1. UNCHANGED allVars => Goal
  BY <1>0, StutterKeeps
<1>2. ASSUME NEW ch \in Channel
      PROVE  /\ CallChannel(ch) => Goal
             /\ CallSubscribe(ch) => Goal
             /\ CallUnsubscribe(ch) => Goal
             /\ CallTrack(ch) => Goal
             /\ CallUntrack(ch) => Goal
  BY <1>0, QuietKeeps, CallSubscribeKeeps, CallUnsubscribeKeeps, CallTrackKeeps, CallUntrackKeeps
<1>3. CallDisconnect => Goal
  BY <1>0, TeardownKeeps
<1>4. TokenChanges => Goal
  BY <1>0, QuietKeeps
<1>5. TimerFires => Goal
  BY <1>0, TimerFiresKeeps
<1>6. PeerStep => Goal
  BY <1>0, PeerStepKeeps
<1>7. ASSUME NEW s \in Own
      PROVE  /\ ServerConnect(s) => Goal
             /\ ServerReceive(s) => Goal
             /\ ServerGrace(s) => Goal
             /\ ServerClose(s) => Goal
             /\ Discard(s) => Goal
  BY <1>0, ServerConnectKeeps, ServerReceiveKeeps, ServerGraceKeeps, ServerCloseKeeps
<1>8. ASSUME NEW s \in Own
      PROVE  /\ OnOpen(s) => Goal
             /\ OnMessage(s) => Goal
             /\ OnSocketClose(s) => Goal
  BY <1>0, OnOpenKeeps, OnMessageKeeps, TeardownKeeps
<1> HIDE DEF Goal
<1>9. Goal
  BY <1>1, <1>2, <1>3, <1>4, <1>5, <1>6, <1>7, <1>8 DEF NextClient, ServerStep, BrowserStep
<1> QED
  BY <1>9 DEF Goal

\* In every run, with any number of sockets the library opens one after the
\* other, the library has one socket and speaks on it once it is known.
THEOREM SpecLib ==
  ASSUME Prudent
  PROVE  SpecClient => [](ServerInv /\ LibTyped /\ OneSocket /\ SignedIn)
<1>1. InitClient => ServerInv /\ LibTyped /\ OneSocket /\ SignedIn
  BY InitLib
<1>2. ServerInv /\ LibTyped /\ OneSocket /\ SignedIn /\ [NextClient]_allVars =>
        (ServerInv /\ LibTyped /\ OneSocket /\ SignedIn)'
  BY NextServerInv, NextLib
<1> QED
  BY <1>1, <1>2, PTL DEF SpecClient

THEOREM SpecInStep ==
  ASSUME Prudent, "unsubscribe" \notin OfflineCalls
  PROVE  SpecClient => [](ServerInv /\ LibTyped /\ OneSocket /\ SignedIn /\ InStep)
<1>1. InitClient => ServerInv /\ LibTyped /\ OneSocket /\ SignedIn /\ InStep
  BY InitLib
<1>2. ServerInv /\ LibTyped /\ OneSocket /\ SignedIn /\ InStep /\ [NextClient]_allVars =>
        (ServerInv /\ LibTyped /\ OneSocket /\ SignedIn /\ InStep)'
  BY NextServerInv, NextLib
<1> QED
  BY <1>1, <1>2, PTL DEF SpecClient

\* One socket at a time, and nothing but the token on it until the server
\* knows it.
LEMMA LibDisciplined ==
  ASSUME LibTyped, OneSocket, SignedIn
  PROVE  SocketDiscipline
<1>1. SingleSocket
  <2> PICK S : S = {s \in Own : rs[s] # "none"}
    OBVIOUS
  <2>1. S \in SUBSET {cur}
    BY DEF OneSocket
  <2>2. IsFiniteSet({cur}) /\ Cardinality({cur}) = 1
    BY FS_Singleton
  <2>3. Cardinality(S) <= 1
    BY <2>1, <2>2, FS_Subset
  <2> QED
    BY <2>3 DEF SingleSocket
<1>2. ASSUME NEW s \in Own, rs[s] = "open", ~authed[s]
      PROVE  \A i \in DOMAIN up[s] : up[s][i].type = "auth"
  <2>1. s = cur /\ s # NoSocket
    BY <1>2, PeerAssumption DEF OneSocket, Own
  <2>2. OnlyAuth(up[s])
    BY <1>2, <2>1 DEF SignedIn, Served
  <2>3. up[s] \in Seq(Outgoing)
    BY DEF LibTyped
  <2>4. DOMAIN up[s] = 1..Len(up[s])
    BY <2>3, LenProperties
  <2> QED
    BY <2>2, <2>4 DEF OnlyAuth
<1> QED
  BY <1>1, <1>2 DEF SocketDiscipline, SentOnceAuthenticated

\* Where nothing is on its way, the two ends agree.
LEMMA SettledAgrees ==
  ASSUME ServerInv, LibTyped, OneSocket, SignedIn, InStep
  PROVE  EndsAgree
<1>1. TypeOKClient
  <2>1. TypeOK
    BY IInvTypeOK DEF ServerInv
  <2>2. cur # NoSocket => rs[cur] # "none"
    BY DEF LibTyped, OneSocket
  <2>3. \A i \in DOMAIN outbox : outbox[i].type # "subscribe"
    <3> TAKE i \in DOMAIN outbox
    <3>1. outbox[i] \in Waiting
      BY ElementOfSeq, LenProperties DEF LibTyped
    <3> QED
      BY <3>1, WaitingTyped
  <2> QED
    BY <2>1, <2>2, <2>3 DEF TypeOKClient, LibTyped
<1>2. ASSUME Settled
      PROVE  /\ cur \in Socket /\ authedC /\ ws[cur] = "open" /\ up[cur] = <<>>
             /\ DOMAIN subs[cur] = channels \cap active
  <2>1. /\ cur # NoSocket /\ cur \in Own /\ cur \in Socket /\ authedC /\ ws[cur] = "open"
        /\ up[cur] = <<>>
    BY <1>2 DEF Settled, Ready, SignedIn, Served, LibTyped, Own
  <2>2. DOMAIN subs[cur] \subseteq Channel /\ channels \subseteq Channel
    BY <2>1 DEF ServerInv, Booked, Typed, LibTyped
  <2>3. \A ch \in Channel : Agrees(<<>>, DOMAIN subs[cur], channels \cap active, ch)
    BY <2>1 DEF InStep
  <2>4. \A ch : ~Coming(<<>>, "subscribe", ch) /\ ~Coming(<<>>, "unsubscribe", ch)
    BY OneComes
  <2>5. \A ch \in Channel : ch \in DOMAIN subs[cur] <=> ch \in channels \cap active
    BY <2>3, <2>4 DEF Agrees
  <2> QED
    BY <2>1, <2>2, <2>5
<1>3. ActiveIsServed
  BY <1>2 DEF ActiveIsServed
<1>4. RosterShown
  <2> SUFFICES ASSUME Settled, \A s \in Own : wire[s] = <<>>, NEW ch \in channels \cap active
               PROVE  last[ch] = snapshot(presence, ch)
    BY DEF RosterShown
  <2> PICK r : r = snapshot(presence, ch)
    OBVIOUS
  <2>1. /\ cur \in Own /\ cur \in Socket /\ authedC /\ ws[cur] = "open"
        /\ wire[cur] = <<>> /\ Len(wire[cur]) = 0 /\ up[cur] = <<>>
        /\ ch \in Channel /\ ch \in DOMAIN subs[cur]
    BY <1>2 DEF Settled, Ready, LibTyped
  <2>2. Sound(cur)
    BY <2>1, PeerAssumption DEF ServerInv, Own
  <2>3. Shows(wire[cur], seen[cur][ch].roster, ch, r)
    BY <2>1, <2>2 DEF Sound
  <2>4. seen[cur][ch].roster = r
    BY <2>1, <2>3 DEF Shows
  <2>5. Shown(ch)
    BY <2>1 DEF InStep
  <2>6. last[ch] = seen[cur][ch].roster
    <3>1. ~Coming(<<>>, "subscribe", ch)
      BY OneComes
    <3>2. ~Coming(up[cur], "subscribe", ch)
      BY <2>1, <3>1
    <3>3. ~\E i \in 1..Len(wire[cur]) : IsRoster(wire[cur][i], ch)
      BY <2>1
    <3> QED
      BY <2>5, <3>2, <3>3 DEF Shown
  <2> QED
    BY <2>4, <2>6
<1> QED
  BY <1>1, <1>3, <1>4 DEF EndsAgree

\* realtime.ts, "A single shared socket" and send(): in every run the library
\* holds one socket and sends nothing but its token before it is known, however
\* connections are lost and whatever the application calls.
THEOREM SocketAlwaysDisciplined ==
  ASSUME Prudent
  PROVE  SpecClient => []SocketDiscipline
<1>1. LibTyped /\ OneSocket /\ SignedIn => SocketDiscipline
  BY LibDisciplined
<1> QED
  BY <1>1, SpecLib, PTL

\* flushAfterAuth() and _emitPresence(): once everything sent has been handled,
\* the server serves exactly the active channels, and their rosters are shown.
THEOREM EndsAlwaysAgree ==
  ASSUME Prudent, "unsubscribe" \notin OfflineCalls
  PROVE  SpecClient => []EndsAgree
<1>1. ServerInv /\ LibTyped /\ OneSocket /\ SignedIn /\ InStep => EndsAgree
  BY SettledAgrees
<1> QED
  BY <1>1, SpecInStep, PTL

=============================================================================
