--------------------------- MODULE WebhooksProofs ---------------------------
(***************************************************************************)
(* Proofs about the two halves of the webhooks worker, which share no      *)
(* state: NetBridge, the pg_net bridge, for every set of requests and      *)
(* passes; and Dispatcher with the LISTEN source it extends, for every     *)
(* number of clients, changes, endpoints, activations and attempts; both   *)
(* for every number of faults.                                             *)
(***************************************************************************)
EXTENDS NetBridge, Dispatcher, FiniteSetTheorems, TLAPS

(***************************************************************************)
(* The pg_net bridge: type correctness, mutual exclusion of drain()        *)
(* passes, what the queue promises, and the refinement of NetQueue.        *)
(***************************************************************************)
USE RequestsAssumption, NoRequestAssumption, PassAssumption,
    CopiesAssumption, MaxFaultsAssumption

-----------------------------------------------------------------------------
(***************************************************************************)
(* The inductive invariant: the flag draining is exactly "some pass is     *)
(* active", what a pass still means to do is still queued, and a call is   *)
(* accounted for by the round in progress or by an interrupted one.        *)
(***************************************************************************)
DrainingExact ==
  /\ OnePass
  /\ draining <=> \E p \in Pass : pc[p] # "off"

WorkQueued ==
  \A p \in Pass :
    /\ pc[p] \in {"off", "loading"} => batch[p] = {}
    /\ batch[p] \subseteq queue
    /\ pc[p] \in InHand => /\ cur[p] \in queue
                           /\ cur[p] \notin batch[p]
                           /\ calls[cur[p]] > 0

Accounted ==
  /\ NoNeedlessRepeat
  /\ \A r \in queue : (\A p \in Pass : cur[p] # r) => calls[r] <= interrupted[r]

OutcomeInHand ==
  /\ OutcomeKept
  /\ \A p \in Pass :
       /\ pc[p] = "inserting" => result[p] \in Outcomes
       /\ pc[p] = "deleting" => response[cur[p]] # NoResponse \/ cur[p] \in unrecorded

BridgeInv == TypeOKBridge /\ DrainingExact /\ WorkQueued /\ Accounted /\ OutcomeInHand

-----------------------------------------------------------------------------
\* What drain()'s synchronous part does to the pass variables.
LEMMA DrainEffect ==
  ASSUME TypeOKBridge, DrainingExact, Drain
  PROVE  /\ pc' \in [Pass -> PassStates]
         /\ UNCHANGED <<batch, cur, result>>
         /\ draining' = TRUE /\ drainAgain' \in BOOLEAN
         /\ \A p \in Pass : pc'[p] # pc[p] => pc[p] = "off" /\ pc'[p] = "loading"
         /\ DrainingExact'
<1>1. CASE draining /\ UNCHANGED <<draining, pc, batch, cur, result>> /\ drainAgain' = TRUE
  BY <1>1 DEF TypeOKBridge, DrainingExact, OnePass
<1>2. CASE /\ ~draining /\ draining' = TRUE
           /\ \E p \in Pass : pc[p] = "off" /\ pc' = [pc EXCEPT ![p] = "loading"]
           /\ UNCHANGED <<drainAgain, batch, cur, result>>
  <2>1. PICK p \in Pass : pc[p] = "off" /\ pc' = [pc EXCEPT ![p] = "loading"]
    BY <1>2
  <2>2. pc' \in [Pass -> PassStates]
    BY <2>1 DEF TypeOKBridge, PassStates
  <2>3. \A q \in Pass : pc[q] = "off"
    BY <1>2 DEF DrainingExact
  <2>4. \A q \in Pass : pc'[q] = IF q = p THEN "loading" ELSE "off"
    BY <2>1, <2>3 DEF TypeOKBridge
  <2>5. DrainingExact'
    BY <1>2, <2>4 DEF DrainingExact, OnePass
  <2> QED
    BY <1>2, <2>2, <2>3, <2>4, <2>5 DEF TypeOKBridge
<1> QED
  BY <1>1, <1>2 DEF Drain

\* What leaving a pass does to the flags.
LEMMA LeavePassEffect ==
  ASSUME TypeOKBridge, DrainingExact, NEW p \in Pass, pc[p] # "off", LeavePass(p)
  PROVE  /\ pc' \in [Pass -> PassStates]
         /\ draining' \in BOOLEAN /\ drainAgain' \in BOOLEAN
         /\ pc'[p] \in {"off", "loading"}
         /\ \A q \in Pass : q # p => pc'[q] = pc[q]
         /\ DrainingExact'
<1>1. \A q \in Pass : q # p => pc[q] = "off"
  BY DEF DrainingExact, OnePass
<1>2. \A q \in Pass : pc'[q] = IF q = p THEN (IF drainAgain THEN "loading" ELSE "off")
                                        ELSE "off"
  BY <1>1 DEF LeavePass, TypeOKBridge
<1>3. pc' \in [Pass -> PassStates]
  BY DEF LeavePass, TypeOKBridge, PassStates
<1>4. DrainingExact'
  BY <1>2 DEF LeavePass, TypeOKBridge, DrainingExact, OnePass
<1> QED
  BY <1>1, <1>2, <1>3, <1>4 DEF LeavePass, TypeOKBridge

\* Counting one entry of a per-request counter up keeps its type.
LEMMA CountUpRequest ==
  ASSUME NEW f \in [Requests -> Nat], NEW r \in Requests
  PROVE  [f EXCEPT ![r] = f[r] + 1] \in [Requests -> Nat]
OBVIOUS

\* A fault uses up one of the allowed ones.
LEMMA FaultType ==
  ASSUME TypeOKBridge, NEW k \in FaultKinds, BridgeFault(k)
  PROVE  bridgeFaults' \in [FaultKinds -> Nat]
BY DEF BridgeFault, TypeOKBridge

-----------------------------------------------------------------------------
\* The initial state satisfies the invariant.
LEMMA InitBridgeInv == InitBridge => BridgeInv
<1> SUFFICES ASSUME InitBridge PROVE BridgeInv
  OBVIOUS
<1> USE DEF InitBridge
<1>1. TypeOKBridge
  BY DEF TypeOKBridge, PassStates, InHand, Outcomes, NoResponse
<1>2. DrainingExact
  BY DEF DrainingExact, OnePass
<1>3. WorkQueued
  BY DEF WorkQueued, InHand
<1>4. Accounted
  BY DEF Accounted, NoNeedlessRepeat
<1>5. OutcomeInHand
  BY DEF OutcomeInHand, OutcomeKept
<1> QED
  BY <1>1, <1>2, <1>3, <1>4, <1>5 DEF BridgeInv

\* A step that leaves the tables, the passes and the history alone preserves
\* all of BridgeInv but its types.
LEMMA LeftAlone ==
  ASSUME BridgeInv, TypeOKBridge', UNCHANGED dbVars, UNCHANGED histVars,
         UNCHANGED <<draining, pc, batch, cur, result>>
  PROVE  BridgeInv'
BY DEF BridgeInv, DrainingExact, OnePass, WorkQueued, Accounted, NoNeedlessRepeat,
       OutcomeInHand, OutcomeKept, dbVars, histVars

\* Every step preserves the invariant.
LEMMA NextBridgeInv == BridgeInv /\ [NextBridge]_bridgeVars => BridgeInv'
<1> SUFFICES ASSUME BridgeInv, [NextBridge]_bridgeVars PROVE BridgeInv'
  OBVIOUS
<1> USE DEF BridgeInv, InHand, dbVars, linkVars, drainVars, histVars
<1>1. ASSUME NEW r \in Requests, Post(r) PROVE BridgeInv'
  <2>1. TypeOKBridge'
    BY <1>1 DEF TypeOKBridge, PassStates, Outcomes, NoResponse, Post
  <2>2. DrainingExact'
    BY <1>1 DEF TypeOKBridge, DrainingExact, OnePass, Post
  <2>3. WorkQueued'
    BY <1>1 DEF TypeOKBridge, WorkQueued, Post
  <2>4. Accounted'
    BY <1>1 DEF TypeOKBridge, WorkQueued, Accounted, NoNeedlessRepeat, Post
  <2>5. OutcomeInHand'
    BY <1>1 DEF TypeOKBridge, WorkQueued, OutcomeInHand, OutcomeKept, Outcomes, NoResponse, Post
  <2> QED
    BY <2>1, <2>2, <2>3, <2>4, <2>5
<1>2. ASSUME Boot PROVE BridgeInv'
  <2>1. TypeOKBridge'
    BY <1>2 DEF TypeOKBridge, PassStates, Outcomes, NoResponse, Boot
  <2> QED
    BY <1>2, <2>1, LeftAlone DEF Boot
<1>3. ASSUME StartListening PROVE BridgeInv'
  <2>f. bridgeFaults' \in [FaultKinds -> Nat]
    BY <1>3, FaultType DEF StartListening, FaultKinds, TypeOKBridge
  <2>1. TypeOKBridge'
    BY <2>f, <1>3 DEF TypeOKBridge, PassStates, Outcomes, NoResponse, StartListening
  <2> QED
    BY <1>3, <2>1, LeftAlone DEF StartListening
<1>4. ASSUME StartupDrain PROVE BridgeInv'
  <2>0. /\ pc' \in [Pass -> PassStates]
        /\ UNCHANGED <<batch, cur, result>>
        /\ draining' = TRUE /\ drainAgain' \in BOOLEAN
        /\ \A p \in Pass : pc'[p] # pc[p] => pc[p] = "off" /\ pc'[p] = "loading"
        /\ DrainingExact'
    BY <1>4, DrainEffect DEF StartupDrain
  <2>1. TypeOKBridge'
    BY <1>4, <2>0 DEF TypeOKBridge, StartupDrain
  <2>3. WorkQueued'
    BY <1>4, <2>0 DEF TypeOKBridge, WorkQueued, StartupDrain
  <2>4. Accounted'
    BY <1>4, <2>0 DEF TypeOKBridge, WorkQueued, Accounted, NoNeedlessRepeat, StartupDrain
  <2>5. OutcomeInHand'
    BY <1>4, <2>0 DEF TypeOKBridge, WorkQueued, OutcomeInHand, OutcomeKept, Outcomes, NoResponse, StartupDrain
  <2> QED
    BY <2>0, <2>1, <2>3, <2>4, <2>5
<1>5. ASSUME OnNotify PROVE BridgeInv'
  <2>0. /\ pc' \in [Pass -> PassStates]
        /\ UNCHANGED <<batch, cur, result>>
        /\ draining' = TRUE /\ drainAgain' \in BOOLEAN
        /\ \A p \in Pass : pc'[p] # pc[p] => pc[p] = "off" /\ pc'[p] = "loading"
        /\ DrainingExact'
    BY <1>5, DrainEffect DEF OnNotify
  <2>1. TypeOKBridge'
    BY <1>5, <2>0 DEF TypeOKBridge, OnNotify
  <2>3. WorkQueued'
    BY <1>5, <2>0 DEF TypeOKBridge, WorkQueued, OnNotify
  <2>4. Accounted'
    BY <1>5, <2>0 DEF TypeOKBridge, WorkQueued, Accounted, NoNeedlessRepeat, OnNotify
  <2>5. OutcomeInHand'
    BY <1>5, <2>0 DEF TypeOKBridge, WorkQueued, OutcomeInHand, OutcomeKept, Outcomes, NoResponse, OnNotify
  <2> QED
    BY <2>0, <2>1, <2>3, <2>4, <2>5
<1>6. ASSUME LoseListener PROVE BridgeInv'
  <2>f. bridgeFaults' \in [FaultKinds -> Nat]
    BY <1>6, FaultType DEF LoseListener, FaultKinds
  <2>1. TypeOKBridge'
    <3>1. notes' \in Nat
      BY <1>6 DEF TypeOKBridge, LoseListener
    <3> QED
      BY <1>6, <2>f, <3>1 DEF TypeOKBridge, LoseListener, dbVars, drainVars, histVars
  <2> QED
    BY <1>6, <2>1, LeftAlone DEF LoseListener
<1>7. ASSUME Reconnect PROVE BridgeInv'
  <2>1. TypeOKBridge'
    BY <1>7 DEF TypeOKBridge, PassStates, Outcomes, NoResponse, Reconnect
  <2> QED
    BY <1>7, <2>1, LeftAlone DEF Reconnect
<1>8. ASSUME CrashBridge PROVE BridgeInv'
  <2>f. bridgeFaults' \in [FaultKinds -> Nat]
    BY <1>8, FaultType DEF CrashBridge, FaultKinds
  <2>1. TypeOKBridge'
    <3>1. interrupted' \in [Requests -> Nat]
      BY <1>8 DEF TypeOKBridge, CrashBridge
    <3>2. /\ pc' \in [Pass -> PassStates] /\ batch' \in [Pass -> SUBSET Requests]
          /\ cur' \in [Pass -> Requests \cup {NoRequest}]
          /\ result' \in [Pass -> Outcomes \cup {NoResponse}]
          /\ \A q \in Pass : pc'[q] \in InHand <=> cur'[q] # NoRequest
      BY <1>8 DEF CrashBridge, PassStates
    <3> QED
      BY <1>8, <2>f, <3>1, <3>2 DEF TypeOKBridge, CrashBridge, dbVars
  <2>2. DrainingExact'
    BY <1>8 DEF TypeOKBridge, DrainingExact, OnePass, CrashBridge
  <2>3. WorkQueued'
    BY <1>8 DEF TypeOKBridge, WorkQueued, CrashBridge
  <2>4. Accounted'
    BY <1>8 DEF TypeOKBridge, WorkQueued, Accounted, NoNeedlessRepeat, CrashBridge
  <2>5. OutcomeInHand'
    BY <1>8 DEF TypeOKBridge, WorkQueued, OutcomeInHand, OutcomeKept, Outcomes, NoResponse, CrashBridge
  <2> QED
    BY <2>1, <2>2, <2>3, <2>4, <2>5
<1>9. ASSUME NEW p \in Pass, LoadPending(p) PROVE BridgeInv'
  <2>1. TypeOKBridge'
    BY <1>9 DEF TypeOKBridge, PassStates, Outcomes, NoResponse, LoadPending
  <2>2. DrainingExact'
    BY <1>9 DEF TypeOKBridge, DrainingExact, OnePass, LoadPending
  <2>3. WorkQueued'
    BY <1>9 DEF TypeOKBridge, WorkQueued, LoadPending
  <2>4. Accounted'
    BY <1>9 DEF TypeOKBridge, WorkQueued, Accounted, NoNeedlessRepeat, LoadPending
  <2>5. OutcomeInHand'
    BY <1>9 DEF TypeOKBridge, WorkQueued, OutcomeInHand, OutcomeKept, Outcomes, NoResponse, LoadPending
  <2> QED
    BY <2>1, <2>2, <2>3, <2>4, <2>5
<1>10. ASSUME NEW p \in Pass, LoadPendingFails(p) PROVE BridgeInv'
  <2>0. /\ pc' \in [Pass -> PassStates]
        /\ draining' \in BOOLEAN /\ drainAgain' \in BOOLEAN
        /\ pc'[p] \in {"off", "loading"}
        /\ \A q \in Pass : q # p => pc'[q] = pc[q]
        /\ DrainingExact'
    BY <1>10, LeavePassEffect DEF LoadPendingFails
  <2>f. bridgeFaults' \in [FaultKinds -> Nat]
    BY <1>10, FaultType DEF LoadPendingFails, FaultKinds
  <2>1. TypeOKBridge'
    BY <2>f, <1>10, <2>0 DEF TypeOKBridge, PassStates, Outcomes, NoResponse, LoadPendingFails
  <2>3. WorkQueued'
    BY <1>10, <2>0 DEF TypeOKBridge, WorkQueued, LoadPendingFails
  <2>4. Accounted'
    BY <1>10, <2>0 DEF TypeOKBridge, WorkQueued, Accounted, NoNeedlessRepeat, LoadPendingFails
  <2>5. OutcomeInHand'
    BY <1>10, <2>0 DEF TypeOKBridge, WorkQueued, OutcomeInHand, OutcomeKept, Outcomes, NoResponse, LoadPendingFails
  <2> QED
    BY <2>0, <2>1, <2>3, <2>4, <2>5
<1>11. ASSUME NEW p \in Pass, Fetch(p) PROVE BridgeInv'
  <2>1. TypeOKBridge'
    BY <1>11 DEF TypeOKBridge, PassStates, Outcomes, NoResponse, Fetch
  <2>2. DrainingExact'
    BY <1>11 DEF TypeOKBridge, DrainingExact, OnePass, Fetch
  <2>3. WorkQueued'
    BY <1>11 DEF TypeOKBridge, WorkQueued, Fetch
  <2>4. Accounted'
    <3>1. PICK r \in batch[p] : /\ cur' = [cur EXCEPT ![p] = r]
                               /\ calls' = [calls EXCEPT ![r] = @ + 1]
      BY <1>11 DEF Fetch
    <3>2. \A q \in Pass : cur[q] = NoRequest
      BY <1>11 DEF Fetch, DrainingExact, OnePass, TypeOKBridge
    <3>3. r \in queue /\ r \in Requests /\ calls[r] <= interrupted[r]
      BY <3>2 DEF WorkQueued, Accounted, TypeOKBridge
    <3>4. UNCHANGED <<queue, interrupted>>
      BY <1>11 DEF Fetch, dbVars
    <3>5. NoNeedlessRepeat'
      BY <3>1, <3>3, <3>4 DEF Accounted, NoNeedlessRepeat, TypeOKBridge
    <3>6. \A s \in Requests : s # r => calls'[s] = calls[s]
      BY <3>1 DEF TypeOKBridge
    <3>7. cur'[p] = r
      BY <3>1 DEF TypeOKBridge
    <3> QED
      BY <3>2, <3>4, <3>5, <3>6, <3>7 DEF Accounted, TypeOKBridge
  <2>5. OutcomeInHand'
    BY <1>11 DEF TypeOKBridge, WorkQueued, OutcomeInHand, OutcomeKept, Outcomes, NoResponse, Fetch
  <2> QED
    BY <2>1, <2>2, <2>3, <2>4, <2>5
<1>12. ASSUME NEW p \in Pass, Settle(p) PROVE BridgeInv'
  <2>1. TypeOKBridge'
    BY <1>12 DEF TypeOKBridge, PassStates, Outcomes, NoResponse, Settle
  <2>2. DrainingExact'
    BY <1>12 DEF TypeOKBridge, DrainingExact, OnePass, Settle
  <2>3. WorkQueued'
    BY <1>12 DEF TypeOKBridge, WorkQueued, Settle
  <2>4. Accounted'
    BY <1>12 DEF TypeOKBridge, WorkQueued, Accounted, NoNeedlessRepeat, Settle
  <2>5. OutcomeInHand'
    BY <1>12 DEF TypeOKBridge, WorkQueued, OutcomeInHand, OutcomeKept, Outcomes, NoResponse, Settle
  <2> QED
    BY <2>1, <2>2, <2>3, <2>4, <2>5
<1>13. ASSUME NEW p \in Pass, Insert(p) PROVE BridgeInv'
  <2>1. TypeOKBridge'
    BY <1>13 DEF TypeOKBridge, PassStates, Outcomes, NoResponse, Insert
  <2>2. DrainingExact'
    BY <1>13 DEF TypeOKBridge, DrainingExact, OnePass, Insert
  <2>3. WorkQueued'
    BY <1>13 DEF TypeOKBridge, WorkQueued, Insert
  <2>4. Accounted'
    BY <1>13 DEF TypeOKBridge, WorkQueued, Accounted, NoNeedlessRepeat, Insert
  <2>5. OutcomeInHand'
    BY <1>13 DEF TypeOKBridge, WorkQueued, OutcomeInHand, OutcomeKept, Outcomes, NoResponse, Insert
  <2> QED
    BY <2>1, <2>2, <2>3, <2>4, <2>5
<1>14. ASSUME NEW p \in Pass, InsertFails(p) PROVE BridgeInv'
  <2>f. bridgeFaults' \in [FaultKinds -> Nat]
    BY <1>14, FaultType DEF InsertFails, FaultKinds
  <2>1. TypeOKBridge'
    BY <2>f, <1>14 DEF TypeOKBridge, PassStates, Outcomes, NoResponse, InsertFails
  <2>2. DrainingExact'
    BY <1>14 DEF TypeOKBridge, DrainingExact, OnePass, InsertFails
  <2>3. WorkQueued'
    BY <1>14 DEF TypeOKBridge, WorkQueued, InsertFails
  <2>4. Accounted'
    BY <1>14 DEF TypeOKBridge, WorkQueued, Accounted, NoNeedlessRepeat, InsertFails
  <2>5. OutcomeInHand'
    BY <1>14 DEF TypeOKBridge, WorkQueued, OutcomeInHand, OutcomeKept, Outcomes, NoResponse, InsertFails
  <2> QED
    BY <2>1, <2>2, <2>3, <2>4, <2>5
<1>15. ASSUME NEW p \in Pass, Delete(p) PROVE BridgeInv'
  <2>1. TypeOKBridge'
    BY <1>15 DEF TypeOKBridge, PassStates, Outcomes, NoResponse, Delete
  <2>2. DrainingExact'
    BY <1>15 DEF TypeOKBridge, DrainingExact, OnePass, Delete
  <2>3. WorkQueued'
    BY <1>15 DEF TypeOKBridge, DrainingExact, OnePass, WorkQueued, Delete
  <2>4. Accounted'
    BY <1>15 DEF TypeOKBridge, WorkQueued, Accounted, NoNeedlessRepeat, Delete
  <2>5. OutcomeInHand'
    BY <1>15 DEF TypeOKBridge, WorkQueued, OutcomeInHand, OutcomeKept, Outcomes, NoResponse, Delete
  <2> QED
    BY <2>1, <2>2, <2>3, <2>4, <2>5
<1>16. ASSUME NEW p \in Pass, DeleteFails(p) PROVE BridgeInv'
  <2>f. bridgeFaults' \in [FaultKinds -> Nat]
    BY <1>16, FaultType DEF DeleteFails, FaultKinds
  <2>1. TypeOKBridge'
    <3>1. cur[p] \in Requests
      BY <1>16 DEF TypeOKBridge, DeleteFails
    <3>2. interrupted' \in [Requests -> Nat]
      <4>1. interrupted \in [Requests -> Nat]
        BY DEF TypeOKBridge
      <4>2. interrupted' = [interrupted EXCEPT ![cur[p]] = interrupted[cur[p]] + 1]
        BY <1>16 DEF DeleteFails
      <4> QED
        BY <3>1, <4>1, <4>2, CountUpRequest
    <3>3. /\ cur' \in [Pass -> Requests \cup {NoRequest}]
          /\ \A q \in Pass : pc'[q] \in InHand <=> cur'[q] # NoRequest
      BY <1>16 DEF TypeOKBridge, PassStates, DeleteFails
    <3> QED
      BY <1>16, <2>f, <3>2, <3>3 DEF TypeOKBridge, PassStates, DeleteFails, dbVars, linkVars
  <2>2. DrainingExact'
    BY <1>16 DEF TypeOKBridge, DrainingExact, OnePass, DeleteFails
  <2>3. WorkQueued'
    BY <1>16 DEF TypeOKBridge, WorkQueued, DeleteFails
  <2>4. Accounted'
    BY <1>16 DEF TypeOKBridge, WorkQueued, Accounted, NoNeedlessRepeat, DeleteFails
  <2>5. OutcomeInHand'
    BY <1>16 DEF TypeOKBridge, WorkQueued, OutcomeInHand, OutcomeKept, Outcomes, NoResponse, DeleteFails
  <2> QED
    BY <2>1, <2>2, <2>3, <2>4, <2>5
<1>17. ASSUME NEW p \in Pass, Finish(p) PROVE BridgeInv'
  <2>0. /\ pc' \in [Pass -> PassStates]
        /\ draining' \in BOOLEAN /\ drainAgain' \in BOOLEAN
        /\ pc'[p] \in {"off", "loading"}
        /\ \A q \in Pass : q # p => pc'[q] = pc[q]
        /\ DrainingExact'
    BY <1>17, LeavePassEffect DEF Finish
  <2>1. TypeOKBridge'
    BY <1>17, <2>0 DEF TypeOKBridge, PassStates, Outcomes, NoResponse, Finish
  <2>3. WorkQueued'
    BY <1>17, <2>0 DEF TypeOKBridge, WorkQueued, Finish
  <2>4. Accounted'
    BY <1>17, <2>0 DEF TypeOKBridge, WorkQueued, Accounted, NoNeedlessRepeat, Finish
  <2>5. OutcomeInHand'
    BY <1>17, <2>0 DEF TypeOKBridge, WorkQueued, OutcomeInHand, OutcomeKept, Outcomes, NoResponse, Finish
  <2> QED
    BY <2>0, <2>1, <2>3, <2>4, <2>5
<1>18. CASE UNCHANGED bridgeVars
  BY <1>18 DEF bridgeVars, TypeOKBridge, DrainingExact, OnePass, WorkQueued, Accounted,
    NoNeedlessRepeat, OutcomeInHand, OutcomeKept
<1> QED
  BY <1>1, <1>2, <1>3, <1>4, <1>5, <1>6, <1>7, <1>8, <1>9, <1>10, <1>11, <1>12, <1>13, <1>14, <1>15, <1>16, <1>17, <1>18 DEF NextBridge, LifeCycle, PassStep

\* BridgeInv holds in every reachable state.
LEMMA BridgeInvariance == SpecBridge => []BridgeInv
<1>1. InitBridge => BridgeInv
  BY InitBridgeInv
<1>2. BridgeInv /\ [NextBridge]_bridgeVars => BridgeInv'
  BY NextBridgeInv
<1> QED
  BY <1>1, <1>2, PTL DEF SpecBridge

-----------------------------------------------------------------------------
\* The variables of netBridge.ts, the two tables and the connection always
\* have their types, and a pass holds a request exactly between its call and
\* its DELETE.
THEOREM BridgeTypeCorrect == SpecBridge => []TypeOKBridge
<1>1. BridgeInv => TypeOKBridge
  BY DEF BridgeInv
<1> QED
  BY <1>1, BridgeInvariance, PTL

\* The flags draining and drainAgain keep drain() from ever running twice at
\* the same time, whoever calls it and whatever fails.
THEOREM OnePassAlways == SpecBridge => []OnePass
<1>1. BridgeInv => OnePass
  BY DEF BridgeInv, DrainingExact
<1> QED
  BY <1>1, BridgeInvariance, PTL

\* A request is performed once, plus once for each of its rounds that a crash
\* or a failed DELETE cut short.
THEOREM NoNeedlessRepeatAlways == SpecBridge => []NoNeedlessRepeat
<1>1. BridgeInv => NoNeedlessRepeat
  BY DEF BridgeInv, Accounted
<1> QED
  BY <1>1, BridgeInvariance, PTL

\* A request that has left the queue has its outcome recorded, unless the
\* INSERT of that outcome failed.
THEOREM OutcomeKeptAlways == SpecBridge => []OutcomeKept
<1>1. BridgeInv => OutcomeKept
  BY DEF BridgeInv, OutcomeInHand
<1> QED
  BY <1>1, BridgeInvariance, PTL

-----------------------------------------------------------------------------
\* Every step of the bridge is a step of the queue it implements, or leaves
\* the queue's tables and the outside world alone.
LEMMA BridgeStepRefines == BridgeInv /\ [NextBridge]_bridgeVars => [NQ!Next]_NQ!vars
<1> SUFFICES ASSUME BridgeInv, [NextBridge]_bridgeVars PROVE [NQ!Next]_NQ!vars
  OBVIOUS
<1> USE DEF NQ!Next, NQ!vars
<1>1. ASSUME NEW r \in Requests, Post(r) PROVE NQ!Post(r)
  BY <1>1 DEF Post, NQ!Post, histVars
<1>2. ASSUME LifeCycle PROVE UNCHANGED NQ!vars
  BY <1>2 DEF LifeCycle, Boot, StartListening, StartupDrain, OnNotify,
              LoseListener, Reconnect, CrashBridge, dbVars, histVars
<1>3. ASSUME NEW p \in Pass, Fetch(p) PROVE \E r \in Requests : NQ!Perform(r)
  <2>1. PICK r \in batch[p] : calls' = [calls EXCEPT ![r] = @ + 1]
    BY <1>3 DEF Fetch
  <2>2. r \in queue /\ r \in Requests
    BY DEF BridgeInv, WorkQueued, TypeOKBridge
  <2> QED
    BY <1>3, <2>1, <2>2 DEF Fetch, NQ!Perform, dbVars
<1>4. ASSUME NEW p \in Pass, Insert(p)
      PROVE  \E r \in Requests : \E o \in Outcomes : NQ!Record(r, o)
  <2>1. cur[p] \in queue /\ cur[p] \in Requests /\ calls[cur[p]] > 0
    BY <1>4 DEF Insert, BridgeInv, WorkQueued, InHand, TypeOKBridge
  <2>2. result[p] \in Outcomes
    BY <1>4 DEF Insert, BridgeInv, OutcomeInHand
  <2>3. NQ!Record(cur[p], result[p])
    BY <1>4, <2>1 DEF Insert, NQ!Record, histVars
  <2> QED
    BY <2>1, <2>2, <2>3
<1>5. ASSUME NEW p \in Pass, Delete(p) PROVE \E r \in Requests : NQ!Retire(r)
  <2>1. cur[p] \in queue /\ cur[p] \in Requests /\ calls[cur[p]] > 0
    BY <1>5 DEF Delete, BridgeInv, WorkQueued, InHand, TypeOKBridge
  <2> QED
    BY <1>5, <2>1 DEF Delete, NQ!Retire, histVars
<1>6. ASSUME NEW p \in Pass,
             LoadPending(p) \/ LoadPendingFails(p) \/ Settle(p) \/ InsertFails(p)
               \/ DeleteFails(p) \/ Finish(p)
      PROVE  UNCHANGED NQ!vars
  BY <1>6 DEF LoadPending, LoadPendingFails, Settle, InsertFails, DeleteFails, Finish,
              dbVars, histVars
<1>7. CASE UNCHANGED bridgeVars
  BY <1>7 DEF bridgeVars
<1> QED
  BY <1>1, <1>2, <1>3, <1>4, <1>5, <1>6, <1>7 DEF NextBridge, PassStep

\* The bridge implements NetQueue: a call is only ever made for a request
\* whose row is still queued, and a row goes away only after its call.
THEOREM BridgeRefinement == SpecBridge => ImplementsNetQueue
<1>1. InitBridge => NQ!Init
  BY DEF InitBridge, NQ!Init
<1>2. BridgeInv /\ [NextBridge]_bridgeVars => [NQ!Next]_NQ!vars
  BY BridgeStepRefines
<1> QED
  BY <1>1, <1>2, BridgeInvariance, PTL DEF SpecBridge, ImplementsNetQueue, NQ!Spec

-----------------------------------------------------------------------------
(***************************************************************************)
(* The LISTEN source, alone and under the dispatcher: it is never left     *)
(* without a timer or a client, and what /health says of it is true, also  *)
(* through crashes of the worker.                                          *)
(***************************************************************************)
USE ClientsAssumption, ErrorEventsAssumption, BackoffAssumption,
    MaxFailuresAssumption

-----------------------------------------------------------------------------
(***************************************************************************)
(* The inductive invariant of the listener.  Clients may be infinite, so   *)
(* that finitely many of them are open is part of it; and nothing happens  *)
(* before start(), which makes the first connect() the start of a chain.   *)
(***************************************************************************)
Unstarted == ~started => ~stopped /\ timers = 0 /\ surplus = 0 /\ Open = {}

ListenerInv == ListenerSound /\ IsFiniteSet(Open) /\ Unstarted

\* The back-off stays between its bounds, however often it is doubled.
LEMMA BackoffBounds ==
  ASSUME backoffMs \in MinBackoff..MaxBackoff, NEW k \in 1..3
  PROVE  Backoff(k) \in MinBackoff..MaxBackoff
<1>1. \A ms \in MinBackoff..MaxBackoff : Doubled(ms) \in MinBackoff..MaxBackoff
  BY DEF Doubled
<1>2. Doubled(backoffMs) \in MinBackoff..MaxBackoff
  BY <1>1
<1>3. Doubled(Doubled(backoffMs)) \in MinBackoff..MaxBackoff
  BY <1>1, <1>2
<1>4. Doubled(Doubled(Doubled(backoffMs))) \in MinBackoff..MaxBackoff
  BY <1>1, <1>3
<1>5. k = 1 \/ k = 2 \/ k = 3
  OBVIOUS
<1> QED
  BY <1>2, <1>3, <1>4, <1>5 DEF Backoff

\* connect() opens one client more.
LEMMA ConnectOpens ==
  ASSUME TypeOK, IsFiniteSet(Open), Connect
  PROVE  /\ state' \in [Clients -> States]
         /\ client' \in Clients /\ state'[client'] # "unused"
         /\ IsFiniteSet(Open)' /\ Cardinality(Open)' = Cardinality(Open) + 1
         /\ Live' = Live
<1>1. PICK c \in Clients : /\ state[c] = "unused"
                           /\ state' = [state EXCEPT ![c] = "connecting"]
                           /\ client' = c
  BY DEF Connect
<1>2. Open' = Open \cup {c} /\ c \notin Open
  BY <1>1 DEF Open, TypeOK
<1>3. Live' = Live
  BY <1>1 DEF Live, TypeOK
<1>4. state' \in [Clients -> States] /\ state'[client'] # "unused"
  BY <1>1 DEF TypeOK, States
<1> QED
  BY <1>1, <1>2, <1>3, <1>4, FS_AddElement

\* A failure closes one open client and schedules k reconnects for it.
LEMMA FailureKeepsChains ==
  ASSUME ListenerInv, NEW c \in Open, Fails(c), healthy' = FALSE,
         NEW k \in 1..3, ScheduleReconnect(k)
  PROVE  ListenerInv'
<1> USE DEF ListenerInv, ListenerSound, Fails
<1>1. c \in Clients /\ state' = [state EXCEPT ![c] = "closed"]
  BY DEF Open
<1>2. Open' = Open \ {c}
  BY <1>1 DEF Open, TypeOK
<1>3. IsFiniteSet(Open') /\ Cardinality(Open') = Cardinality(Open) - 1
  BY <1>2, FS_RemoveElement
<1>4. started
  BY DEF Unstarted
<1>5. TypeOK'
  <2>1. state' \in [Clients -> States] /\ (client # NoClient => state'[client] # "unused")
    BY <1>1 DEF TypeOK, States
  <2>2. backoffMs' \in MinBackoff..MaxBackoff
    BY BackoffBounds DEF ScheduleReconnect, TypeOK
  <2>3. timers' \in Nat /\ surplus' \in Nat
    BY DEF ScheduleReconnect, TypeOK
  <2>4. failures' \in Nat /\ client' = client /\ client \in Clients \cup {NoClient}
    BY DEF TypeOK
  <2>5. healthy' \in BOOLEAN /\ stopped' \in BOOLEAN /\ started' \in BOOLEAN
    BY DEF TypeOK
  <2> QED
    BY <2>1, <2>2, <2>3, <2>4, <2>5 DEF TypeOK
<1>6. ChainsConserved'
  <2>1. Cardinality(Open) \in Nat
    BY FS_CardinalityType
  <2> QED
    BY <1>3, <1>4, <2>1 DEF ScheduleReconnect, ChainsConserved, TypeOK
<1> QED
  BY <1>3, <1>4, <1>5, <1>6 DEF HealthyMeansLive, Unstarted

-----------------------------------------------------------------------------
\* Before start() there is no client and no timer.
LEMMA InitListenerInv == Init => ListenerInv
<1> SUFFICES ASSUME Init PROVE ListenerInv
  OBVIOUS
<1> USE DEF Init
<1>1. TypeOK
  <2>1. state \in [Clients -> States]
    BY DEF States
  <2>2. backoffMs \in MinBackoff..MaxBackoff
    OBVIOUS
  <2> QED
    BY <2>1, <2>2 DEF TypeOK
<1>2. Open = {}
  BY DEF Open
<1> QED
  BY <1>1, <1>2, FS_EmptySet
     DEF ListenerInv, ListenerSound, ChainsConserved, HealthyMeansLive, Unstarted

\* Every step of the listener preserves its invariant.
LEMMA NextListenerInv == ListenerInv /\ [Next]_vars => ListenerInv'
<1> SUFFICES ASSUME ListenerInv, [Next]_vars PROVE ListenerInv'
  OBVIOUS
<1> USE DEF ListenerInv, ListenerSound
<1>0. Cardinality(Open) \in Nat
  BY FS_CardinalityType
<1>1. CASE Start
  <2>1. ~stopped /\ Connect
    BY <1>1 DEF Start, Unstarted
  <2> QED
    BY <1>1, <2>1, ConnectOpens, FS_EmptySet
       DEF Start, Unstarted, TypeOK, ChainsConserved, HealthyMeansLive
<1>2. CASE TimerFires
  <2>1. started
    BY <1>2 DEF TimerFires, Unstarted
  <2>2. CASE stopped
    BY <1>2, <2>1, <2>2
       DEF TimerFires, Unstarted, TypeOK, ChainsConserved, HealthyMeansLive, Open, Live
  <2>3. CASE ~stopped
    <3>1. Connect
      BY <1>2, <2>3 DEF TimerFires
    <3> QED
      BY <1>0, <1>2, <2>1, <2>3, <3>1, ConnectOpens
         DEF TimerFires, Unstarted, TypeOK, ChainsConserved, HealthyMeansLive
  <2> QED
    BY <2>2, <2>3
<1>3. CASE Stop
  <2>1. IsFiniteSet(Open)'
    <3>1. Open' \subseteq Open
      BY <1>3 DEF Stop, Open
    <3> QED
      BY <3>1, FS_Subset
  <2>2. TypeOK'
    BY <1>3 DEF Stop, TypeOK, States
  <2> QED
    BY <1>3, <2>1, <2>2 DEF Stop, Unstarted, ChainsConserved, HealthyMeansLive
<1>4. ASSUME NEW c \in Clients, ConnectOk(c) PROVE ListenerInv'
  <2>1. Open' = Open /\ Live' = Live
    BY <1>4 DEF ConnectOk, Open, Live, TypeOK
  <2>2. TypeOK'
    BY <1>4 DEF ConnectOk, TypeOK, States
  <2> QED
    BY <1>4, <2>1, <2>2 DEF ConnectOk, Unstarted, ChainsConserved, HealthyMeansLive
<1>5. ASSUME NEW c \in Clients, ConnectFails(c) PROVE ListenerInv'
  <2>1. c \in Open
    BY <1>5 DEF ConnectFails, Open
  <2>2. Fails(c) /\ healthy' = FALSE /\ ScheduleReconnect(1) /\ 1 \in 1..3
    BY <1>5 DEF ConnectFails
  <2> QED
    BY <2>1, <2>2, FailureKeepsChains
<1>6. ASSUME NEW c \in Clients, ListenOk(c) PROVE ListenerInv'
  <2>1. Open' = Open /\ c \in Live'
    BY <1>6 DEF ListenOk, Open, Live, TypeOK
  <2>2. TypeOK'
    BY <1>6 DEF ListenOk, TypeOK, States
  <2> QED
    BY <1>6, <2>1, <2>2 DEF ListenOk, Unstarted, ChainsConserved, HealthyMeansLive
<1>7. ASSUME NEW c \in Clients, ListenFails(c) PROVE ListenerInv'
  <2>1. c \in Open
    BY <1>7 DEF ListenFails, Open
  <2>2. PICK e \in ErrorEvents : ScheduleReconnect(1 + e)
    BY <1>7 DEF ListenFails
  <2>3. Fails(c) /\ healthy' = FALSE /\ 1 + e \in 1..3
    BY <1>7 DEF ListenFails
  <2> QED
    BY <2>1, <2>2, <2>3, FailureKeepsChains
<1>8. ASSUME NEW c \in Clients, Lose(c) PROVE ListenerInv'
  <2>1. c \in Open
    BY <1>8 DEF Lose, Open
  <2>2. PICK e \in ErrorEvents : ScheduleReconnect(e)
    BY <1>8 DEF Lose
  <2>3. Fails(c) /\ healthy' = FALSE /\ e \in 1..3
    BY <1>8 DEF Lose
  <2> QED
    BY <2>1, <2>2, <2>3, FailureKeepsChains
<1>9. CASE UNCHANGED vars
  BY <1>9 DEF vars, TypeOK, Open, Live, Unstarted, ChainsConserved, HealthyMeansLive
<1> QED
  BY <1>1, <1>2, <1>3, <1>4, <1>5, <1>6, <1>7, <1>8, <1>9 DEF Next

\* A listener whose closure is untouched keeps its invariant.
LEMMA ListenerUntouched == ListenerInv /\ UNCHANGED listener => ListenerInv'
BY NextListenerInv DEF listener, vars

\* A new process starts with a new listener.
LEMMA CrashListenerInv == ListenerInv /\ Crash => ListenerInv'
<1> SUFFICES ASSUME ListenerInv, Crash PROVE ListenerInv'
  OBVIOUS
<1>1. Open' = {}
  BY DEF Crash, Open
<1>2. TypeOK'
  <2>1. state' \in [Clients -> States]
    BY DEF Crash, States
  <2>2. backoffMs' \in MinBackoff..MaxBackoff
    BY DEF Crash
  <2> QED
    BY <2>1, <2>2 DEF Crash, TypeOK, ListenerInv, ListenerSound
<1> QED
  BY <1>1, <1>2, FS_EmptySet
     DEF Crash, ListenerInv, ListenerSound, ChainsConserved, HealthyMeansLive, Unstarted

\* Every step of the worker keeps the listener's invariant.
LEMMA NextWorkerListenerInv == ListenerInv /\ [NextWorker]_workerVars => ListenerInv'
<1> SUFFICES ASSUME ListenerInv, [NextWorker]_workerVars PROVE ListenerInv'
  OBVIOUS
<1>1. CASE ListenerStep(Next)
  BY <1>1, NextListenerInv DEF ListenerStep
<1>2. CASE Crash
  BY <1>2, CrashListenerInv
<1>3. CASE UNCHANGED listener
  BY <1>3, ListenerUntouched
<1>4. \/ Commit \/ UNCHANGED workerVars
      \/ \E e \in Ep : EditEndpoint(e)
      \/ \E c \in Clients : handle(c)
      \/ \E k \in Slots : HandleStep(k)
      => UNCHANGED listener
  BY DEF Commit, workerVars, EditEndpoint, handle, HandleStep, Load, LoadFails,
         DeliveryStep, Attempt, Wake, Record, RecordFails
<1> QED
  BY <1>1, <1>2, <1>3, <1>4 DEF NextWorker

\* createPgListener, on its own: while it is started and not stopped the chain
\* of clients and timers is never lost, and health is true.
THEOREM ListenerSoundAlone == Spec => []ListenerSound
<1>1. ListenerInv => ListenerSound
  BY DEF ListenerInv
<1> QED
  BY <1>1, InitListenerInv, NextListenerInv, PTL DEF Spec

\* The same inside the webhooks worker, which may crash and start over.
THEOREM ListenerSoundAlways == SpecWorker => []ListenerSound
<1>1. InitWorker => ListenerInv
  BY InitListenerInv DEF InitWorker
<1>2. ListenerInv => ListenerSound
  BY DEF ListenerInv
<1> QED
  BY <1>1, <1>2, NextWorkerListenerInv, PTL DEF SpecWorker

-----------------------------------------------------------------------------
(***************************************************************************)
(* The dispatcher: its log accounts for what it was sent and what it sent. *)
(* A copy of a change is a token: it lies in the inbox of a client, then   *)
(* is held, once for each endpoint, by the activation of handle() that     *)
(* took it, and ends as a row of the log or as a loss.                     *)
(***************************************************************************)
USE ChangesAssumption, AttemptsAssumption, FaultsAssumption

Activations == {NoWork} \cup [stage : {"loading", "delivering"}, note : Note]
DeliveryStates ==
  {NoDelivery} \cup [stage : {"posting", "waiting"}, attempt : 1..MaxAttempts]
    \cup [stage : {"recording"}, attempt : 1..MaxAttempts, last : Results]
LogRows == [last : Results, attempts : 1..MaxAttempts]
Busy == {k \in Slots : act[k] # NoWork}

WorkerTyped ==
  /\ committed \in 0..Len(Changes)
  /\ inbox \in [Clients -> Seq(Note)]
  /\ status \in [Ep -> {"active", "inactive", "deleted"}]
  /\ deliveries \in [Ep -> [Note -> Seq(LogRows)]]
  /\ act \in [Slots -> Activations]
  /\ del \in [Slots -> [Ep -> DeliveryStates]]
  /\ faults \in 0..MaxFaults /\ failures \in 0..MaxFailures
  /\ copies \in [Note -> Nat]
  /\ sent \in [Ep -> [Note -> Nat]]
  /\ accepted \in [Ep -> SUBSET Note]
  /\ IsFiniteSet(Busy)

\* Only a live client has notifications, each of them once.
InboxesSound ==
  \A c \in Clients :
    /\ inbox[c] # <<>> => c \in Live
    /\ \A i \in DOMAIN inbox[c] : inbox[c][i] <= committed
    /\ \A i, j \in DOMAIN inbox[c] : inbox[c][i] = inbox[c][j] => i = j

StagesAgree ==
  \A k \in Slots : act[k].stage = "delivering" <=> \E e \in Ep : del[k][e] # NoDelivery

\* Where the tokens of change n for endpoint e are.
Inboxed(n) == {c \in Clients : \E i \in DOMAIN inbox[c] : inbox[c][i] = n}
Holding(e, n) ==
  {k \in Slots : /\ act[k] # NoWork /\ act[k].note = n
                 /\ act[k].stage = "loading" \/ del[k][e] # NoDelivery}
Held(e, n) == Cardinality(Inboxed(n)) + Cardinality(Holding(e, n))

\* The attempts made by the deliveries in flight, and those the rows count.
Finished(d) == IF d.stage = "recording" THEN d.attempt ELSE d.attempt - 1
Done(e, n) ==
  {p \in Holding(e, n) \X (1..MaxAttempts) :
     del[p[1]][e] # NoDelivery /\ p[2] <= Finished(del[p[1]][e])}
Logged(rows) == UNION {{i} \X (1..rows[i].attempts) : i \in DOMAIN rows}

CopiesPaid(e, n) ==
  /\ Len(deliveries[e][n]) + Held(e, n) <= copies[n]
  /\ Cardinality(Logged(deliveries[e][n])) + Cardinality(Done(e, n)) <= sent[e][n]
  /\ sent[e][n] + MaxAttempts * Held(e, n)
       <= MaxAttempts * copies[n] + Cardinality(Done(e, n))
  /\ Undisturbed /\ matchEndpoint(e, n) =>
       Len(deliveries[e][n]) + Held(e, n) = copies[n]

Told(e, n, last, attempt) ==
  /\ last = "2xx" => n \in accepted[e]
  /\ last = "retryable" => attempt = MaxAttempts

OutcomesTold ==
  /\ \A k \in Slots, e \in Ep : del[k][e].stage = "recording" =>
       Told(e, act[k].note, del[k][e].last, del[k][e].attempt)
  /\ LogTellsTheOutcome

WorkerInv ==
  /\ WorkerTyped /\ InboxesSound /\ StagesAgree /\ OutcomesTold
  /\ \A n \in Note : n > committed => copies[n] = 0
  /\ faults = MaxFaults => \A e \in Ep : status[e] = "active"
  /\ \A e \in Ep, n \in Note : CopiesPaid(e, n)

-----------------------------------------------------------------------------
(* What activations and deliveries are, and how many there are of them.    *)

LEMMA ActKinds ==
  ASSUME WorkerTyped, NEW k \in Slots
  PROVE  /\ act[k] = NoWork <=> act[k].stage = "free"
         /\ act[k].stage \in {"free", "loading", "delivering"}
         /\ act[k] # NoWork => act[k].note \in Note
<1> DEFINE a == act[k]
<1>1. a \in Activations
  BY DEF WorkerTyped
<1> HIDE DEF a
<1>2. /\ a = NoWork <=> a.stage = "free"
      /\ a.stage \in {"free", "loading", "delivering"}
      /\ a # NoWork => a.note \in Note
  BY <1>1 DEF Activations, NoWork
<1> QED
  BY <1>2 DEF a

LEMMA DelKinds ==
  ASSUME WorkerTyped, NEW k \in Slots, NEW e \in Ep
  PROVE  /\ del[k][e] = NoDelivery <=> del[k][e].stage = "none"
         /\ del[k][e].stage \in {"none", "posting", "waiting", "recording"}
         /\ del[k][e] # NoDelivery => del[k][e].attempt \in 1..MaxAttempts
         /\ del[k][e].stage = "recording" => del[k][e].last \in Results
<1> DEFINE d == del[k][e]
<1>1. d \in DeliveryStates
  BY DEF WorkerTyped
<1> HIDE DEF d
<1>2. /\ d = NoDelivery <=> d.stage = "none"
      /\ d.stage \in {"none", "posting", "waiting", "recording"}
      /\ d # NoDelivery => d.attempt \in 1..MaxAttempts
      /\ d.stage = "recording" => d.last \in Results
  BY <1>1 DEF DeliveryStates, NoDelivery
<1> QED
  BY <1>2 DEF d

\* Facts about sequences, as the inboxes need them.
LEMMA SeqFacts ==
  ASSUME NEW S, NEW q \in Seq(S)
  PROVE  /\ Len(q) \in Nat /\ DOMAIN q = 1..Len(q)
         /\ \A i \in 1..Len(q) : q[i] \in S /\ q # <<>>
         /\ q # <<>> => 1 \in 1..Len(q) /\ Head(q) = q[1]
OBVIOUS

LEMMA AppendFacts ==
  ASSUME NEW S, NEW q \in Seq(S), NEW x \in S
  PROVE  /\ Append(q, x) \in Seq(S) /\ Len(Append(q, x)) = Len(q) + 1
         /\ \A i \in DOMAIN Append(q, x) : i \in 1..Len(q) \/ i = Len(q) + 1
         /\ Len(q) + 1 \in DOMAIN Append(q, x) /\ Append(q, x)[Len(q) + 1] = x
         /\ \A i \in 1..Len(q) : i \in DOMAIN Append(q, x) /\ Append(q, x)[i] = q[i]
OBVIOUS

LEMMA TailFacts ==
  ASSUME NEW S, NEW q \in Seq(S), q # <<>>
  PROVE  /\ Tail(q) \in Seq(S) /\ Head(q) \in S
         /\ \A i \in DOMAIN Tail(q) : i + 1 \in 2..Len(q) /\ Tail(q)[i] = q[i + 1]
         /\ \A i \in 2..Len(q) : i - 1 \in DOMAIN Tail(q) /\ Tail(q)[i - 1] = q[i]
OBVIOUS

\* Only live clients have anything in their inbox, and nothing unpublished.
LEMMA InboxFacts ==
  ASSUME WorkerTyped, InboxesSound, NEW c \in Clients
  PROVE  /\ inbox[c] \in Seq(Note) /\ Len(inbox[c]) \in Nat
         /\ DOMAIN inbox[c] = 1..Len(inbox[c])
         /\ \A i \in 1..Len(inbox[c]) :
              inbox[c][i] \in Note /\ inbox[c][i] <= committed /\ c \in Live
<1>1. inbox[c] \in Seq(Note)
  BY DEF WorkerTyped
<1> QED
  BY <1>1, SeqFacts DEF InboxesSound

LEMMA CountTo ==
  ASSUME NEW m \in 1..MaxAttempts
  PROVE  IsFiniteSet(1..m) /\ Cardinality(1..m) = m
BY FS_Interval

\* At most MaxAttempts attempts for each activation that holds the token.
LEMMA PairsBound ==
  ASSUME NEW H, IsFiniteSet(H), NEW D \in SUBSET (H \X (1..MaxAttempts))
  PROVE  IsFiniteSet(D) /\ Cardinality(D) <= MaxAttempts * Cardinality(H)
<1>1. IsFiniteSet(1..MaxAttempts) /\ Cardinality(1..MaxAttempts) = MaxAttempts
  BY FS_Interval
<1>2. /\ IsFiniteSet(H \X (1..MaxAttempts))
      /\ Cardinality(H \X (1..MaxAttempts)) = Cardinality(H) * MaxAttempts
  BY <1>1, FS_Product
<1>3. IsFiniteSet(D) /\ Cardinality(D) <= Cardinality(H) * MaxAttempts
  BY <1>2, FS_Subset
<1>4. Cardinality(H) \in Nat
  BY FS_CardinalityType
<1>5. Cardinality(H) * MaxAttempts = MaxAttempts * Cardinality(H)
  BY <1>4
<1> QED
  BY <1>3, <1>5

LEMMA LoggedFinite ==
  ASSUME NEW rows \in Seq(LogRows)
  PROVE  IsFiniteSet(Logged(rows)) /\ Cardinality(Logged(rows)) \in Nat
<1>1. Logged(rows) \subseteq (1..Len(rows)) \X (1..MaxAttempts)
  <2>1. ASSUME NEW i \in DOMAIN rows
        PROVE  {i} \X (1..rows[i].attempts) \subseteq (1..Len(rows)) \X (1..MaxAttempts)
    <3>1. i \in 1..Len(rows) /\ rows[i] \in LogRows
      OBVIOUS
    <3>2. rows[i].attempts \in 1..MaxAttempts
      BY <3>1 DEF LogRows
    <3> QED
      BY <3>1, <3>2
  <2> QED
    BY <2>1 DEF Logged
<1>2. IsFiniteSet(1..Len(rows))
  BY FS_Interval
<1> QED
  BY <1>1, <1>2, PairsBound, FS_CardinalityType

LEMMA TokensFinite ==
  ASSUME ListenerInv, WorkerTyped, InboxesSound, NEW e \in Ep, NEW n \in Note
  PROVE  /\ IsFiniteSet(Inboxed(n)) /\ IsFiniteSet(Holding(e, n))
         /\ IsFiniteSet(Done(e, n))
         /\ Cardinality(Inboxed(n)) \in Nat /\ Cardinality(Holding(e, n)) \in Nat
         /\ Cardinality(Done(e, n)) \in Nat
         /\ Cardinality(Done(e, n)) <= MaxAttempts * Cardinality(Holding(e, n))
<1>1. IsFiniteSet(Inboxed(n))
  <2>1. Inboxed(n) \subseteq Live
    BY InboxFacts DEF Inboxed
  <2>2. Live \subseteq Open
    BY DEF Live, Open
  <2> QED
    BY <2>1, <2>2, FS_Subset DEF ListenerInv
<1>2. IsFiniteSet(Holding(e, n))
  <2>1. Holding(e, n) \subseteq Busy
    BY DEF Holding, Busy
  <2> QED
    BY <2>1, FS_Subset DEF WorkerTyped
<1>3. Done(e, n) \in SUBSET (Holding(e, n) \X (1..MaxAttempts))
  BY DEF Done
<1> QED
  BY <1>1, <1>2, <1>3, PairsBound, FS_CardinalityType

-----------------------------------------------------------------------------
(* What a step does to the account of one change and one endpoint.         *)

LEMMA BudgetDrop ==
  ASSUME NEW s \in Nat, NEW c \in Nat, NEW i \in Nat, NEW h \in Nat, NEW d \in Nat,
         NEW i2 \in Nat, NEW h2 \in Nat, NEW d2 \in Nat,
         s + MaxAttempts * (i + h) <= MaxAttempts * c + d,
         i2 <= i, h2 <= h, d - d2 <= MaxAttempts * (h - h2)
  PROVE  s + MaxAttempts * (i2 + h2) <= MaxAttempts * c + d2
<1> DEFINE x == MaxAttempts * (i + h)
           y == MaxAttempts * (i2 + h2)
           z == MaxAttempts * (h - h2)
           w == MaxAttempts * (i - i2)
           b == MaxAttempts * c
<1>1. x \in Nat /\ y \in Nat /\ z \in Nat /\ w \in Nat /\ b \in Nat
  OBVIOUS
<1>2. x = y + z + w
  <2>1. i + h = (i2 + h2) + (h - h2) + (i - i2)
    OBVIOUS
  <2> QED
    BY <2>1
<1>3. s + x <= b + d /\ d - d2 <= z
  OBVIOUS
<1> HIDE DEF x, y, z, w, b
<1>4. s + y <= b + d2
  BY <1>1, <1>2, <1>3
<1> QED
  BY <1>4 DEF y, b

\* Tokens are lost, or nothing happens to them; rows are lost with their
\* endpoint.  Neither is possible while nothing has been disturbed.
LEMMA PaidKept ==
  ASSUME ListenerInv, WorkerInv, NEW e \in Ep, NEW n \in Note,
         sent'[e][n] = sent[e][n], copies'[n] = copies[n],
         Inboxed(n)' \subseteq Inboxed(n), Holding(e, n)' \subseteq Holding(e, n),
         Done(e, n)' = {p \in Done(e, n) : p[1] \in Holding(e, n)'},
         deliveries'[e][n] = deliveries[e][n] \/ deliveries'[e][n] = <<>>,
         Undisturbed' /\ matchEndpoint(e, n) =>
           /\ Undisturbed /\ deliveries'[e][n] = deliveries[e][n]
           /\ Inboxed(n)' = Inboxed(n) /\ Holding(e, n)' = Holding(e, n)
  PROVE  CopiesPaid(e, n)'
<1> DEFINE I == Cardinality(Inboxed(n))
           H == Cardinality(Holding(e, n))
           D == Cardinality(Done(e, n))
           G == Cardinality(Logged(deliveries[e][n]))
           L == Len(deliveries[e][n])
           I2 == Cardinality(Inboxed(n)')
           H2 == Cardinality(Holding(e, n)')
           D2 == Cardinality(Done(e, n)')
           G2 == Cardinality(Logged(deliveries'[e][n]))
           L2 == Len(deliveries'[e][n])
<1>1. /\ WorkerTyped /\ InboxesSound /\ CopiesPaid(e, n)
      /\ deliveries[e][n] \in Seq(LogRows) /\ sent[e][n] \in Nat /\ copies[n] \in Nat
  BY DEF WorkerInv, WorkerTyped
<1>2. I2 \in Nat /\ I \in Nat /\ I2 <= I
  BY <1>1, TokensFinite, FS_Subset, FS_CardinalityType
<1>3. H2 \in Nat /\ H \in Nat /\ H2 <= H
  BY <1>1, TokensFinite, FS_Subset, FS_CardinalityType
<1>4. D2 \in Nat /\ D \in Nat /\ D2 <= D /\ D - D2 <= MaxAttempts * (H - H2)
  <2>1. Done(e, n)' \subseteq Done(e, n) /\ IsFiniteSet(Done(e, n)) /\ IsFiniteSet(Holding(e, n))
    BY <1>1, TokensFinite
  <2>2. D2 \in Nat /\ D \in Nat /\ D2 <= D
    BY <2>1, FS_Subset, FS_CardinalityType
  <2>3. Cardinality(Done(e, n) \ Done(e, n)') = D - D2
    <3>1. Done(e, n) \cap Done(e, n)' = Done(e, n)'
      BY <2>1
    <3> QED
      BY <2>1, <3>1, FS_Difference
  <2>4. /\ IsFiniteSet(Holding(e, n) \ Holding(e, n)')
        /\ Cardinality(Holding(e, n) \ Holding(e, n)') = H - H2
    <3>1. Holding(e, n) \cap Holding(e, n)' = Holding(e, n)'
      OBVIOUS
    <3> QED
      BY <2>1, <3>1, FS_Difference
  <2>5. Done(e, n) \ Done(e, n)' \subseteq (Holding(e, n) \ Holding(e, n)') \X (1..MaxAttempts)
    <3>1. Done(e, n) \subseteq Holding(e, n) \X (1..MaxAttempts)
      BY DEF Done
    <3>2. ASSUME NEW p \in Done(e, n), p \notin Done(e, n)'
          PROVE  p \in (Holding(e, n) \ Holding(e, n)') \X (1..MaxAttempts)
      <4>1. p[1] \notin Holding(e, n)'
        BY <3>2
      <4> QED
        BY <3>1, <4>1
    <3> QED
      BY <3>2
  <2>6. Cardinality(Done(e, n) \ Done(e, n)') <= MaxAttempts * Cardinality(Holding(e, n) \ Holding(e, n)')
    BY <2>4, <2>5, PairsBound
  <2> QED
    BY <2>2, <2>3, <2>4, <2>6
<1>5. L2 \in Nat /\ G2 \in Nat /\ L \in Nat /\ G \in Nat /\ L2 <= L /\ G2 <= G
  <2>1. CASE deliveries'[e][n] = deliveries[e][n]
    BY <1>1, <2>1, LoggedFinite
  <2>2. CASE deliveries'[e][n] = <<>>
    <3>1. Logged(<<>>) = {}
      BY DEF Logged
    <3>2. L2 = 0 /\ G2 = 0
      BY <2>2, <3>1, FS_EmptySet
    <3>3. L \in Nat /\ G \in Nat
      BY <1>1, LoggedFinite
    <3> QED
      BY <3>2, <3>3
  <2> QED
    BY <2>1, <2>2
<1>6. /\ L + (I + H) <= copies[n] /\ G + D <= sent[e][n]
      /\ sent[e][n] + MaxAttempts * (I + H) <= MaxAttempts * copies[n] + D
  BY <1>1 DEF CopiesPaid, Held
<1>7. sent[e][n] + MaxAttempts * (I2 + H2) <= MaxAttempts * copies[n] + D2
  <2> HIDE DEF I, H, D, I2, H2, D2
  <2> QED
    BY <1>1, <1>2, <1>3, <1>4, <1>6, BudgetDrop
<1>8. Undisturbed' /\ matchEndpoint(e, n) => L2 + (I2 + H2) = copies[n]
  BY <1>1 DEF CopiesPaid, Held
<1>9. L2 + (I2 + H2) <= copies[n] /\ G2 + D2 <= sent[e][n]
  <2> HIDE DEF I, H, D, I2, H2, D2, L, G, L2, G2
  <2> QED
    BY <1>1, <1>2, <1>3, <1>4, <1>5, <1>6
<1> QED
  BY <1>7, <1>8, <1>9 DEF CopiesPaid, Held

\* A notification is taken from its inbox by an activation.
LEMMA PaidMoved ==
  ASSUME ListenerInv, WorkerInv, NEW e \in Ep, NEW n \in Note,
         NEW c \in Inboxed(n), NEW k, k \notin Holding(e, n),
         Inboxed(n)' = Inboxed(n) \ {c}, Holding(e, n)' = Holding(e, n) \cup {k},
         Done(e, n)' = Done(e, n), UNCHANGED <<sent, copies, deliveries>>,
         Undisturbed' => Undisturbed
  PROVE  CopiesPaid(e, n)'
<1>1. CopiesPaid(e, n) /\ WorkerTyped /\ InboxesSound
  BY DEF WorkerInv
<1>2. Cardinality(Inboxed(n)') = Cardinality(Inboxed(n)) - 1
  BY <1>1, TokensFinite, FS_RemoveElement
<1>3. Cardinality(Holding(e, n)') = Cardinality(Holding(e, n)) + 1
  BY <1>1, TokensFinite, FS_AddElement
<1>4. Cardinality(Inboxed(n)) \in Nat /\ Cardinality(Holding(e, n)) \in Nat
  BY <1>1, TokensFinite
<1>5. Held(e, n)' = Held(e, n)
  BY <1>2, <1>3, <1>4 DEF Held
<1> QED
  BY <1>1, <1>5 DEF CopiesPaid

\* A POST goes out: one attempt more that is done.
LEMMA PaidPosted ==
  ASSUME ListenerInv, WorkerInv, NEW e \in Ep, NEW n \in Note,
         Inboxed(n)' = Inboxed(n), Holding(e, n)' = Holding(e, n),
         NEW x, x \notin Done(e, n), Done(e, n)' = Done(e, n) \cup {x},
         sent'[e][n] = sent[e][n] + 1, UNCHANGED <<copies, deliveries>>,
         Undisturbed' => Undisturbed
  PROVE  CopiesPaid(e, n)'
<1>1. /\ CopiesPaid(e, n) /\ WorkerTyped /\ InboxesSound
      /\ deliveries[e][n] \in Seq(LogRows) /\ sent[e][n] \in Nat /\ copies[n] \in Nat
  BY DEF WorkerInv, WorkerTyped
<1>2. Cardinality(Done(e, n)') = Cardinality(Done(e, n)) + 1
  BY <1>1, TokensFinite, FS_AddElement
<1>3. /\ Cardinality(Done(e, n)) \in Nat
      /\ Cardinality(Inboxed(n)) \in Nat /\ Cardinality(Holding(e, n)) \in Nat
      /\ Cardinality(Logged(deliveries[e][n])) \in Nat
  BY <1>1, TokensFinite, LoggedFinite
<1>4. Held(e, n)' = Held(e, n) /\ Held(e, n) \in Nat
  BY <1>3 DEF Held
<1>5. Cardinality(Logged(deliveries[e][n])) + Cardinality(Done(e, n)') <= sent'[e][n]
  BY <1>1, <1>2, <1>3 DEF CopiesPaid
<1>6. sent'[e][n] + MaxAttempts * Held(e, n)'
        <= MaxAttempts * copies[n] + Cardinality(Done(e, n)')
  <2> DEFINE x1 == MaxAttempts * Held(e, n)
             x2 == MaxAttempts * copies[n]
  <2>1. x1 \in Nat /\ x2 \in Nat /\ sent[e][n] + x1 <= x2 + Cardinality(Done(e, n))
    BY <1>1, <1>4 DEF CopiesPaid
  <2> HIDE DEF x1, x2
  <2>2. sent[e][n] + 1 + x1 <= x2 + Cardinality(Done(e, n)')
    BY <1>1, <1>2, <1>3, <2>1
  <2> QED
    BY <1>4, <2>2 DEF x1, x2
<1> QED
  BY <1>1, <1>4, <1>5, <1>6 DEF CopiesPaid

\* A delivery ends with a row of the log.
LEMMA PaidRecorded ==
  ASSUME ListenerInv, WorkerInv, NEW e \in Ep, NEW n \in Note,
         NEW k \in Holding(e, n), NEW r \in LogRows,
         Inboxed(n)' = Inboxed(n), Holding(e, n)' = Holding(e, n) \ {k},
         {p \in Done(e, n) : p[1] = k} = {k} \X (1..r.attempts),
         Done(e, n)' = {p \in Done(e, n) : p[1] # k},
         deliveries'[e][n] = Append(deliveries[e][n], r),
         UNCHANGED <<sent, copies>>,
         Undisturbed' => Undisturbed
  PROVE  CopiesPaid(e, n)'
<1> DEFINE rows == deliveries[e][n]
           m == r.attempts
           I == Cardinality(Inboxed(n))
           H == Cardinality(Holding(e, n))
           D == Cardinality(Done(e, n))
           G == Cardinality(Logged(rows))
           L == Len(rows)
           H2 == Cardinality(Holding(e, n)')
           D2 == Cardinality(Done(e, n)')
           G2 == Cardinality(Logged(Append(rows, r)))
<1>1. /\ CopiesPaid(e, n) /\ WorkerTyped /\ InboxesSound
      /\ rows \in Seq(LogRows) /\ sent[e][n] \in Nat /\ copies[n] \in Nat
  BY DEF WorkerInv, WorkerTyped
<1>2. m \in 1..MaxAttempts
  BY DEF LogRows
<1>3. I \in Nat /\ H \in Nat /\ D \in Nat /\ G \in Nat /\ L \in Nat
  BY <1>1, TokensFinite, LoggedFinite
<1>4. H2 = H - 1 /\ H2 \in Nat
  <2>1. IsFiniteSet(Holding(e, n))
    BY <1>1, TokensFinite
  <2>2. H2 = H - 1 /\ IsFiniteSet(Holding(e, n)')
    BY <2>1, FS_RemoveElement
  <2> QED
    BY <2>2, FS_CardinalityType
<1>5. \A y : IsFiniteSet({y} \X (1..m)) /\ Cardinality({y} \X (1..m)) = m
  <2>1. ASSUME NEW y PROVE IsFiniteSet({y} \X (1..m)) /\ Cardinality({y} \X (1..m)) = m
    <3>1. IsFiniteSet({y}) /\ Cardinality({y}) = 1
      BY FS_Singleton
    <3>2. IsFiniteSet(1..m) /\ Cardinality(1..m) = m
      BY <1>2, CountTo
    <3>3. /\ IsFiniteSet({y} \X (1..m))
          /\ Cardinality({y} \X (1..m)) = Cardinality({y}) * Cardinality(1..m)
      BY <3>1, <3>2, FS_Product
    <3> QED
      BY <1>2, <3>1, <3>2, <3>3
  <2> QED
    BY <2>1
<1>6. D2 = D - m /\ D2 \in Nat
  <2>1. IsFiniteSet(Done(e, n))
    BY <1>1, TokensFinite
  <2>2. Done(e, n)' = Done(e, n) \ ({k} \X (1..m))
    OBVIOUS
  <2>3. Done(e, n) \cap ({k} \X (1..m)) = {k} \X (1..m)
    OBVIOUS
  <2> DEFINE T == {k} \X (1..m)
  <2>4. /\ IsFiniteSet(Done(e, n) \ T)
        /\ Cardinality(Done(e, n) \ T) = D - Cardinality(Done(e, n) \cap T)
    <3> HIDE DEF T
    <3> QED
      BY <2>1, FS_Difference
  <2> QED
    BY <1>5, <2>2, <2>3, <2>4, FS_CardinalityType
<1>7. G2 = G + m
  <2>1. Logged(Append(rows, r)) = Logged(rows) \cup ({L + 1} \X (1..m))
    <3>1. DOMAIN Append(rows, r) = (1..L) \cup {L + 1} /\ DOMAIN rows = 1..L
      BY <1>1, <1>3
    <3>2. Append(rows, r)[L + 1] = r /\ \A i \in 1..L : Append(rows, r)[i] = rows[i]
      BY <1>1
    <3> QED
      BY <3>1, <3>2 DEF Logged
  <2>2. Logged(rows) \cap ({L + 1} \X (1..m)) = {}
    <3>1. \A p \in Logged(rows) : p[1] \in 1..L
      BY <1>1 DEF Logged
    <3> QED
      BY <1>3, <3>1
  <2>3. IsFiniteSet(Logged(rows))
    BY <1>1, LoggedFinite
  <2> DEFINE S == Logged(rows)
             T == {L + 1} \X (1..m)
  <2>4. Cardinality(S \cup T) = Cardinality(S) + Cardinality(T) - Cardinality(S \cap T)
    <3>1. IsFiniteSet(T)
      BY <1>5
    <3> HIDE DEF S, T
    <3> QED
      BY <2>3, <3>1, FS_Union DEF S
  <2>5. Cardinality(T) = m /\ Cardinality(S \cap T) = 0
    BY <1>5, <2>2, FS_EmptySet
  <2> HIDE DEF S, T, m
  <2>6. Cardinality(S \cup T) = Cardinality(S) + m
    BY <1>2, <1>3, <2>4, <2>5 DEF S
  <2> QED
    BY <2>1, <2>6 DEF S, T
<1>8. Len(Append(rows, r)) = L + 1
  BY <1>1
<1>9. /\ L + (I + H) <= copies[n] /\ G + D <= sent[e][n]
      /\ sent[e][n] + MaxAttempts * (I + H) <= MaxAttempts * copies[n] + D
  BY <1>1 DEF CopiesPaid, Held
<1>10. sent[e][n] + MaxAttempts * (I + H2) <= MaxAttempts * copies[n] + D2
  <2> HIDE DEF I, H, D, H2, D2, m
  <2>1. H - H2 = 1 /\ D - D2 = m
    BY <1>2, <1>3, <1>4, <1>6
  <2> DEFINE x == MaxAttempts * (I + H2)
             y == MaxAttempts * copies[n]
  <2>2. x \in Nat /\ y \in Nat /\ MaxAttempts * (I + H) = x + MaxAttempts
    <3>1. I + H = (I + H2) + 1
      BY <1>3, <1>4, <2>1
    <3> QED
      BY <1>1, <1>3, <1>4, <3>1
  <2> HIDE DEF x, y
  <2>3. sent[e][n] + x + MaxAttempts <= y + D
    <3>1. sent[e][n] + MaxAttempts * (I + H) <= y + D
      BY <1>9 DEF y
    <3> DEFINE z == MaxAttempts * (I + H)
    <3>2. z = x + MaxAttempts /\ sent[e][n] + z <= y + D
      BY <2>2, <3>1
    <3> HIDE DEF z
    <3> QED
      BY <1>1, <1>3, <2>2, <3>2
  <2>4. sent[e][n] + x <= y + D2
    BY <1>1, <1>2, <1>3, <1>6, <2>1, <2>2, <2>3
  <2> QED
    BY <2>4 DEF x, y
<1>11. L + 1 + (I + H2) <= copies[n] /\ G2 + D2 <= sent[e][n]
  <2> HIDE DEF I, H, D, H2, D2, m, G, G2, L
  <2> QED
    BY <1>1, <1>2, <1>3, <1>4, <1>6, <1>7, <1>9
<1>12. Undisturbed' /\ matchEndpoint(e, n) => L + 1 + (I + H2) = copies[n]
  <2>1. Undisturbed' /\ matchEndpoint(e, n) => L + (I + H) = copies[n]
    BY <1>1 DEF CopiesPaid, Held
  <2> HIDE DEF I, H, H2, L
  <2> QED
    BY <1>3, <1>4, <2>1
<1> QED
  BY <1>8, <1>10, <1>11, <1>12 DEF CopiesPaid, Held

\* A change is published: as many tokens as copies, where there was nothing.
LEMMA PaidCommitted ==
  ASSUME ListenerInv, WorkerInv, NEW e \in Ep, NEW n \in Note, copies[n] = 0,
         copies'[n] = Cardinality(Inboxed(n)'), copies'[n] \in Nat,
         Holding(e, n)' = Holding(e, n), Done(e, n)' = Done(e, n),
         UNCHANGED <<sent, deliveries>>
  PROVE  CopiesPaid(e, n)'
<1> DEFINE I == Cardinality(Inboxed(n))
           H == Cardinality(Holding(e, n))
           D == Cardinality(Done(e, n))
           G == Cardinality(Logged(deliveries[e][n]))
           L == Len(deliveries[e][n])
<1>1. /\ CopiesPaid(e, n) /\ WorkerTyped /\ InboxesSound
      /\ deliveries[e][n] \in Seq(LogRows) /\ sent[e][n] \in Nat
  BY DEF WorkerInv, WorkerTyped
<1>2. /\ I \in Nat /\ H \in Nat /\ D \in Nat /\ G \in Nat /\ L \in Nat
      /\ D <= MaxAttempts * H
  BY <1>1, TokensFinite, LoggedFinite
<1>3. /\ L + (I + H) <= 0 /\ G + D <= sent[e][n]
      /\ sent[e][n] + MaxAttempts * (I + H) <= MaxAttempts * 0 + D
  BY <1>1 DEF CopiesPaid, Held
<1>4. L = 0 /\ I = 0 /\ H = 0 /\ D = 0 /\ sent[e][n] = 0 /\ G = 0
  <2> HIDE DEF I, H, D, G, L
  <2>1. L = 0 /\ I = 0 /\ H = 0
    BY <1>2, <1>3
  <2>2. D = 0
    BY <1>2, <2>1
  <2> QED
    BY <1>1, <1>2, <1>3, <2>1, <2>2
<1>5. Held(e, n)' = copies'[n]
  BY <1>4 DEF Held
<1> QED
  BY <1>4, <1>5 DEF CopiesPaid

-----------------------------------------------------------------------------
(* The steps of the worker, one by one.                                    *)

\* A slot whose activation and deliveries a step leaves alone.
SameSlot(k) == act'[k] = act[k] /\ del'[k] = del[k]

LEMMA SameTokens ==
  ASSUME NEW e \in Ep, NEW n \in Note, \A k \in Slots : SameSlot(k)
  PROVE  Holding(e, n)' = Holding(e, n) /\ Done(e, n)' = Done(e, n)
<1>1. Holding(e, n)' = Holding(e, n)
  BY DEF SameSlot, Holding
<1>2. \A p \in Holding(e, n) \X (1..MaxAttempts) : del'[p[1]] = del[p[1]]
  BY DEF SameSlot, Holding
<1> QED
  BY <1>1, <1>2 DEF Done, Finished

\* The listener: a live client ends by a failure or by stop().
LEMMA ListenerMoves ==
  ASSUME ListenerInv, Next, failures \in 0..MaxFailures
  PROVE  /\ failures' \in 0..MaxFailures /\ failures' <= failures
         /\ stopped => stopped'
         /\ failures' = failures /\ ~stopped' =>
              \A c \in Clients : state[c] = "live" => state'[c] = "live"
<1> USE DEF ListenerInv, ListenerSound, TypeOK
<1>1. CASE Start
  BY <1>1 DEF Start, Connect
<1>2. CASE TimerFires
  BY <1>2 DEF TimerFires, Connect
<1>3. CASE Stop
  BY <1>3 DEF Stop
<1>4. ASSUME NEW c \in Clients, ConnectOk(c) \/ ListenOk(c)
      PROVE  /\ failures' = failures /\ stopped' = stopped
             /\ \A d \in Clients : state[d] = "live" => state'[d] = "live"
  BY <1>4 DEF ConnectOk, ListenOk
<1>5. ASSUME NEW c \in Clients, ConnectFails(c) \/ ListenFails(c) \/ Lose(c)
      PROVE  failures' \in 0..MaxFailures /\ failures' < failures /\ stopped' = stopped
  BY <1>5 DEF ConnectFails, ListenFails, Lose, Fails
<1> QED
  BY <1>1, <1>2, <1>3, <1>4, <1>5 DEF Next

LEMMA ListenerStepInv ==
  ASSUME ListenerInv, WorkerInv, ListenerStep(Next)
  PROVE  WorkerInv'
<1> USE DEF WorkerInv
<1>1. /\ UNCHANGED <<committed, status, deliveries, act, del, faults, copies, sent, accepted>>
      /\ inbox' = [c \in Clients |-> IF state'[c] = "live" THEN inbox[c] ELSE <<>>]
  BY DEF ListenerStep, table, hist
<1>2. /\ failures' \in 0..MaxFailures /\ failures' <= failures
      /\ stopped => stopped'
      /\ failures' = failures /\ ~stopped' =>
           \A c \in Clients : state[c] = "live" => state'[c] = "live"
  BY ListenerMoves DEF ListenerStep, WorkerTyped
<1>3. WorkerTyped'
  <2>1. inbox' \in [Clients -> Seq(Note)]
    BY <1>1 DEF WorkerTyped
  <2>2. IsFiniteSet(Busy)'
    BY <1>1 DEF WorkerTyped, Busy
  <2> QED
    BY <1>1, <1>2, <2>1, <2>2 DEF WorkerTyped
<1>4. InboxesSound'
  BY <1>1 DEF InboxesSound, Live
<1>5. StagesAgree' /\ OutcomesTold'
  BY <1>1 DEF StagesAgree, OutcomesTold, LogTellsTheOutcome, Told
<1>6. ASSUME NEW e \in Ep, NEW n \in Note PROVE CopiesPaid(e, n)'
  <2>1. Holding(e, n)' = Holding(e, n) /\ Done(e, n)' = Done(e, n)
    BY <1>1, SameTokens DEF SameSlot
  <2>2. Inboxed(n)' \subseteq Inboxed(n)
    BY <1>1 DEF Inboxed
  <2>3. Undisturbed' => Undisturbed /\ Inboxed(n)' = Inboxed(n)
    <3>1. SUFFICES ASSUME Undisturbed' PROVE Undisturbed /\ Inboxed(n)' = Inboxed(n)
      OBVIOUS
    <3>2. failures' = failures /\ failures = MaxFailures /\ ~stopped' /\ faults = MaxFaults
      BY <1>1, <1>2, <3>1 DEF Undisturbed, WorkerTyped
    <3>3. \A c \in Clients : inbox'[c] = inbox[c]
      BY <1>1, <1>2, <3>2 DEF InboxesSound, Live
    <3>4. \A c \in Clients : c \in Inboxed(n)' <=> c \in Inboxed(n)
      BY <3>3 DEF Inboxed
    <3>5. Inboxed(n) \subseteq Clients
      BY DEF Inboxed
    <3>6. failures = MaxFailures /\ ~stopped
      BY <1>2, <3>2
    <3> QED
      BY <2>2, <3>2, <3>4, <3>5, <3>6 DEF Undisturbed
  <2>4. Done(e, n)' = {p \in Done(e, n) : p[1] \in Holding(e, n)'}
    BY <2>1 DEF Done
  <2>5. /\ sent'[e][n] = sent[e][n] /\ copies'[n] = copies[n]
        /\ deliveries'[e][n] = deliveries[e][n]
    BY <1>1
  <2> QED
    BY <2>1, <2>2, <2>3, <2>4, <2>5, PaidKept
<1> QED
  BY <1>1, <1>3, <1>4, <1>5, <1>6

LEMMA CommitInv ==
  ASSUME ListenerInv, WorkerInv, Commit
  PROVE  WorkerInv'
<1> USE DEF WorkerInv
<1> DEFINE m == committed + 1
<1>1. /\ UNCHANGED <<state, stopped, failures, status, deliveries, act, del, faults, sent, accepted>>
      /\ committed' = m /\ m \in Note /\ m <= Len(Changes)
      /\ inbox' = [c \in Clients |-> IF c \in Live THEN Append(inbox[c], m) ELSE inbox[c]]
      /\ copies' = [copies EXCEPT ![m] = Cardinality(Live)]
  BY DEF Commit, listener, table, WorkerTyped, Note
<1>2. Live' = Live /\ IsFiniteSet(Live) /\ Cardinality(Live) \in Nat
  <2>1. Live \subseteq Open
    BY DEF Live, Open
  <2> QED
    BY <1>1, <2>1, FS_Subset, FS_CardinalityType DEF Live, ListenerInv
<1>3. WorkerTyped'
  <2>1. inbox' \in [Clients -> Seq(Note)]
    BY <1>1 DEF WorkerTyped
  <2>2. IsFiniteSet(Busy)'
    BY <1>1 DEF WorkerTyped, Busy
  <2>3. copies' \in [Note -> Nat] /\ committed' \in 0..Len(Changes)
    BY <1>1, <1>2 DEF WorkerTyped
  <2> QED
    BY <1>1, <2>1, <2>2, <2>3 DEF WorkerTyped
<1>4. ASSUME NEW c \in Live
      PROVE  /\ Len(inbox[c]) + 1 \in DOMAIN inbox'[c] /\ inbox'[c][Len(inbox[c]) + 1] = m
             /\ \A i \in DOMAIN inbox[c] : i \in DOMAIN inbox'[c] /\ inbox'[c][i] = inbox[c][i]
             /\ \A i \in DOMAIN inbox'[c] : i \in DOMAIN inbox[c] \/ i = Len(inbox[c]) + 1
             /\ \A i \in DOMAIN inbox[c] : inbox[c][i] \in Int /\ inbox[c][i] < m
  <2>1. c \in Clients /\ inbox[c] \in Seq(Note) /\ DOMAIN inbox[c] = 1..Len(inbox[c])
    BY InboxFacts DEF Live
  <2>2. inbox'[c] = Append(inbox[c], m)
    BY <1>1, <2>1
  <2>3. Note \subseteq Int /\ committed \in Int /\ \A i \in DOMAIN inbox[c] :
          inbox[c][i] \in Note /\ inbox[c][i] <= committed
    BY <2>1, InboxFacts DEF WorkerTyped, Note
  <2>4. ASSUME NEW i \in DOMAIN inbox[c] PROVE inbox[c][i] \in Int /\ inbox[c][i] < m
    <3>1. inbox[c][i] \in Int /\ inbox[c][i] <= committed /\ committed \in Int
      BY <2>3
    <3> QED
      BY <3>1
  <2> QED
    BY <1>1, <2>1, <2>2, <2>4, AppendFacts
<1>5. InboxesSound'
  <2>1. ASSUME NEW c \in Clients
        PROVE  /\ inbox'[c] # <<>> => c \in Live'
               /\ \A i \in DOMAIN inbox'[c] : inbox'[c][i] <= committed'
               /\ \A i, j \in DOMAIN inbox'[c] : inbox'[c][i] = inbox'[c][j] => i = j
    <3>1. CASE c \notin Live
      <4>1. inbox'[c] = inbox[c] /\ inbox[c] = <<>>
        BY <1>1, <3>1 DEF InboxesSound
      <4>2. DOMAIN inbox[c] = {}
        BY <3>1, InboxFacts
      <4> QED
        BY <4>1, <4>2
    <3>2. CASE c \in Live
      <4>1. m \in Int /\ committed' = m
        BY <1>1 DEF WorkerTyped
      <4>2. ASSUME NEW i \in DOMAIN inbox'[c] PROVE inbox'[c][i] <= committed'
        <5>1. CASE i = Len(inbox[c]) + 1
          BY <1>4, <3>2, <4>1, <5>1
        <5>2. CASE i \in DOMAIN inbox[c]
          <6>1. inbox'[c][i] = inbox[c][i] /\ inbox[c][i] \in Int /\ inbox[c][i] < m
            BY <1>4, <3>2, <5>2
          <6> QED
            BY <4>1, <6>1
        <5> QED
          BY <1>4, <3>2, <5>1, <5>2
      <4>3. \A i, j \in DOMAIN inbox[c] : inbox[c][i] = inbox[c][j] => i = j
        BY DEF InboxesSound
      <4>4. ASSUME NEW i \in DOMAIN inbox'[c], NEW j \in DOMAIN inbox'[c],
                   inbox'[c][i] = inbox'[c][j]
            PROVE  i = j
        <5>1. \A h \in DOMAIN inbox'[c] :
                \/ h = Len(inbox[c]) + 1 /\ inbox'[c][h] = m
                \/ h \in DOMAIN inbox[c] /\ inbox'[c][h] = inbox[c][h] /\ inbox'[c][h] # m
          <6>1. ASSUME NEW h \in DOMAIN inbox[c] PROVE inbox'[c][h] = inbox[c][h] /\ inbox'[c][h] # m
            <7>1. inbox'[c][h] = inbox[c][h] /\ inbox[c][h] \in Int /\ inbox[c][h] < m
              BY <1>4, <3>2, <6>1
            <7> QED
              BY <4>1, <7>1
          <6> QED
            BY <1>4, <3>2, <6>1
        <5> QED
          BY <4>3, <4>4, <5>1
      <4> QED
        BY <1>2, <3>2, <4>2, <4>4
    <3> QED
      BY <3>1, <3>2
  <2> QED
    BY <2>1 DEF InboxesSound
<1>6. StagesAgree' /\ OutcomesTold'
  BY <1>1 DEF StagesAgree, OutcomesTold, LogTellsTheOutcome, Told
<1>7. \A n \in Note : n > committed' => copies'[n] = 0
  BY <1>1 DEF WorkerTyped, Note
<1>8. \A c \in Clients : c \notin Live => inbox'[c] = inbox[c] /\ DOMAIN inbox[c] = {}
  BY <1>1, InboxFacts
<1>9. ASSUME NEW n \in Note
      PROVE  Inboxed(n)' = IF n = m THEN Live ELSE Inboxed(n)
  <2>1. ASSUME NEW c \in Live
        PROVE  (\E i \in DOMAIN inbox'[c] : inbox'[c][i] = n) <=>
                 n = m \/ \E i \in DOMAIN inbox[c] : inbox[c][i] = n
    BY <1>4
  <2>2. Live \subseteq Clients
    BY DEF Live
  <2>3. Inboxed(n)' = {c \in Live : n = m \/ \E i \in DOMAIN inbox[c] : inbox[c][i] = n}
    BY <1>8, <2>1, <2>2 DEF Inboxed
  <2>4. Inboxed(n) \subseteq Live
    BY <1>8 DEF Inboxed
  <2> QED
    BY <2>2, <2>3, <2>4 DEF Inboxed
<1>10. ASSUME NEW e \in Ep, NEW n \in Note PROVE CopiesPaid(e, n)'
  <2>1. Holding(e, n)' = Holding(e, n) /\ Done(e, n)' = Done(e, n)
    BY <1>1, SameTokens DEF SameSlot
  <2>2. CASE n = m
    <3>1. copies[n] = 0
      BY <1>1, <2>2 DEF WorkerTyped
    <3>2. copies'[n] = Cardinality(Inboxed(n)') /\ copies'[n] \in Nat
      BY <1>1, <1>2, <1>9, <2>2 DEF WorkerTyped
    <3> QED
      BY <1>1, <2>1, <3>1, <3>2, PaidCommitted
  <2>3. CASE n # m
    <3>1. copies'[n] = copies[n] /\ sent'[e][n] = sent[e][n]
      BY <1>1, <2>3 DEF WorkerTyped
    <3>2. Done(e, n)' = {p \in Done(e, n) : p[1] \in Holding(e, n)'}
      BY <2>1 DEF Done
    <3>3. Undisturbed' => Undisturbed
      BY <1>1 DEF Undisturbed
    <3> QED
      BY <1>1, <1>9, <2>1, <2>3, <3>1, <3>2, <3>3, PaidKept
  <2> QED
    BY <2>2, <2>3
<1> QED
  BY <1>1, <1>3, <1>5, <1>6, <1>7, <1>10

LEMMA OtherSlots ==
  ASSUME NEW k, \A i \in Slots \ {k} : SameSlot(i), NEW e \in Ep, NEW n \in Note
  PROVE  /\ \A i \in Slots \ {k} : i \in Holding(e, n)' <=> i \in Holding(e, n)
         /\ \A p : p[1] # k => (p \in Done(e, n)' <=> p \in Done(e, n))
<1>1. \A i \in Slots \ {k} : i \in Holding(e, n)' <=> i \in Holding(e, n)
  BY DEF SameSlot, Holding
<1>2. Holding(e, n) \subseteq Slots /\ Holding(e, n)' \subseteq Slots
  BY DEF Holding
<1>3. ASSUME NEW p, p[1] # k PROVE p \in Done(e, n)' <=> p \in Done(e, n)
  <2>1. p \in Holding(e, n)' \X (1..MaxAttempts) <=> p \in Holding(e, n) \X (1..MaxAttempts)
    BY <1>1, <1>2, <1>3
  <2>2. p \in Holding(e, n) \X (1..MaxAttempts) => del'[p[1]] = del[p[1]]
    BY <1>2, <1>3 DEF SameSlot
  <2> QED
    BY <2>1, <2>2 DEF Done, Finished
<1> QED
  BY <1>1, <1>3

\* What a step in one slot may leave out of account.
LEMMA InboxesLeft ==
  ASSUME InboxesSound, UNCHANGED <<inbox, state, committed>>
  PROVE  InboxesSound' /\ \A n \in Note : Inboxed(n)' = Inboxed(n)
BY DEF InboxesSound, Live, Inboxed

LEMMA BusyLess ==
  ASSUME WorkerTyped, \A k \in Slots : act'[k] # NoWork => act[k] # NoWork
  PROVE  IsFiniteSet(Busy)'
<1>1. Busy' \subseteq Busy
  BY DEF Busy
<1> QED
  BY <1>1, FS_Subset DEF WorkerTyped

LEMMA EditEndpointInv ==
  ASSUME ListenerInv, WorkerInv, NEW f \in Ep, EditEndpoint(f)
  PROVE  WorkerInv'
<1> USE DEF WorkerInv
<1>1. /\ UNCHANGED <<state, stopped, failures, committed, inbox, act, del, copies, sent, accepted>>
      /\ faults > 0 /\ faults' = faults - 1
  BY DEF EditEndpoint, Fault, listener, hist
<1>2. PICK s \in {"active", "inactive", "deleted"} :
        /\ status' = [status EXCEPT ![f] = s]
        /\ deliveries' = IF s = "deleted" THEN [deliveries EXCEPT ![f] = [n \in Note |-> <<>>]]
                         ELSE deliveries
  BY DEF EditEndpoint
<1>3. \A e \in Ep, n \in Note : deliveries'[e][n] = deliveries[e][n] \/ deliveries'[e][n] = <<>>
  BY <1>2 DEF WorkerTyped
<1>4. faults' \in 0..MaxFaults /\ faults' # MaxFaults
  BY <1>1 DEF WorkerTyped
<1>5. WorkerTyped'
  <2>1. status' \in [Ep -> {"active", "inactive", "deleted"}]
    BY <1>2 DEF WorkerTyped
  <2>2. deliveries' \in [Ep -> [Note -> Seq(LogRows)]]
    BY <1>2 DEF WorkerTyped
  <2>3. IsFiniteSet(Busy)'
    BY <1>1, BusyLess
  <2> QED
    BY <1>1, <1>4, <2>1, <2>2, <2>3 DEF WorkerTyped
<1>6. InboxesSound' /\ \A n \in Note : Inboxed(n)' = Inboxed(n)
  BY <1>1, InboxesLeft
<1>7. StagesAgree'
  BY <1>1 DEF StagesAgree
<1>8. OutcomesTold'
  <2>1. LogTellsTheOutcome'
    <3>1. ASSUME NEW e \in Ep, NEW n \in Note, NEW i \in DOMAIN deliveries'[e][n]
          PROVE  /\ deliveries'[e][n][i].last = "2xx" => n \in accepted[e]
                 /\ deliveries'[e][n][i].last = "retryable" =>
                      deliveries'[e][n][i].attempts = MaxAttempts
      <4>1. deliveries'[e][n] = deliveries[e][n]
        BY <1>3, <3>1
      <4> QED
        BY <3>1, <4>1 DEF OutcomesTold, LogTellsTheOutcome
    <3> QED
      BY <1>1, <3>1 DEF LogTellsTheOutcome
  <2> QED
    BY <1>1, <2>1 DEF OutcomesTold, Told
<1>9. ASSUME NEW e \in Ep, NEW n \in Note PROVE CopiesPaid(e, n)'
  <2>1. Holding(e, n)' = Holding(e, n) /\ Done(e, n)' = Done(e, n)
    BY <1>1, SameTokens DEF SameSlot
  <2>2. Done(e, n)' = {p \in Done(e, n) : p[1] \in Holding(e, n)'}
    BY <2>1 DEF Done
  <2>3. ~Undisturbed'
    BY <1>4 DEF Undisturbed
  <2> QED
    BY <1>1, <1>3, <1>6, <2>1, <2>2, <2>3, PaidKept
<1> QED
  BY <1>1, <1>4, <1>5, <1>6, <1>7, <1>8, <1>9

LEMMA HandleInv ==
  ASSUME ListenerInv, WorkerInv, NEW c \in Clients, handle(c)
  PROVE  WorkerInv'
<1> USE DEF WorkerInv
<1> DEFINE m == Head(inbox[c])
           v == [stage |-> "loading", note |-> m]
<1>1. /\ UNCHANGED <<state, stopped, failures, committed, status, deliveries, del, faults, copies, sent, accepted>>
      /\ inbox[c] # <<>> /\ inbox' = [inbox EXCEPT ![c] = Tail(inbox[c])]
  BY DEF handle, listener, table, hist
<1>2. PICK k \in Slots : act[k] = NoWork /\ act' = [act EXCEPT ![k] = v]
  BY DEF handle
<1>3. /\ inbox[c] \in Seq(Note) /\ m \in Note /\ m = inbox[c][1]
      /\ 1 \in DOMAIN inbox[c] /\ DOMAIN inbox[c] = 1..Len(inbox[c])
      /\ Tail(inbox[c]) \in Seq(Note)
      /\ \A i \in DOMAIN Tail(inbox[c]) : i + 1 \in 2..Len(inbox[c]) /\ Tail(inbox[c])[i] = inbox[c][i + 1]
      /\ \A i \in 2..Len(inbox[c]) : i - 1 \in DOMAIN Tail(inbox[c]) /\ Tail(inbox[c])[i - 1] = inbox[c][i]
  <2>1. inbox[c] \in Seq(Note) /\ inbox[c] # <<>>
    BY <1>1 DEF WorkerTyped
  <2> QED
    BY <2>1, TailFacts, SeqFacts
<1>4. inbox'[c] = Tail(inbox[c]) /\ \A d \in Clients \ {c} : inbox'[d] = inbox[d]
  BY <1>1 DEF WorkerTyped
<1>5. act'[k] = v /\ \A i \in Slots \ {k} : SameSlot(i)
  BY <1>1, <1>2 DEF WorkerTyped, SameSlot
<1>6. v # NoWork /\ v.stage = "loading" /\ v.note = m /\ v \in Activations
  BY <1>3 DEF NoWork, Activations
<1>7. \A e \in Ep : del[k][e] = NoDelivery
  <2>1. act[k].stage = "free"
    BY <1>2, ActKinds
  <2> QED
    BY <2>1 DEF StagesAgree
<1> HIDE DEF v
<1>8. WorkerTyped'
  <2>1. inbox' \in [Clients -> Seq(Note)]
    BY <1>1, <1>3 DEF WorkerTyped
  <2>2. act' \in [Slots -> Activations]
    BY <1>2, <1>6 DEF WorkerTyped
  <2>3. IsFiniteSet(Busy)'
    <3>1. Busy' \subseteq Busy \cup {k}
      BY <1>5 DEF Busy, SameSlot
    <3>2. IsFiniteSet(Busy \cup {k})
      BY FS_AddElement DEF WorkerTyped
    <3> QED
      BY <3>1, <3>2, FS_Subset
  <2> QED
    BY <1>1, <2>1, <2>2, <2>3 DEF WorkerTyped
<1>9. InboxesSound'
  <2>1. ASSUME NEW d \in Clients
        PROVE  /\ inbox'[d] # <<>> => d \in Live
               /\ \A i \in DOMAIN inbox'[d] : inbox'[d][i] <= committed
               /\ \A i, j \in DOMAIN inbox'[d] : inbox'[d][i] = inbox'[d][j] => i = j
    <3>1. CASE d # c
      BY <1>4, <3>1 DEF InboxesSound
    <3>2. CASE d = c
      <4>1. c \in Live
        BY <1>1 DEF InboxesSound
      <4>2. \A i \in DOMAIN inbox'[c] : i + 1 \in DOMAIN inbox[c] /\ inbox'[c][i] = inbox[c][i + 1]
        BY <1>3, <1>4
      <4>3. \A i \in DOMAIN inbox'[c] : inbox'[c][i] <= committed
        BY <4>2 DEF InboxesSound
      <4>4. ASSUME NEW i \in DOMAIN inbox'[c], NEW j \in DOMAIN inbox'[c],
                   inbox'[c][i] = inbox'[c][j]
            PROVE  i = j
        <5>1. i + 1 = j + 1
          BY <4>2, <4>4 DEF InboxesSound
        <5>2. DOMAIN inbox'[c] = 1..Len(Tail(inbox[c])) /\ Len(Tail(inbox[c])) \in Nat
          <6> DEFINE q == Tail(inbox[c])
          <6>1. q \in Seq(Note) /\ inbox'[c] = q
            BY <1>3, <1>4
          <6> HIDE DEF q
          <6>2. DOMAIN q = 1..Len(q) /\ Len(q) \in Nat
            BY <6>1, SeqFacts
          <6> QED
            BY <6>1, <6>2 DEF q
        <5>3. i \in Nat /\ j \in Nat
          BY <4>4, <5>2
        <5> QED
          BY <5>1, <5>3
      <4> QED
        BY <3>2, <4>1, <4>3, <4>4
    <3> QED
      BY <3>1, <3>2
  <2>2. Live' = Live
    BY <1>1 DEF Live
  <2> QED
    BY <1>1, <2>1, <2>2 DEF InboxesSound
<1>10. ASSUME NEW n \in Note
       PROVE  Inboxed(n)' = (IF n = m THEN Inboxed(n) \ {c} ELSE Inboxed(n))
  <2>1. \A d \in Clients \ {c} : d \in Inboxed(n)' <=> d \in Inboxed(n)
    BY <1>4 DEF Inboxed
  <2>2. c \in Inboxed(n)' <=> \E i \in 2..Len(inbox[c]) : inbox[c][i] = n
    <3> DEFINE q == Tail(inbox[c])
    <3>1. c \in Inboxed(n)' <=> \E i \in DOMAIN q : q[i] = n
      BY <1>4 DEF Inboxed
    <3>2. ASSUME NEW i \in DOMAIN q, q[i] = n
          PROVE  \E j \in 2..Len(inbox[c]) : inbox[c][j] = n
      <4>1. i + 1 \in 2..Len(inbox[c]) /\ inbox[c][i + 1] = n
        BY <1>3, <3>2
      <4> QED
        BY <4>1
    <3>3. ASSUME NEW i \in 2..Len(inbox[c]), inbox[c][i] = n
          PROVE  \E j \in DOMAIN q : q[j] = n
      <4>1. i - 1 \in DOMAIN q /\ q[i - 1] = n
        BY <1>3, <3>3
      <4> QED
        BY <4>1
    <3> QED
      BY <3>1, <3>2, <3>3
  <2>3. \A i \in 2..Len(inbox[c]) : i \in DOMAIN inbox[c] /\ i # 1
    BY <1>3
  <2>4. CASE n = m
    <3>1. \A i \in 2..Len(inbox[c]) : inbox[c][i] # m
      <4>1. \A i \in DOMAIN inbox[c] : inbox[c][i] = inbox[c][1] => i = 1
        BY <1>3 DEF InboxesSound
      <4> QED
        BY <1>3, <2>3, <4>1
    <3>2. c \notin Inboxed(n)'
      BY <2>2, <2>4, <3>1
    <3> QED
      BY <2>1, <2>4, <3>2 DEF Inboxed
  <2>5. CASE n # m
    <3>1. \A i \in DOMAIN inbox[c] : inbox[c][i] = n => i \in 2..Len(inbox[c])
      BY <1>3, <2>5
    <3>2. c \in Inboxed(n)' <=> c \in Inboxed(n)
      BY <2>2, <2>3, <3>1 DEF Inboxed
    <3> QED
      BY <2>1, <2>5, <3>2 DEF Inboxed
  <2> QED
    BY <2>4, <2>5
<1>11. StagesAgree'
  BY <1>1, <1>5, <1>6, <1>7 DEF StagesAgree, SameSlot
<1>12. OutcomesTold'
  <2>1. \A i \in Slots, e \in Ep : del[i][e].stage = "recording" => i # k
    BY <1>7 DEF NoDelivery
  <2> QED
    BY <1>1, <1>5, <2>1 DEF OutcomesTold, LogTellsTheOutcome, Told, SameSlot
<1>13. ASSUME NEW e \in Ep, NEW n \in Note PROVE CopiesPaid(e, n)'
  <2>1. k \notin Holding(e, n)
    BY <1>2 DEF Holding
  <2>2. Holding(e, n)' = (IF n = m THEN Holding(e, n) \cup {k} ELSE Holding(e, n))
    <3>1. k \in Holding(e, n)' <=> n = m
      BY <1>5, <1>6 DEF Holding
    <3>2. Holding(e, n) \subseteq Slots /\ Holding(e, n)' \subseteq Slots
      BY DEF Holding
    <3>3. \A i \in Slots \ {k} : i \in Holding(e, n)' <=> i \in Holding(e, n)
      BY <1>5, OtherSlots
    <3>4. CASE n = m
      <4>1. \A i \in Slots : i \in Holding(e, n)' <=> i \in Holding(e, n) \/ i = k
        BY <3>1, <3>3, <3>4
      <4> QED
        BY <1>2, <3>2, <3>4, <4>1
    <3>5. CASE n # m
      <4>1. \A i \in Slots : i \in Holding(e, n)' <=> i \in Holding(e, n)
        BY <2>1, <3>1, <3>3, <3>5
      <4> QED
        BY <3>2, <3>5, <4>1
    <3> QED
      BY <3>4, <3>5
  <2>3. Done(e, n)' = Done(e, n)
    <3>1. ASSUME NEW p, p[1] = k PROVE p \notin Done(e, n)' /\ p \notin Done(e, n)
      BY <1>1, <1>7, <3>1 DEF Done
    <3>2. \A p : p \in Done(e, n)' <=> p \in Done(e, n)
      BY <1>5, <3>1, OtherSlots
    <3> QED
      BY <3>2
  <2>4. Undisturbed' => Undisturbed
    BY <1>1 DEF Undisturbed
  <2>5. CASE n = m
    <3>1. c \in Inboxed(n)
      BY <1>3, <2>5 DEF Inboxed
    <3> QED
      BY <1>1, <1>10, <2>1, <2>2, <2>3, <2>4, <2>5, <3>1, PaidMoved
  <2>6. CASE n # m
    <3>1. Done(e, n)' = {p \in Done(e, n) : p[1] \in Holding(e, n)'}
      BY <2>2, <2>3, <2>6 DEF Done
    <3> QED
      BY <1>1, <1>10, <2>2, <2>4, <2>6, <3>1, PaidKept
  <2> QED
    BY <2>5, <2>6
<1> QED
  BY <1>1, <1>8, <1>9, <1>11, <1>12, <1>13

\* What slot k holds, and the attempts made there.
LEMMA SlotAccount ==
  ASSUME NEW k \in Slots, NEW e \in Ep, NEW n \in Note
  PROVE  /\ k \in Holding(e, n) <=>
              /\ act[k] # NoWork /\ act[k].note = n
              /\ act[k].stage = "loading" \/ del[k][e] # NoDelivery
         /\ k \in Holding(e, n)' <=>
              /\ act'[k] # NoWork /\ act'[k].note = n
              /\ act'[k].stage = "loading" \/ del'[k][e] # NoDelivery
         /\ \A a : <<k, a>> \in Done(e, n) <=>
              /\ k \in Holding(e, n) /\ a \in 1..MaxAttempts
              /\ del[k][e] # NoDelivery /\ a <= Finished(del[k][e])
         /\ \A a : <<k, a>> \in Done(e, n)' <=>
              /\ k \in Holding(e, n)' /\ a \in 1..MaxAttempts
              /\ del'[k][e] # NoDelivery /\ a <= Finished(del'[k][e])
<1>1. /\ k \in Holding(e, n) <=>
            /\ act[k] # NoWork /\ act[k].note = n
            /\ act[k].stage = "loading" \/ del[k][e] # NoDelivery
      /\ k \in Holding(e, n)' <=>
            /\ act'[k] # NoWork /\ act'[k].note = n
            /\ act'[k].stage = "loading" \/ del'[k][e] # NoDelivery
  BY DEF Holding
<1>2. \A a : <<k, a>> \in Done(e, n) <=>
            /\ k \in Holding(e, n) /\ a \in 1..MaxAttempts
            /\ del[k][e] # NoDelivery /\ a <= Finished(del[k][e])
  BY DEF Done
<1>3. \A a : <<k, a>> \in Done(e, n)' <=>
            /\ k \in Holding(e, n)' /\ a \in 1..MaxAttempts
            /\ del'[k][e] # NoDelivery /\ a <= Finished(del'[k][e])
  BY DEF Done, Finished
<1> QED
  BY <1>1, <1>2, <1>3

\* A step in one slot, seen from the accounts: which tokens and which attempts
\* there are after it depends on that slot alone.
LEMMA SlotMoves ==
  ASSUME NEW k \in Slots, \A i \in Slots \ {k} : SameSlot(i), NEW e \in Ep, NEW n \in Note
  PROVE  /\ (k \in Holding(e, n)' <=> k \in Holding(e, n)) => Holding(e, n)' = Holding(e, n)
         /\ k \notin Holding(e, n)' => Holding(e, n)' = Holding(e, n) \ {k}
         /\ \A p \in Done(e, n) \cup Done(e, n)' :
              p = <<p[1], p[2]>> /\ p[1] \in Slots /\ p[2] \in 1..MaxAttempts
         /\ \A p : p[1] # k => (p \in Done(e, n)' <=> p \in Done(e, n))
<1>1. /\ \A i \in Slots \ {k} : i \in Holding(e, n)' <=> i \in Holding(e, n)
      /\ \A p : p[1] # k => (p \in Done(e, n)' <=> p \in Done(e, n))
  BY OtherSlots
<1>2. Holding(e, n) \subseteq Slots /\ Holding(e, n)' \subseteq Slots
  BY DEF Holding
<1>3. (k \in Holding(e, n)' <=> k \in Holding(e, n)) => Holding(e, n)' = Holding(e, n)
  <2>1. (k \in Holding(e, n)' <=> k \in Holding(e, n)) =>
          \A i \in Slots : i \in Holding(e, n)' <=> i \in Holding(e, n)
    BY <1>1
  <2> QED
    BY <1>2, <2>1
<1>4. k \notin Holding(e, n)' => Holding(e, n)' = Holding(e, n) \ {k}
  <2>1. k \notin Holding(e, n)' =>
          \A i \in Slots : i \in Holding(e, n)' <=> i \in Holding(e, n) \ {k}
    BY <1>1
  <2> QED
    BY <1>2, <2>1
<1>5. ASSUME NEW p \in Done(e, n) \cup Done(e, n)'
      PROVE  p = <<p[1], p[2]>> /\ p[1] \in Slots /\ p[2] \in 1..MaxAttempts
  <2>1. p \in Holding(e, n) \X (1..MaxAttempts) \/ p \in Holding(e, n)' \X (1..MaxAttempts)
    BY <1>5 DEF Done
  <2>2. p \in Slots \X (1..MaxAttempts)
    BY <1>2, <2>1
  <2> QED
    BY <2>2
<1> QED
  BY <1>1, <1>3, <1>4, <1>5

\* An account whose token in slot k a step leaves or takes away.
LEMMA PaidSlot ==
  ASSUME ListenerInv, WorkerInv, NEW k \in Slots, \A i \in Slots \ {k} : SameSlot(i),
         NEW e \in Ep, NEW n \in Note,
         Inboxed(n)' = Inboxed(n), sent'[e][n] = sent[e][n], copies'[n] = copies[n],
         deliveries'[e][n] = deliveries[e][n],
         k \in Holding(e, n)' => k \in Holding(e, n),
         \A a \in 1..MaxAttempts :
           <<k, a>> \in Done(e, n)' <=> <<k, a>> \in Done(e, n) /\ k \in Holding(e, n)',
         Undisturbed' /\ matchEndpoint(e, n) =>
           Undisturbed /\ (k \in Holding(e, n) => k \in Holding(e, n)')
  PROVE  CopiesPaid(e, n)'
<1>1. /\ (k \in Holding(e, n)' <=> k \in Holding(e, n)) => Holding(e, n)' = Holding(e, n)
      /\ k \notin Holding(e, n)' => Holding(e, n)' = Holding(e, n) \ {k}
      /\ \A p \in Done(e, n) \cup Done(e, n)' :
           p = <<p[1], p[2]>> /\ p[1] \in Slots /\ p[2] \in 1..MaxAttempts
      /\ \A p : p[1] # k => (p \in Done(e, n)' <=> p \in Done(e, n))
  BY SlotMoves
<1>2. Holding(e, n)' \subseteq Holding(e, n)
  BY <1>1
<1>3. Done(e, n)' = {p \in Done(e, n) : p[1] \in Holding(e, n)'}
  <2>1. \A p \in Done(e, n)' : p[1] \in Holding(e, n)'
    BY DEF Done
  <2>2. \A p \in Done(e, n)' : p \in Done(e, n)
    BY <1>1
  <2>3. \A p \in Done(e, n) : p[1] \in Holding(e, n)' => p \in Done(e, n)'
    BY <1>1
  <2> QED
    BY <2>1, <2>2, <2>3
<1>4. Undisturbed' /\ matchEndpoint(e, n) => Undisturbed /\ Holding(e, n)' = Holding(e, n)
  BY <1>1
<1> QED
  BY <1>2, <1>3, <1>4, PaidKept

\* What no step in a slot touches.
LEMMA SlotStepRest ==
  ASSUME ListenerInv, WorkerInv, UNCHANGED <<listener, committed, inbox>>
  PROVE  /\ UNCHANGED <<state, stopped, failures>>
         /\ InboxesSound' /\ \A n \in Note : Inboxed(n)' = Inboxed(n)
<1>1. UNCHANGED <<state, stopped, failures>>
  BY DEF listener
<1> QED
  BY <1>1, InboxesLeft DEF WorkerInv

LEMMA LoadInv ==
  ASSUME ListenerInv, WorkerInv, NEW k \in Slots, Load(k)
  PROVE  WorkerInv'
<1> USE DEF WorkerInv
<1> DEFINE n0 == act[k].note
           matches == {e \in Ep : status[e] = "active" /\ matchEndpoint(e, n0)}
           v == [stage |-> "posting", attempt |-> 1]
           w == [stage |-> "delivering", note |-> n0]
<1>1. /\ UNCHANGED <<state, stopped, failures, committed, inbox, status, deliveries, faults, copies, sent, accepted>>
      /\ InboxesSound' /\ \A n \in Note : Inboxed(n)' = Inboxed(n)
  <2>1. UNCHANGED <<listener, committed, inbox>> /\ UNCHANGED <<table, faults, hist>>
    BY DEF Load
  <2> QED
    BY <2>1, SlotStepRest DEF table, hist
<1>2. /\ act[k].stage = "loading" /\ act[k] # NoWork /\ n0 \in Note
      /\ \A e \in Ep : del[k][e] = NoDelivery
  <2>1. act[k].stage = "loading"
    BY DEF Load
  <2>2. act[k] # NoWork /\ n0 \in Note
    BY <2>1, ActKinds
  <2>3. \A e \in Ep : del[k][e] = NoDelivery
    BY <2>1 DEF StagesAgree
  <2> QED
    BY <2>1, <2>2, <2>3
<1>3. /\ del'[k] = [e \in Ep |-> IF e \in matches THEN v ELSE NoDelivery]
      /\ act'[k] = (IF matches = {} THEN NoWork ELSE w)
      /\ \A i \in Slots \ {k} : SameSlot(i)
      /\ del' = [del EXCEPT ![k] = [e \in Ep |-> IF e \in matches THEN v ELSE NoDelivery]]
      /\ act' = [act EXCEPT ![k] = IF matches = {} THEN NoWork ELSE w]
  BY DEF Load, WorkerTyped, SameSlot
<1>4. /\ v \in DeliveryStates /\ v # NoDelivery /\ v.stage = "posting" /\ Finished(v) = 0
      /\ w \in Activations /\ w # NoWork /\ w.stage = "delivering" /\ w.note = n0
  <2>1. 1 \in 1..MaxAttempts
    BY AttemptsAssumption
  <2> QED
    BY <1>2, <2>1 DEF DeliveryStates, NoDelivery, Finished, Activations, NoWork
<1> HIDE DEF v, w
<1>5. WorkerTyped'
  <2>1. del' \in [Slots -> [Ep -> DeliveryStates]]
    <3>1. NoDelivery \in DeliveryStates
      BY DEF DeliveryStates
    <3>2. [e \in Ep |-> IF e \in matches THEN v ELSE NoDelivery] \in [Ep -> DeliveryStates]
      BY <1>4, <3>1
    <3> QED
      BY <1>3, <3>2 DEF WorkerTyped
  <2>2. act' \in [Slots -> Activations]
    <3>1. NoWork \in Activations
      BY DEF Activations
    <3> QED
      BY <1>3, <1>4, <3>1 DEF WorkerTyped
  <2>3. IsFiniteSet(Busy)'
    BY <1>2, <1>3, BusyLess DEF SameSlot
  <2> QED
    BY <1>1, <2>1, <2>2, <2>3 DEF WorkerTyped
<1>6. /\ NoWork.stage = "free"
      /\ \A e \in Ep : del'[k][e] # NoDelivery <=> e \in matches
      /\ \A e \in Ep : del'[k][e] # NoDelivery => del'[k][e] = v
  BY <1>3, <1>4 DEF NoWork
<1>7. StagesAgree'
  <2>1. act'[k].stage = "delivering" <=> \E e \in Ep : del'[k][e] # NoDelivery
    BY <1>3, <1>4, <1>6
  <2> QED
    BY <1>3, <2>1 DEF StagesAgree, SameSlot
<1>8. OutcomesTold'
  <2>1. \A e \in Ep : del'[k][e].stage # "recording"
    BY <1>3, <1>4 DEF NoDelivery
  <2> QED
    BY <1>1, <1>3, <2>1 DEF OutcomesTold, LogTellsTheOutcome, Told, SameSlot
<1>9. ASSUME NEW e \in Ep, NEW n \in Note PROVE CopiesPaid(e, n)'
  <2>1. k \in Holding(e, n) <=> n = n0
    BY <1>2, SlotAccount
  <2>2. k \in Holding(e, n)' <=> n = n0 /\ e \in matches
    BY <1>3, <1>4, <1>6, SlotAccount
  <2>3. \A a \in 1..MaxAttempts : <<k, a>> \notin Done(e, n)
    BY <1>2, SlotAccount
  <2>4. \A a \in 1..MaxAttempts : <<k, a>> \notin Done(e, n)'
    <3>1. del'[k][e] # NoDelivery => Finished(del'[k][e]) = 0
      BY <1>4, <1>6
    <3>2. \A a \in 1..MaxAttempts : <<k, a>> \in Done(e, n)' => del'[k][e] # NoDelivery /\ a <= Finished(del'[k][e])
      BY SlotAccount
    <3> QED
      BY <3>1, <3>2, AttemptsAssumption
  <2>5. Undisturbed' /\ matchEndpoint(e, n) => Undisturbed /\ (n = n0 => e \in matches)
    BY <1>1 DEF Undisturbed
  <2> HIDE DEF n0, matches
  <2>6. /\ k \in Holding(e, n)' => k \in Holding(e, n)
        /\ Undisturbed' /\ matchEndpoint(e, n) =>
             Undisturbed /\ (k \in Holding(e, n) => k \in Holding(e, n)')
    BY <2>1, <2>2, <2>5
  <2>7. /\ sent'[e][n] = sent[e][n] /\ copies'[n] = copies[n]
        /\ deliveries'[e][n] = deliveries[e][n] /\ Inboxed(n)' = Inboxed(n)
    BY <1>1
  <2> QED
    BY <1>3, <2>3, <2>4, <2>6, <2>7, PaidSlot
<1> QED
  BY <1>1, <1>5, <1>7, <1>8, <1>9

LEMMA LoadFailsInv ==
  ASSUME ListenerInv, WorkerInv, NEW k \in Slots, LoadFails(k)
  PROVE  WorkerInv'
<1> USE DEF WorkerInv
<1>1. /\ UNCHANGED <<state, stopped, failures, committed, inbox, status, deliveries, del, copies, sent, accepted>>
      /\ InboxesSound' /\ \A n \in Note : Inboxed(n)' = Inboxed(n)
      /\ faults' \in 0..MaxFaults /\ faults' # MaxFaults
  <2>1. /\ UNCHANGED <<listener, committed, inbox>> /\ UNCHANGED <<table, del, hist>>
        /\ faults > 0 /\ faults' = faults - 1
    BY DEF LoadFails, Fault
  <2>2. faults \in 0..MaxFaults /\ MaxFaults \in Nat
    BY FaultsAssumption DEF WorkerTyped
  <2> QED
    BY <2>1, <2>2, SlotStepRest DEF table, hist
<1>2. act[k] # NoWork /\ \A e \in Ep : del[k][e] = NoDelivery
  <2>1. act[k].stage = "loading"
    BY DEF LoadFails
  <2> QED
    BY <2>1, ActKinds DEF StagesAgree
<1>3. /\ act'[k] = NoWork /\ del'[k] = del[k] /\ \A i \in Slots \ {k} : SameSlot(i)
      /\ act' = [act EXCEPT ![k] = NoWork]
  BY <1>1 DEF LoadFails, WorkerTyped, SameSlot
<1>4. WorkerTyped'
  <2>1. act' \in [Slots -> Activations]
    BY <1>3 DEF WorkerTyped, Activations
  <2>2. IsFiniteSet(Busy)'
    BY <1>2, <1>3, BusyLess DEF SameSlot
  <2> QED
    BY <1>1, <2>1, <2>2 DEF WorkerTyped
<1>5. StagesAgree'
  <2>1. act'[k].stage = "free"
    BY <1>3 DEF NoWork
  <2> QED
    BY <1>1, <1>2, <1>3, <2>1 DEF StagesAgree, SameSlot
<1>6. OutcomesTold'
  <2>1. \A e \in Ep : del[k][e].stage # "recording"
    BY <1>2 DEF NoDelivery
  <2> QED
    BY <1>1, <1>3, <2>1 DEF OutcomesTold, LogTellsTheOutcome, Told, SameSlot
<1>7. ASSUME NEW e \in Ep, NEW n \in Note PROVE CopiesPaid(e, n)'
  <2>1. /\ k \notin Holding(e, n)'
        /\ \A a \in 1..MaxAttempts : <<k, a>> \notin Done(e, n)' /\ <<k, a>> \notin Done(e, n)
    BY <1>2, <1>3, SlotAccount
  <2>2. ~Undisturbed'
    BY <1>1 DEF Undisturbed
  <2>3. /\ sent'[e][n] = sent[e][n] /\ copies'[n] = copies[n]
        /\ deliveries'[e][n] = deliveries[e][n] /\ Inboxed(n)' = Inboxed(n)
    BY <1>1
  <2> QED
    BY <1>3, <2>1, <2>2, <2>3, PaidSlot
<1> QED
  BY <1>1, <1>4, <1>5, <1>6, <1>7

LEMMA WakeInv ==
  ASSUME ListenerInv, WorkerInv, NEW k \in Slots, NEW f \in Ep, Wake(k, f)
  PROVE  WorkerInv'
<1> USE DEF WorkerInv
<1> DEFINE d == del[k][f]
           v == [d EXCEPT !.stage = "posting"]
<1>1. /\ UNCHANGED <<state, stopped, failures, committed, inbox, status, deliveries, act, faults, copies, sent, accepted>>
      /\ InboxesSound' /\ \A n \in Note : Inboxed(n)' = Inboxed(n)
  <2>1. UNCHANGED <<listener, committed, inbox>> /\ UNCHANGED <<table, act, faults, hist>>
    BY DEF Wake
  <2> QED
    BY <2>1, SlotStepRest DEF table, hist
<1>2. d.stage = "waiting" /\ d \in DeliveryStates /\ d # NoDelivery
  BY DEF Wake, WorkerTyped, NoDelivery
<1>3. /\ v \in DeliveryStates /\ v.stage = "posting" /\ v # NoDelivery /\ v.attempt = d.attempt
      /\ Finished(v) = Finished(d)
  <2>1. d \in [stage : {"posting", "waiting"}, attempt : 1..MaxAttempts]
    BY <1>2 DEF DeliveryStates, NoDelivery
  <2> HIDE DEF d
  <2>2. v = [stage |-> "posting", attempt |-> d.attempt] /\ d.attempt \in 1..MaxAttempts
    BY <2>1
  <2> HIDE DEF v
  <2> QED
    BY <1>2, <2>2 DEF DeliveryStates, NoDelivery, Finished
<1>4. /\ del' = [del EXCEPT ![k] = [del[k] EXCEPT ![f] = v]]
      /\ del'[k][f] = v /\ \A e \in Ep \ {f} : del'[k][e] = del[k][e]
      /\ \A i \in Slots \ {k} : SameSlot(i)
  BY <1>1 DEF Wake, WorkerTyped, SameSlot
<1> HIDE DEF d, v
<1>5. WorkerTyped'
  <2>1. del' \in [Slots -> [Ep -> DeliveryStates]]
    BY <1>3, <1>4 DEF WorkerTyped
  <2>2. IsFiniteSet(Busy)'
    BY <1>1, BusyLess
  <2> QED
    BY <1>1, <2>1, <2>2 DEF WorkerTyped
<1>6. \A e \in Ep : /\ del'[k][e] # NoDelivery <=> del[k][e] # NoDelivery
                    /\ Finished(del'[k][e]) = Finished(del[k][e])
                    /\ del'[k][e].stage = "recording" => del'[k][e] = del[k][e]
  BY <1>2, <1>3, <1>4 DEF d
<1>7. StagesAgree'
  BY <1>1, <1>4, <1>6 DEF StagesAgree, SameSlot
<1>8. OutcomesTold'
  BY <1>1, <1>4, <1>6 DEF OutcomesTold, LogTellsTheOutcome, Told, SameSlot
<1>9. ASSUME NEW e \in Ep, NEW n \in Note PROVE CopiesPaid(e, n)'
  <2>1. k \in Holding(e, n)' <=> k \in Holding(e, n)
    BY <1>1, <1>6, SlotAccount
  <2>2. \A a \in 1..MaxAttempts : <<k, a>> \in Done(e, n)' <=> <<k, a>> \in Done(e, n) /\ k \in Holding(e, n)'
    BY <1>6, <2>1, SlotAccount
  <2>3. Undisturbed' => Undisturbed
    BY <1>1 DEF Undisturbed
  <2>4. /\ sent'[e][n] = sent[e][n] /\ copies'[n] = copies[n]
        /\ deliveries'[e][n] = deliveries[e][n] /\ Inboxed(n)' = Inboxed(n)
    BY <1>1
  <2> QED
    BY <1>4, <2>1, <2>2, <2>3, <2>4, PaidSlot
<1> QED
  BY <1>1, <1>5, <1>7, <1>8, <1>9

LEMMA AttemptInv ==
  ASSUME ListenerInv, WorkerInv, NEW k \in Slots, NEW f \in Ep, Attempt(k, f)
  PROVE  WorkerInv'
<1> USE DEF WorkerInv
<1> DEFINE n0 == act[k].note
           d == del[k][f]
           again == [stage |-> "waiting", attempt |-> d.attempt + 1]
           over(r) == [stage |-> "recording", attempt |-> d.attempt, last |-> r]
<1>1. /\ UNCHANGED <<state, stopped, failures, committed, inbox, status, deliveries, act, faults, copies>>
      /\ InboxesSound' /\ \A n \in Note : Inboxed(n)' = Inboxed(n)
      /\ sent' = [sent EXCEPT ![f][n0] = sent[f][n0] + 1]
  <2>1. UNCHANGED <<listener, committed, inbox>> /\ UNCHANGED <<table, act, faults, copies>>
    BY DEF Attempt
  <2>2. sent' = [sent EXCEPT ![f][n0] = sent[f][n0] + 1]
    BY DEF Attempt
  <2> QED
    BY <2>1, <2>2, SlotStepRest DEF table
<1>2. PICK r \in Results, taken \in BOOLEAN :
        /\ r = "2xx" => taken
        /\ accepted' = IF taken THEN [accepted EXCEPT ![f] = @ \cup {n0}] ELSE accepted
        /\ del' = [del EXCEPT ![k][f] = IF shouldRetry(r, d.attempt) THEN again ELSE over(r)]
  BY DEF Attempt
<1> DEFINE v == IF shouldRetry(r, d.attempt) THEN again ELSE over(r)
<1>3. d.stage = "posting" /\ d # NoDelivery /\ d.attempt \in 1..MaxAttempts
  BY DelKinds DEF Attempt, NoDelivery
<1>4. act[k].stage = "delivering" /\ act[k] # NoWork /\ n0 \in Note
  <2>1. act[k].stage = "delivering"
    BY <1>3 DEF StagesAgree
  <2> QED
    BY <2>1, ActKinds
<1>5. /\ v \in DeliveryStates /\ v # NoDelivery /\ Finished(v) = d.attempt
      /\ v.stage = "recording" => v.last = r /\ v.attempt = d.attempt /\ ~shouldRetry(r, d.attempt)
  <2>1. CASE shouldRetry(r, d.attempt)
    <3>1. v = again /\ d.attempt + 1 \in 1..MaxAttempts
      BY <1>3, <2>1, AttemptsAssumption DEF shouldRetry
    <3> QED
      BY <1>3, <3>1 DEF DeliveryStates, NoDelivery, Finished
  <2>2. CASE ~shouldRetry(r, d.attempt)
    <3>1. v = over(r)
      BY <2>2
    <3> QED
      BY <1>3, <2>2, <3>1 DEF DeliveryStates, NoDelivery, Finished
  <2> QED
    BY <2>1, <2>2
<1>6. /\ del' = [del EXCEPT ![k] = [del[k] EXCEPT ![f] = v]]
      /\ del'[k][f] = v /\ \A e \in Ep \ {f} : del'[k][e] = del[k][e]
      /\ \A i \in Slots \ {k} : SameSlot(i)
  BY <1>1, <1>2 DEF WorkerTyped, SameSlot
<1> HIDE DEF v
<1>7. WorkerTyped'
  <2>1. del' \in [Slots -> [Ep -> DeliveryStates]]
    BY <1>5, <1>6 DEF WorkerTyped
  <2>2. IsFiniteSet(Busy)'
    BY <1>1, BusyLess
  <2>3. sent' \in [Ep -> [Note -> Nat]]
    BY <1>1, <1>4 DEF WorkerTyped
  <2>4. accepted' \in [Ep -> SUBSET Note]
    BY <1>2, <1>4 DEF WorkerTyped
  <2> QED
    BY <1>1, <2>1, <2>2, <2>3, <2>4 DEF WorkerTyped
<1>8. StagesAgree'
  <2>1. act'[k].stage = "delivering" /\ del'[k][f] # NoDelivery
    BY <1>1, <1>4, <1>5, <1>6
  <2> QED
    BY <1>6, <2>1 DEF StagesAgree, SameSlot
<1>9. /\ \A e \in Ep : accepted[e] \subseteq accepted'[e]
      /\ r = "2xx" => n0 \in accepted'[f]
  BY <1>2 DEF WorkerTyped
<1>10. OutcomesTold'
  <2>1. v.stage = "recording" => /\ v.last = "2xx" => n0 \in accepted'[f]
                                 /\ v.last = "retryable" => v.attempt = MaxAttempts
    <3>1. r = "retryable" /\ ~shouldRetry(r, d.attempt) => d.attempt = MaxAttempts
      BY <1>3, AttemptsAssumption DEF shouldRetry
    <3> QED
      BY <1>5, <1>9, <3>1
  <2>2. ASSUME NEW i \in Slots, NEW e \in Ep, del'[i][e].stage = "recording"
        PROVE  /\ del'[i][e].last = "2xx" => act[i].note \in accepted'[e]
               /\ del'[i][e].last = "retryable" => del'[i][e].attempt = MaxAttempts
    <3>1. CASE i = k /\ e = f
      BY <1>6, <2>1, <2>2, <3>1
    <3>2. CASE ~(i = k /\ e = f)
      <4>1. del'[i][e] = del[i][e]
        BY <1>6, <3>2 DEF SameSlot
      <4> QED
        BY <1>9, <2>2, <4>1 DEF OutcomesTold, Told
    <3> QED
      BY <3>1, <3>2
  <2>3. LogTellsTheOutcome'
    BY <1>1, <1>9 DEF OutcomesTold, LogTellsTheOutcome
  <2> QED
    BY <1>1, <2>2, <2>3 DEF OutcomesTold, Told
<1>11. ASSUME NEW e \in Ep, NEW n \in Note
       PROVE  /\ k \in Holding(e, n)' <=> k \in Holding(e, n)
              /\ e # f \/ n # n0 =>
                   \A a : <<k, a>> \in Done(e, n)' <=> <<k, a>> \in Done(e, n)
  <2>1. del'[k][e] # NoDelivery <=> del[k][e] # NoDelivery
    BY <1>3, <1>5, <1>6
  <2>2. k \in Holding(e, n)' <=> k \in Holding(e, n)
    BY <1>1, <2>1, SlotAccount
  <2>3. CASE n # n0
    <3>1. k \notin Holding(e, n) /\ k \notin Holding(e, n)'
      BY <1>1, <2>2, <2>3, SlotAccount
    <3> QED
      BY <2>2, <3>1, SlotAccount
  <2>4. CASE e # f
    <3>1. del'[k][e] = del[k][e]
      BY <1>6, <2>4
    <3> QED
      BY <2>2, <3>1, SlotAccount
  <2> QED
    BY <2>2, <2>3, <2>4
<1>12. ASSUME NEW n \in Note, n = n0 PROVE CopiesPaid(f, n)'
  <2> DEFINE x == <<k, d.attempt>>
  <2>1. Holding(f, n)' = Holding(f, n)
    BY <1>4, <1>12, <1>6, <1>11, SlotMoves
  <2>2. k \in Holding(f, n)
    BY <1>3, <1>4, <1>12, SlotAccount
  <2>3. Finished(d) = d.attempt - 1
    BY <1>3 DEF Finished
  <2>4. x \notin Done(f, n)
    <3>1. ~(d.attempt <= Finished(d))
      BY <1>3, <2>3
    <3> QED
      BY <1>4, <1>12, <3>1, SlotAccount
  <2>5. Done(f, n)' = Done(f, n) \cup {x}
    <3>1. \A a : <<k, a>> \in Done(f, n)' <=> a \in 1..MaxAttempts /\ a <= d.attempt
      BY <1>4, <1>12, <1>5, <1>6, <1>11, <2>2, SlotAccount
    <3>2. \A a : <<k, a>> \in Done(f, n) <=> a \in 1..MaxAttempts /\ a <= d.attempt - 1
      BY <1>3, <1>4, <1>12, <2>2, <2>3, SlotAccount
    <3>3. \A a \in 1..MaxAttempts : a <= d.attempt <=> a <= d.attempt - 1 \/ a = d.attempt
      BY <1>3
    <3>4. \A a : <<k, a>> \in Done(f, n)' <=> <<k, a>> \in Done(f, n) \/ a = d.attempt
      BY <1>3, <3>1, <3>2, <3>3
    <3>5. /\ \A p \in Done(f, n) \cup Done(f, n)' : p = <<p[1], p[2]>>
          /\ \A p : p[1] # k => (p \in Done(f, n)' <=> p \in Done(f, n))
      BY <1>4, <1>12, <1>6, SlotMoves
    <3>6. \A p \in Done(f, n)' : p \in Done(f, n) \cup {x}
      BY <3>4, <3>5
    <3>7. \A p \in Done(f, n) : p \in Done(f, n)'
      BY <3>4, <3>5
    <3>8. x \in Done(f, n)'
      BY <3>4
    <3> QED
      BY <3>6, <3>7, <3>8
  <2>6. sent'[f][n] = sent[f][n] + 1
    BY <1>1, <1>4, <1>12 DEF WorkerTyped
  <2>7. Undisturbed' => Undisturbed
    BY <1>1 DEF Undisturbed
  <2>8. Inboxed(n)' = Inboxed(n) /\ UNCHANGED <<copies, deliveries>>
    BY <1>1
  <2> HIDE DEF x, n0
  <2> QED
    BY <2>1, <2>4, <2>5, <2>6, <2>7, <2>8, PaidPosted
<1>13. ASSUME NEW e \in Ep, NEW n \in Note, e # f \/ n # n0 PROVE CopiesPaid(e, n)'
  <2>1. /\ k \in Holding(e, n)' <=> k \in Holding(e, n)
        /\ \A a : <<k, a>> \in Done(e, n)' <=> <<k, a>> \in Done(e, n)
    BY <1>11, <1>13
  <2>2. \A a : <<k, a>> \in Done(e, n) => k \in Holding(e, n)
    BY SlotAccount
  <2>3. Undisturbed' => Undisturbed
    BY <1>1 DEF Undisturbed
  <2>4. sent'[e][n] = sent[e][n]
    BY <1>1, <1>4, <1>13 DEF WorkerTyped
  <2>5. copies'[n] = copies[n] /\ deliveries'[e][n] = deliveries[e][n] /\ Inboxed(n)' = Inboxed(n)
    BY <1>1
  <2> QED
    BY <1>6, <2>1, <2>2, <2>3, <2>4, <2>5, PaidSlot
<1>14. \A e \in Ep, n \in Note : CopiesPaid(e, n)'
  BY <1>12, <1>13
<1> QED
  BY <1>1, <1>7, <1>8, <1>10, <1>14

\* A delivery is over: its token and its attempts leave the slot, and those of
\* the slot's other deliveries stay, whether handle() returns or not.
LEMMA ReturnedFacts ==
  ASSUME WorkerTyped, StagesAgree, NEW k \in Slots, NEW f \in Ep,
         del[k][f].stage = "recording", Returned(k, f)
  PROVE  /\ act[k] # NoWork /\ act[k].note \in Note /\ del[k][f] # NoDelivery
         /\ \A i \in Slots \ {k} : SameSlot(i)
         /\ act' \in [Slots -> Activations] /\ del' \in [Slots -> [Ep -> DeliveryStates]]
         /\ IsFiniteSet(Busy)' /\ StagesAgree'
         /\ \A i \in Slots, e \in Ep : del'[i][e].stage = "recording" =>
              act'[i] = act[i] /\ del'[i][e] = del[i][e]
         /\ \A e \in Ep, n \in Note :
              /\ k \in Holding(e, n)' <=> k \in Holding(e, n) /\ e # f
              /\ \A a : <<k, a>> \in Done(e, n)' <=> <<k, a>> \in Done(e, n) /\ e # f
<1>1. del[k][f] # NoDelivery
  BY DEF NoDelivery
<1>2. act[k].stage = "delivering" /\ act[k] # NoWork /\ act[k].note \in Note
  <2>1. act[k].stage = "delivering"
    BY <1>1 DEF StagesAgree
  <2> QED
    BY <2>1, ActKinds
<1>3. /\ del'[k][f] = NoDelivery /\ \A e \in Ep \ {f} : del'[k][e] = del[k][e]
      /\ act'[k] = (IF \A e \in Ep \ {f} : del[k][e] = NoDelivery THEN NoWork ELSE act[k])
      /\ \A i \in Slots \ {k} : SameSlot(i)
      /\ del' = [del EXCEPT ![k] = [del[k] EXCEPT ![f] = NoDelivery]]
      /\ act' = act \/ act' = [act EXCEPT ![k] = NoWork]
  BY DEF Returned, WorkerTyped, SameSlot
<1>4. act' \in [Slots -> Activations] /\ del' \in [Slots -> [Ep -> DeliveryStates]]
  <2>1. NoWork \in Activations /\ NoDelivery \in DeliveryStates
    BY DEF Activations, DeliveryStates
  <2>2. act' \in [Slots -> Activations]
    <3>1. act \in [Slots -> Activations]
      BY DEF WorkerTyped
    <3> QED
      BY <1>3, <2>1, <3>1
  <2>3. del' \in [Slots -> [Ep -> DeliveryStates]]
    <3>1. [del[k] EXCEPT ![f] = NoDelivery] \in [Ep -> DeliveryStates]
      BY <2>1 DEF WorkerTyped
    <3> QED
      BY <1>3, <3>1 DEF WorkerTyped
  <2> QED
    BY <2>2, <2>3
<1>5. IsFiniteSet(Busy)'
  BY <1>2, <1>3, BusyLess DEF SameSlot
<1>6. StagesAgree'
  <2>1. act'[k].stage = "delivering" <=> \E e \in Ep : del'[k][e] # NoDelivery
    <3>1. CASE \A e \in Ep \ {f} : del[k][e] = NoDelivery
      BY <1>3, <3>1 DEF NoWork
    <3>2. CASE \E e \in Ep \ {f} : del[k][e] # NoDelivery
      BY <1>2, <1>3, <3>2
    <3> QED
      BY <3>1, <3>2
  <2> QED
    BY <1>3, <2>1 DEF StagesAgree, SameSlot
<1>7. ASSUME NEW i \in Slots, NEW e \in Ep, del'[i][e].stage = "recording"
      PROVE  act'[i] = act[i] /\ del'[i][e] = del[i][e]
  <2>1. CASE i # k
    BY <1>3, <2>1 DEF SameSlot
  <2>2. CASE i = k
    <3>1. e # f /\ del[k][e] # NoDelivery
      BY <1>3, <1>7, <2>2 DEF NoDelivery
    <3> QED
      BY <1>3, <2>2, <3>1
  <2> QED
    BY <2>1, <2>2
<1>8. ASSUME NEW e \in Ep, NEW n \in Note
      PROVE  /\ k \in Holding(e, n)' <=> k \in Holding(e, n) /\ e # f
             /\ \A a : <<k, a>> \in Done(e, n)' <=> <<k, a>> \in Done(e, n) /\ e # f
  <2>1. CASE e = f
    <3>1. act'[k] = NoWork \/ act'[k].stage # "loading"
      BY <1>2, <1>3
    <3>2. k \notin Holding(e, n)'
      BY <1>3, <2>1, <3>1, SlotAccount
    <3> QED
      BY <2>1, <3>2, SlotAccount
  <2>2. CASE e # f
    <3>1. del'[k][e] = del[k][e]
      BY <1>3, <2>2
    <3>2. act'[k] = act[k] \/ (act'[k] = NoWork /\ del[k][e] = NoDelivery)
      BY <1>3, <2>2
    <3>3. k \in Holding(e, n)' <=> k \in Holding(e, n)
      BY <1>2, <3>1, <3>2, SlotAccount
    <3> QED
      BY <2>2, <3>1, <3>3, SlotAccount
  <2> QED
    BY <2>1, <2>2
<1> QED
  BY <1>1, <1>2, <1>3, <1>4, <1>5, <1>6, <1>7, <1>8

LEMMA RecordInv ==
  ASSUME ListenerInv, WorkerInv, NEW k \in Slots, NEW f \in Ep, Record(k, f)
  PROVE  WorkerInv'
<1> USE DEF WorkerInv
<1> DEFINE n0 == act[k].note
           d == del[k][f]
           row == [last |-> d.last, attempts |-> d.attempt]
<1>1. /\ UNCHANGED <<state, stopped, failures, committed, inbox, status, faults, copies, sent, accepted>>
      /\ InboxesSound' /\ \A n \in Note : Inboxed(n)' = Inboxed(n)
      /\ deliveries' = [deliveries EXCEPT ![f][n0] = Append(deliveries[f][n0], row)]
      /\ d.stage = "recording" /\ Returned(k, f)
  <2>1. UNCHANGED <<listener, committed, inbox>> /\ UNCHANGED <<status, faults, hist>>
    BY DEF Record
  <2>2. /\ deliveries' = [deliveries EXCEPT ![f][n0] = Append(deliveries[f][n0], row)]
        /\ d.stage = "recording" /\ Returned(k, f)
    BY DEF Record
  <2> QED
    BY <2>1, <2>2, SlotStepRest DEF hist
<1>2. /\ act[k] # NoWork /\ n0 \in Note /\ d # NoDelivery
      /\ \A i \in Slots \ {k} : SameSlot(i)
      /\ act' \in [Slots -> Activations] /\ del' \in [Slots -> [Ep -> DeliveryStates]]
      /\ IsFiniteSet(Busy)' /\ StagesAgree'
      /\ \A i \in Slots, e \in Ep : del'[i][e].stage = "recording" =>
           act'[i] = act[i] /\ del'[i][e] = del[i][e]
      /\ \A e \in Ep, n \in Note :
           /\ k \in Holding(e, n)' <=> k \in Holding(e, n) /\ e # f
           /\ \A a : <<k, a>> \in Done(e, n)' <=> <<k, a>> \in Done(e, n) /\ e # f
  BY <1>1, ReturnedFacts
<1>3. /\ row \in LogRows /\ row.last = d.last /\ row.attempts = d.attempt
      /\ d.attempt \in 1..MaxAttempts
  BY <1>1, <1>2, DelKinds DEF LogRows
<1>4. /\ deliveries'[f][n0] = Append(deliveries[f][n0], row)
      /\ \A e \in Ep, n \in Note : e # f \/ n # n0 => deliveries'[e][n] = deliveries[e][n]
      /\ deliveries' \in [Ep -> [Note -> Seq(LogRows)]]
  <2>1. deliveries[f][n0] \in Seq(LogRows)
    BY <1>2 DEF WorkerTyped
  <2>2. Append(deliveries[f][n0], row) \in Seq(LogRows)
    BY <1>3, <2>1, AppendFacts
  <2> HIDE DEF row
  <2> QED
    BY <1>1, <1>2, <2>2 DEF WorkerTyped
<1> HIDE DEF row
<1>5. WorkerTyped'
  BY <1>1, <1>2, <1>4 DEF WorkerTyped
<1>6. OutcomesTold'
  <2>1. \A i \in Slots, e \in Ep : del'[i][e].stage = "recording" =>
          Told(e, act'[i].note, del'[i][e].last, del'[i][e].attempt)
    BY <1>2 DEF OutcomesTold
  <2>2. ASSUME NEW e \in Ep, NEW n \in Note, NEW i \in DOMAIN deliveries'[e][n]
        PROVE  /\ deliveries'[e][n][i].last = "2xx" => n \in accepted[e]
               /\ deliveries'[e][n][i].last = "retryable" =>
                    deliveries'[e][n][i].attempts = MaxAttempts
    <3>1. CASE e # f \/ n # n0
      <4>1. deliveries'[e][n] = deliveries[e][n]
        BY <1>4, <3>1
      <4> QED
        BY <2>2, <4>1 DEF OutcomesTold, LogTellsTheOutcome
    <3>2. CASE e = f /\ n = n0
      <4> DEFINE q == deliveries[f][n0]
      <4>1. q \in Seq(LogRows) /\ deliveries'[e][n] = Append(q, row)
        BY <1>2, <1>4, <3>2 DEF WorkerTyped
      <4>2. (i \in DOMAIN q /\ deliveries'[e][n][i] = q[i]) \/ deliveries'[e][n][i] = row
        <5> HIDE DEF q
        <5>1. DOMAIN q = 1..Len(q)
          BY <4>1, SeqFacts
        <5> QED
          BY <1>3, <2>2, <4>1, <5>1, AppendFacts
      <4>3. Told(f, n0, d.last, d.attempt)
        BY <1>1 DEF OutcomesTold
      <4>4. CASE deliveries'[e][n][i] = row
        BY <1>3, <3>2, <4>3, <4>4 DEF Told
      <4>5. CASE i \in DOMAIN q /\ deliveries'[e][n][i] = q[i]
        BY <1>2, <3>2, <4>5 DEF OutcomesTold, LogTellsTheOutcome
      <4> QED
        BY <4>2, <4>4, <4>5
    <3> QED
      BY <3>1, <3>2
  <2> QED
    BY <1>1, <2>1, <2>2 DEF OutcomesTold, LogTellsTheOutcome, Told
<1>7. Undisturbed' => Undisturbed
  BY <1>1 DEF Undisturbed
<1>8. ASSUME NEW n \in Note, n = n0 PROVE CopiesPaid(f, n)'
  <2>1. k \in Holding(f, n)
    BY <1>2, <1>8, SlotAccount
  <2>2. Holding(f, n)' = Holding(f, n) \ {k}
    BY <1>2, SlotMoves
  <2>3. Finished(d) = d.attempt
    BY <1>1 DEF Finished
  <2>4. \A a : <<k, a>> \in Done(f, n) <=> a \in 1..d.attempt
    BY <1>2, <1>3, <2>1, <2>3, AttemptsAssumption, SlotAccount
  <2>5. /\ \A p \in Done(f, n) \cup Done(f, n)' : p = <<p[1], p[2]>>
        /\ \A p : p[1] # k => (p \in Done(f, n)' <=> p \in Done(f, n))
    BY <1>2, SlotMoves
  <2>6. {p \in Done(f, n) : p[1] = k} = {k} \X (1..row.attempts)
    <3>1. \A p \in Done(f, n) : p[1] = k => p \in {k} \X (1..d.attempt)
      BY <2>4, <2>5
    <3>2. \A p \in {k} \X (1..d.attempt) : p \in Done(f, n) /\ p[1] = k
      BY <2>4
    <3> QED
      BY <1>3, <3>1, <3>2
  <2>7. Done(f, n)' = {p \in Done(f, n) : p[1] # k}
    <3>1. \A p \in Done(f, n)' : p[1] # k
      BY <1>2, <2>5
    <3> QED
      BY <2>5, <3>1
  <2>8. Inboxed(n)' = Inboxed(n) /\ deliveries'[f][n] = Append(deliveries[f][n], row)
    BY <1>1, <1>4, <1>8
  <2>9. row \in LogRows /\ UNCHANGED <<sent, copies>>
    BY <1>1, <1>3
  <2> HIDE DEF n0, d
  <2> QED
    BY <1>7, <2>1, <2>2, <2>6, <2>7, <2>8, <2>9, PaidRecorded
<1>9. ASSUME NEW e \in Ep, NEW n \in Note, e # f \/ n # n0 PROVE CopiesPaid(e, n)'
  <2>1. k \in Holding(e, n)' <=> k \in Holding(e, n)
    <3>1. CASE e # f
      BY <1>2, <3>1
    <3>2. CASE n # n0
      BY <1>2, <3>2, SlotAccount
    <3> QED
      BY <1>9, <3>1, <3>2
  <2>2. \A a : <<k, a>> \in Done(e, n)' <=> <<k, a>> \in Done(e, n)
    <3>1. CASE e # f
      BY <1>2, <3>1
    <3>2. CASE n # n0
      BY <1>2, <3>2, SlotAccount
    <3> QED
      BY <1>9, <3>1, <3>2
  <2>3. \A a : <<k, a>> \in Done(e, n) => k \in Holding(e, n)
    BY SlotAccount
  <2>4. /\ sent'[e][n] = sent[e][n] /\ copies'[n] = copies[n]
        /\ deliveries'[e][n] = deliveries[e][n] /\ Inboxed(n)' = Inboxed(n)
    BY <1>1, <1>4, <1>9
  <2> QED
    BY <1>2, <1>7, <2>1, <2>2, <2>3, <2>4, PaidSlot
<1>10. \A e \in Ep, n \in Note : CopiesPaid(e, n)'
  BY <1>8, <1>9
<1> QED
  BY <1>1, <1>2, <1>5, <1>6, <1>10

LEMMA RecordFailsInv ==
  ASSUME ListenerInv, WorkerInv, NEW k \in Slots, NEW f \in Ep, RecordFails(k, f)
  PROVE  WorkerInv'
<1> USE DEF WorkerInv
<1>1. /\ UNCHANGED <<state, stopped, failures, committed, inbox, status, deliveries, copies, sent, accepted>>
      /\ InboxesSound' /\ \A n \in Note : Inboxed(n)' = Inboxed(n)
      /\ del[k][f].stage = "recording" /\ Returned(k, f)
  <2>1. UNCHANGED <<listener, committed, inbox>> /\ UNCHANGED <<table, hist>>
    BY DEF RecordFails
  <2> QED
    BY <2>1, SlotStepRest DEF RecordFails, table, hist
<1>2. faults' \in 0..MaxFaults /\ faults' # MaxFaults
  <2>1. faults \in 0..MaxFaults /\ MaxFaults \in Nat
    BY FaultsAssumption DEF WorkerTyped
  <2>2. CASE status[f] = "deleted" /\ UNCHANGED faults
    BY <2>1, <2>2
  <2>3. CASE Fault
    BY <2>1, <2>3 DEF Fault
  <2> QED
    BY <2>2, <2>3 DEF RecordFails
<1>3. /\ \A i \in Slots \ {k} : SameSlot(i)
      /\ act' \in [Slots -> Activations] /\ del' \in [Slots -> [Ep -> DeliveryStates]]
      /\ IsFiniteSet(Busy)' /\ StagesAgree'
      /\ \A i \in Slots, e \in Ep : del'[i][e].stage = "recording" =>
           act'[i] = act[i] /\ del'[i][e] = del[i][e]
      /\ \A e \in Ep, n \in Note :
           /\ k \in Holding(e, n)' <=> k \in Holding(e, n) /\ e # f
           /\ \A a : <<k, a>> \in Done(e, n)' <=> <<k, a>> \in Done(e, n) /\ e # f
  BY <1>1, ReturnedFacts
<1>4. WorkerTyped'
  BY <1>1, <1>2, <1>3 DEF WorkerTyped
<1>5. OutcomesTold'
  <2>1. \A i \in Slots, e \in Ep : del'[i][e].stage = "recording" =>
          Told(e, act'[i].note, del'[i][e].last, del'[i][e].attempt)
    BY <1>3 DEF OutcomesTold
  <2> QED
    BY <1>1, <2>1 DEF OutcomesTold, LogTellsTheOutcome, Told
<1>6. ASSUME NEW e \in Ep, NEW n \in Note PROVE CopiesPaid(e, n)'
  <2>1. \A a : <<k, a>> \in Done(e, n) => k \in Holding(e, n)
    BY SlotAccount
  <2>2. k \in Holding(e, n)' => k \in Holding(e, n)
    BY <1>3
  <2>3. \A a \in 1..MaxAttempts :
          <<k, a>> \in Done(e, n)' <=> <<k, a>> \in Done(e, n) /\ k \in Holding(e, n)'
    BY <1>3, <2>1
  <2>4. ~Undisturbed'
    BY <1>2 DEF Undisturbed
  <2>5. /\ sent'[e][n] = sent[e][n] /\ copies'[n] = copies[n]
        /\ deliveries'[e][n] = deliveries[e][n] /\ Inboxed(n)' = Inboxed(n)
    BY <1>1
  <2> QED
    BY <1>3, <2>2, <2>3, <2>4, <2>5, PaidSlot
<1> QED
  BY <1>1, <1>2, <1>3, <1>4, <1>5, <1>6

\* No token anywhere: only the log is left in the account.
LEMMA EmptyAccount ==
  ASSUME NEW e \in Ep, NEW n \in Note, Inboxed(n) = {}, Holding(e, n) = {}
  PROVE  Done(e, n) = {} /\ Cardinality(Done(e, n)) = 0 /\ Held(e, n) = 0
<1>1. Done(e, n) = {}
  BY DEF Done
<1> QED
  BY <1>1, FS_EmptySet DEF Held

LEMMA WorkerCrashInv ==
  ASSUME ListenerInv, WorkerInv, Crash
  PROVE  WorkerInv'
<1> USE DEF WorkerInv
<1>1. /\ UNCHANGED <<failures, committed, status, deliveries, copies, sent, accepted>>
      /\ inbox' = [c \in Clients |-> <<>>]
      /\ act' = [k \in Slots |-> NoWork]
      /\ del' = [k \in Slots |-> [e \in Ep |-> NoDelivery]]
      /\ faults' = faults - 1 /\ faults > 0
  BY DEF Crash, Fault, table, hist
<1>2. faults' \in 0..MaxFaults /\ faults' # MaxFaults
  BY <1>1 DEF WorkerTyped
<1>3. WorkerTyped'
  <2>1. inbox' \in [Clients -> Seq(Note)]
    BY <1>1
  <2>2. act' \in [Slots -> Activations] /\ del' \in [Slots -> [Ep -> DeliveryStates]]
    BY <1>1 DEF Activations, DeliveryStates
  <2>3. IsFiniteSet(Busy)'
    <3>1. Busy' = {}
      BY <1>1 DEF Busy
    <3> QED
      BY <3>1, FS_EmptySet
  <2> QED
    BY <1>1, <1>2, <2>1, <2>2, <2>3 DEF WorkerTyped
<1>4. \A c \in Clients : inbox'[c] = <<>> /\ DOMAIN inbox'[c] = {}
  BY <1>1
<1>5. InboxesSound'
  BY <1>4 DEF InboxesSound
<1>6. /\ NoWork.stage = "free" /\ NoDelivery.stage = "none"
      /\ \A k \in Slots : act'[k] = NoWork /\ \A e \in Ep : del'[k][e] = NoDelivery
  BY <1>1 DEF NoWork, NoDelivery
<1>7. StagesAgree'
  BY <1>6 DEF StagesAgree
<1>8. OutcomesTold'
  BY <1>1, <1>6 DEF OutcomesTold, LogTellsTheOutcome
<1>9. ASSUME NEW e \in Ep, NEW n \in Note PROVE CopiesPaid(e, n)'
  <2>1. Inboxed(n)' = {}
    BY <1>4 DEF Inboxed
  <2>2. Holding(e, n)' = {}
    BY <1>6 DEF Holding
  <2>3. Done(e, n)' = {p \in Done(e, n) : p[1] \in Holding(e, n)'}
    BY <2>2 DEF Done
  <2>4. ~Undisturbed'
    BY <1>2 DEF Undisturbed
  <2>5. /\ sent'[e][n] = sent[e][n] /\ copies'[n] = copies[n]
        /\ deliveries'[e][n] = deliveries[e][n]
    BY <1>1
  <2> QED
    BY <2>1, <2>2, <2>3, <2>4, <2>5, PaidKept
<1> QED
  BY <1>1, <1>2, <1>3, <1>5, <1>7, <1>8, <1>9

LEMMA InitWorkerInv == InitWorker => WorkerInv
<1> SUFFICES ASSUME InitWorker PROVE WorkerInv
  OBVIOUS
<1>1. /\ committed = 0 /\ inbox = [c \in Clients |-> <<>>]
      /\ status = [e \in Ep |-> "active"]
      /\ deliveries = [e \in Ep |-> [n \in Note |-> <<>>]]
      /\ act = [k \in Slots |-> NoWork]
      /\ del = [k \in Slots |-> [e \in Ep |-> NoDelivery]]
      /\ faults = MaxFaults /\ failures = MaxFailures
      /\ copies = [n \in Note |-> 0]
      /\ sent = [e \in Ep |-> [n \in Note |-> 0]]
      /\ accepted = [e \in Ep |-> {}]
  BY DEF InitWorker, Init
<1>2. /\ NoWork.stage = "free" /\ NoDelivery.stage = "none"
      /\ \A k \in Slots : act[k] = NoWork /\ \A e \in Ep : del[k][e] = NoDelivery
      /\ \A c \in Clients : inbox[c] = <<>> /\ DOMAIN inbox[c] = {}
  BY <1>1 DEF NoWork, NoDelivery
<1>3. WorkerTyped
  <2>1. /\ inbox \in [Clients -> Seq(Note)]
        /\ deliveries \in [Ep -> [Note -> Seq(LogRows)]]
    BY <1>1
  <2>2. act \in [Slots -> Activations] /\ del \in [Slots -> [Ep -> DeliveryStates]]
    BY <1>1 DEF Activations, DeliveryStates
  <2>3. IsFiniteSet(Busy)
    <3>1. Busy = {}
      BY <1>2 DEF Busy
    <3> QED
      BY <3>1, FS_EmptySet
  <2>4. failures \in 0..MaxFailures
    BY <1>1, MaxFailuresAssumption
  <2> QED
    BY <1>1, <2>1, <2>2, <2>3, <2>4 DEF WorkerTyped
<1>4. InboxesSound /\ StagesAgree
  BY <1>2 DEF InboxesSound, StagesAgree
<1>5. \A e \in Ep, n \in Note : deliveries[e][n] = <<>> /\ DOMAIN deliveries[e][n] = {}
  BY <1>1
<1>6. OutcomesTold
  BY <1>2, <1>5 DEF OutcomesTold, LogTellsTheOutcome
<1>7. ASSUME NEW e \in Ep, NEW n \in Note PROVE CopiesPaid(e, n)
  <2>1. Inboxed(n) = {} /\ Holding(e, n) = {}
    BY <1>2 DEF Inboxed, Holding
  <2>2. Logged(deliveries[e][n]) = {}
    BY <1>5 DEF Logged
  <2>3. Cardinality(Logged(deliveries[e][n])) = 0 /\ Len(deliveries[e][n]) = 0
    BY <1>5, <2>2, FS_EmptySet
  <2>4. sent[e][n] = 0 /\ copies[n] = 0
    BY <1>1
  <2>5. Cardinality(Done(e, n)) = 0 /\ Held(e, n) = 0
    BY <2>1, EmptyAccount
  <2> QED
    BY <2>3, <2>4, <2>5 DEF CopiesPaid
<1> QED
  BY <1>1, <1>3, <1>4, <1>6, <1>7 DEF WorkerInv

LEMMA NextWorkerInv ==
  ListenerInv /\ WorkerInv /\ [NextWorker]_workerVars => WorkerInv'
<1> SUFFICES ASSUME ListenerInv, WorkerInv, [NextWorker]_workerVars PROVE WorkerInv'
  OBVIOUS
<1>1. CASE ListenerStep(Next)
  BY <1>1, ListenerStepInv
<1>2. CASE Commit
  BY <1>2, CommitInv
<1>3. CASE Crash
  BY <1>3, WorkerCrashInv
<1>4. ASSUME NEW e \in Ep, EditEndpoint(e) PROVE WorkerInv'
  BY <1>4, EditEndpointInv
<1>5. ASSUME NEW c \in Clients, handle(c) PROVE WorkerInv'
  BY <1>5, HandleInv
<1>6. ASSUME NEW k \in Slots, HandleStep(k) PROVE WorkerInv'
  <2>1. CASE Load(k)
    BY <2>1, LoadInv
  <2>2. CASE LoadFails(k)
    BY <2>2, LoadFailsInv
  <2>3. ASSUME NEW e \in Ep, DeliveryStep(k, e) PROVE WorkerInv'
    <3>1. CASE Attempt(k, e)
      BY <3>1, AttemptInv
    <3>2. CASE Wake(k, e)
      BY <3>2, WakeInv
    <3>3. CASE Record(k, e)
      BY <3>3, RecordInv
    <3>4. CASE RecordFails(k, e)
      BY <3>4, RecordFailsInv
    <3> QED
      BY <2>3, <3>1, <3>2, <3>3, <3>4 DEF DeliveryStep
  <2> QED
    BY <1>6, <2>1, <2>2, <2>3 DEF HandleStep
<1>7. CASE UNCHANGED workerVars
  <2>1. UNCHANGED <<state, stopped, failures, committed, inbox, status, deliveries, act, del,
                    faults, copies, sent, accepted>>
    BY <1>7 DEF workerVars, listener, table, hist
  <2>2. WorkerTyped' /\ InboxesSound' /\ StagesAgree' /\ OutcomesTold'
    BY <2>1 DEF WorkerInv, WorkerTyped, Busy, InboxesSound, Live, StagesAgree, OutcomesTold,
                LogTellsTheOutcome, Told
  <2>3. ASSUME NEW e \in Ep, NEW n \in Note PROVE CopiesPaid(e, n)'
    <3>1. Holding(e, n)' = Holding(e, n) /\ Done(e, n)' = Done(e, n) /\ Inboxed(n)' = Inboxed(n)
      BY <2>1 DEF Holding, Done, Finished, Inboxed
    <3> QED
      BY <2>1, <3>1 DEF WorkerInv, CopiesPaid, Held, Undisturbed
  <2> QED
    BY <2>1, <2>2, <2>3 DEF WorkerInv
<1> QED
  BY <1>1, <1>2, <1>3, <1>4, <1>5, <1>6, <1>7 DEF NextWorker

-----------------------------------------------------------------------------
(* What the accounts say of the log.                                       *)

LEMMA OneDeliveryEach == ListenerInv /\ WorkerInv => OneDeliveryPerCopy
<1> SUFFICES ASSUME ListenerInv, WorkerInv, NEW e \in Ep, NEW n \in Note
             PROVE  /\ Len(deliveries[e][n]) <= copies[n]
                    /\ Cardinality(Logged(deliveries[e][n])) <= sent[e][n]
                    /\ sent[e][n] <= MaxAttempts * copies[n]
  BY DEF OneDeliveryPerCopy, Logged
<1> DEFINE I == Cardinality(Inboxed(n))
           H == Cardinality(Holding(e, n))
           D == Cardinality(Done(e, n))
           L == Len(deliveries[e][n])
           G == Cardinality(Logged(deliveries[e][n]))
           x == MaxAttempts * (I + H)
           y == MaxAttempts * copies[n]
           z == MaxAttempts * H
<1>1. /\ WorkerTyped /\ InboxesSound /\ CopiesPaid(e, n)
      /\ deliveries[e][n] \in Seq(LogRows) /\ sent[e][n] \in Nat /\ copies[n] \in Nat
  BY DEF WorkerInv, WorkerTyped
<1>2. I \in Nat /\ H \in Nat /\ D \in Nat /\ L \in Nat /\ G \in Nat /\ D <= z
  BY <1>1, TokensFinite, LoggedFinite
<1>3. L + (I + H) <= copies[n] /\ G + D <= sent[e][n] /\ sent[e][n] + x <= y + D
  BY <1>1 DEF CopiesPaid, Held
<1>4. x \in Nat /\ y \in Nat /\ z \in Nat /\ z <= x
  <2> HIDE DEF I, H
  <2> DEFINE w == MaxAttempts * I
  <2>1. x = w + z
    BY <1>2
  <2>2. w \in Nat /\ z \in Nat /\ y \in Nat
    BY <1>1, <1>2
  <2> HIDE DEF w, x, y, z
  <2> QED
    BY <2>1, <2>2
<1> HIDE DEF I, H, D, L, G, x, y, z
<1>5. L <= copies[n] /\ G <= sent[e][n] /\ sent[e][n] <= y
  BY <1>1, <1>2, <1>3, <1>4
<1> QED
  BY <1>5 DEF L, G, y

LEMMA EachCopyLogged == ListenerInv /\ WorkerInv => EveryCopyLogged
<1> SUFFICES ASSUME ListenerInv, WorkerInv, Idle, Undisturbed,
                    NEW e \in Ep, NEW n \in Note, matchEndpoint(e, n)
             PROVE  Len(deliveries[e][n]) = copies[n]
  BY DEF EveryCopyLogged
<1>1. Inboxed(n) = {}
  <2>1. \A c \in Clients : DOMAIN inbox[c] = {}
    BY DEF Idle
  <2> QED
    BY <2>1 DEF Inboxed
<1>2. Holding(e, n) = {}
  BY DEF Idle, Holding
<1>3. Len(deliveries[e][n]) + 0 = copies[n]
  BY <1>1, <1>2, EmptyAccount DEF WorkerInv, CopiesPaid
<1>4. deliveries[e][n] \in Seq(LogRows)
  BY DEF WorkerInv, WorkerTyped
<1> QED
  BY <1>3, <1>4

LEMMA WorkerTypes == ListenerInv /\ WorkerInv => TypeOKWorker
<1> SUFFICES ASSUME ListenerInv, WorkerInv PROVE TypeOKWorker
  OBVIOUS
<1>1. TypeOK /\ WorkerTyped /\ InboxesSound /\ StagesAgree
  BY DEF ListenerInv, ListenerSound, WorkerInv
<1>2. ASSUME NEW k \in Slots
      PROVE  /\ act[k].stage \in {"free", "loading", "delivering"}
             /\ \A e \in Ep : del[k][e] # NoDelivery => del[k][e].attempt \in 1..MaxAttempts
  BY <1>1, ActKinds, DelKinds
<1> QED
  BY <1>1, <1>2 DEF TypeOKWorker, WorkerTyped, InboxesSound, StagesAgree

\* Whatever fails and whenever the worker crashes: for every change and every
\* endpoint the log has at most one row per LISTEN client that was sent the
\* change, counts no attempt that did not go out, tells the outcome the
\* receiver knows of, and is complete whenever an undisturbed worker is idle
\* (dispatcher.ts, webhooks.deliveries).
THEOREM DeliveriesAlwaysAccounted == SpecWorker => []DeliveriesAccounted
<1>1. InitWorker => ListenerInv /\ WorkerInv
  BY InitListenerInv, InitWorkerInv DEF InitWorker
<1>2. ListenerInv /\ WorkerInv /\ [NextWorker]_workerVars => (ListenerInv /\ WorkerInv)'
  BY NextWorkerListenerInv, NextWorkerInv
<1>3. ListenerInv /\ WorkerInv => DeliveriesAccounted
  BY OneDeliveryEach, EachCopyLogged, WorkerTypes
     DEF DeliveriesAccounted, WorkerInv, OutcomesTold
<1> QED
  BY <1>1, <1>2, <1>3, PTL DEF SpecWorker
=============================================================================
