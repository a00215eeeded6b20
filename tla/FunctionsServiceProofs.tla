------------------------ MODULE FunctionsServiceProofs ------------------------
(***************************************************************************)
(* Proofs about the functions service and its API keys, for every number   *)
(* of keys, projects, requests, functions, edits and restarts: only live   *)
(* keys run anything, reloads take, and usage and answers add up.          *)
(***************************************************************************)
EXTENDS FunctionsService, FiniteSetTheorems, TLAPS

USE KeysAssumption, ProjectsAssumption, ReqsAssumption, FnsAssumption

-----------------------------------------------------------------------------
(***************************************************************************)
(* The inductive invariant, by the variables it is about.                  *)
(***************************************************************************)
States == {"none", "active", "revoked", "deleted"}
Stages == {"none", "import", "imported", "running", "late"}
Holding == {"import", "imported", "running"}
Key == [state : States, project : Projects \cup {NoKey}, limit : Nat]
Request == [phase : {"idle", "lookup", "row", "admitted"}, key : Keys \cup {NoKey},
            found : BOOLEAN, dead : BOOLEAN]
File == [v : 1..MaxEdits, there : BOOLEAN, ok : BOOLEAN]
Invocation == [fn : Fns, stage : Stages, v : 0..MaxEdits, ok : BOOLEAN]

\* Keys, their counters, and the usage that is being written.
Counters(k) ==
  /\ usage[k] \in Nat /\ writes[k] \in Nat /\ counted[k] \in Nat
  /\ writes[k] <= counted[k]
  /\ row[k].state = "deleted" => usage[k] = 0
  /\ row[k].state # "deleted" => usage[k] + writes[k] = counted[k]

KeysInv ==
  /\ projects \subseteq Projects
  /\ row \in [Keys -> Key] /\ minting \in [Keys -> Projects \cup {NoKey}]
  /\ usage \in [Keys -> Nat] /\ writes \in [Keys -> Nat] /\ counted \in [Keys -> Nat]
  /\ \A k \in Keys : Counters(k)
  /\ \A k \in Keys : minting[k] # NoKey => row[k].state = "none"
  /\ KeysHaveProjects

\* A request of a dead key finds nothing.
Sound(q) ==
  /\ q.dead => q.key \in Keys /\ Dead(q.key) /\ q.phase # "admitted"
  /\ q.dead /\ q.phase = "row" => ~q.found
  /\ q.phase # "idle" => q.key \in Keys

RequestsInv ==
  /\ req \in [Reqs -> Request]
  /\ \A r \in Reqs : Sound(req[r])

CallsInv ==
  /\ now \in 0..MaxTime /\ calls \in 0..MaxCalls
  /\ answers \in Nat /\ dropped \in Nat
  /\ AnswersAddUp

\* No reload was of an edit that is still to come.
FilesInv ==
  /\ file \in [Fns -> File]
  /\ cache \in [Fns -> 0..MaxEdits] /\ floor \in [Fns -> 0..MaxEdits]
  /\ inv \in [Reqs -> Invocation]
  /\ \A f \in Fns : floor[f] <= file[f].v
  /\ ReloadTakes

StagesInv == \A r \in Reqs : inv[r].stage \in Holding <=> req[r].phase = "admitted"

IInv == KeysInv /\ RequestsInv /\ CallsInv /\ FilesInv /\ StagesInv

-----------------------------------------------------------------------------
(***************************************************************************)
(* The initial state.                                                      *)
(***************************************************************************)

\* Slots start free, and nobody holds a module: everything adds up to zero.
LEMMA InitIInv == Init => IInv
<1> SUFFICES ASSUME Init PROVE IInv
  OBVIOUS
<1> USE DEF Init, InitKeys
<1>1. KeysInv
  <2>1. row \in [Keys -> Key]
    BY DEF Key, NoRow, States
  <2>2. projects \subseteq Projects
    OBVIOUS
  <2>3. \A k \in Keys : Counters(k) /\ ~(row[k].state \in {"active", "revoked"})
    BY DEF Counters, NoRow
  <2> QED
    BY <2>1, <2>2, <2>3 DEF KeysInv, KeysHaveProjects, NoRow
<1>2. RequestsInv
  BY DEF RequestsInv, Request, Sound, Idle
<1>3. CallsInv
  <2>1. Busy = {}
    BY DEF Busy
  <2>2. Cardinality(Busy) = 0
    BY <2>1, FS_EmptySet
  <2> QED
    BY <2>2 DEF CallsInv, AnswersAddUp
<1>4. FilesInv
  <2>1. NoInv \in Invocation
    BY DEF NoInv, Invocation, Stages
  <2>2. file \in [Fns -> File]
    BY DEF File
  <2>3. \A f \in Fns : floor[f] <= file[f].v /\ cache[f] = 0
    OBVIOUS
  <2>4. \A r \in Reqs : inv[r].stage = "none"
    BY DEF NoInv
  <2>5. inv \in [Reqs -> Invocation]
    BY <2>1
  <2> QED
    BY <2>2, <2>3, <2>4, <2>5 DEF FilesInv, ReloadTakes
<1>5. StagesInv
  BY DEF StagesInv, Holding, NoInv, Idle
<1> QED
  BY <1>1, <1>2, <1>3, <1>4, <1>5 DEF IInv

-----------------------------------------------------------------------------
(***************************************************************************)
(* Keys and their counters.                                                *)
(***************************************************************************)

\* What the guard does to a request leaves keys and counters alone.
LEMMA KeysKept ==
  ASSUME KeysInv, UNCHANGED <<keyVars, writes, counted>>
  PROVE  KeysInv'
BY DEF KeysInv, Counters, KeysHaveProjects, keyVars

\* The admin service's statements and the usage writes, one by one.
LEMMA KeysAdmin ==
  ASSUME KeysInv, AdminNext
  PROVE  KeysInv'
<1> USE DEF KeysInv
<1>1. ASSUME NEW k \in Keys, NEW p \in Projects, StartMint(k, p)
      PROVE  KeysInv'
  <2> USE <1>1 DEF StartMint, Unminted, NoRow
  <2>1. \A j \in Keys : Counters(j)'
    BY DEF Counters
  <2>2. KeysHaveProjects'
    BY DEF KeysHaveProjects
  <2> QED
    BY <2>1, <2>2
<1>2. ASSUME NEW k \in Keys, NEW limit \in Limits, FinishMint(k, limit)
      PROVE  KeysInv'
  <2> USE <1>2 DEF FinishMint
  <2>1. /\ row' \in [Keys -> Key]
        /\ row[k].state = "none"
        /\ \A j \in Keys : row'[j] = row[j]
             \/ (j = k /\ row'[j].state = "active" /\ row'[j].project \in projects)
    <3>0. row[k].state = "none" /\ row \in [Keys -> Key]
      OBVIOUS
    <3>1. CASE minting[k] \in projects
      <4> DEFINE new == [state |-> "active", project |-> minting[k], limit |-> limit]
      <4>1. new \in Key
        BY <3>1 DEF Key, States
      <4>2. new.state = "active" /\ new.project = minting[k]
        OBVIOUS
      <4>3. row' = [row EXCEPT ![k] = new]
        BY <3>1 DEF createKey
      <4> HIDE DEF new
      <4> QED
        BY <3>0, <3>1, <4>1, <4>2, <4>3
    <3>2. CASE minting[k] \notin projects
      <4>1. row' = row
        BY <3>2 DEF createKey
      <4> QED
        BY <3>0, <4>1
    <3> QED
      BY <3>1, <3>2
  <2>2. \A j \in Keys : Counters(j)'
    <3> TAKE j \in Keys
    <3>1. Counters(j)
      OBVIOUS
    <3>2. row'[j].state = "deleted" <=> row[j].state = "deleted"
      BY <2>1
    <3> QED
      BY <3>1, <3>2 DEF Counters
  <2>3. KeysHaveProjects'
    BY <2>1 DEF KeysHaveProjects
  <2>4. \A j \in Keys : minting'[j] # NoKey => row'[j].state = "none"
    BY <2>1
  <2> QED
    BY <2>1, <2>2, <2>3, <2>4
<1>3. ASSUME NEW k \in Keys, handleRevokeKey(k)
      PROVE  KeysInv'
  <2> USE <1>3 DEF handleRevokeKey, revokeKey, Active
  <2>1. row' \in [Keys -> Key]
    BY DEF Key, States
  <2>2. \A j \in Keys : /\ row'[j].project = row[j].project
                        /\ row'[j].state = row[j].state \/ (j = k /\ row'[j].state = "revoked")
    <3>1. row \in [Keys -> Key] /\ row' = [row EXCEPT ![k].state = "revoked"]
      OBVIOUS
    <3>2. \A j \in Keys : j # k => row'[j] = row[j]
      BY <3>1
    <3>3. row'[k].project = row[k].project /\ row'[k].state = "revoked"
      BY <3>1 DEF Key
    <3> QED
      BY <3>2, <3>3
  <2>3. \A j \in Keys : Counters(j)'
    <3> TAKE j \in Keys
    <3>1. Counters(j)
      OBVIOUS
    <3>2. row'[j].state = "deleted" <=> row[j].state = "deleted"
      BY <2>2
    <3> QED
      BY <3>1, <3>2 DEF Counters
  <2>4. KeysHaveProjects'
    BY <2>2 DEF KeysHaveProjects
  <2>5. \A j \in Keys : minting'[j] # NoKey => row'[j].state = "none"
    BY <2>2
  <2> QED
    BY <2>1, <2>3, <2>4, <2>5
<1>4. ASSUME NEW k \in Keys, RecordUsage(k)
      PROVE  KeysInv'
  <2> USE <1>4 DEF RecordUsage
  <2>1. /\ writes' \in [Keys -> Nat] /\ usage' \in [Keys -> Nat]
        /\ \A j \in Keys \ {k} : writes'[j] = writes[j] /\ usage'[j] = usage[j]
        /\ writes'[k] = writes[k] - 1
        /\ row[k].state = "deleted" => usage'[k] = usage[k]
        /\ row[k].state # "deleted" => usage'[k] = usage[k] + 1
    <3>1. writes[k] \in Nat /\ usage[k] \in Nat /\ writes[k] - 1 \in Nat
      OBVIOUS
    <3>2. CASE row[k].state = "deleted"
      BY <3>1, <3>2
    <3>3. CASE row[k].state # "deleted"
      BY <3>1, <3>3
    <3> QED
      BY <3>2, <3>3
  <2>2. \A j \in Keys : Counters(j)'
    <3> TAKE j \in Keys
    <3>1. Counters(j) /\ row' = row /\ counted' = counted
      OBVIOUS
    <3>2. CASE j = k
      BY <2>1, <3>1, <3>2 DEF Counters
    <3>3. CASE j # k
      BY <2>1, <3>1, <3>3 DEF Counters
    <3> QED
      BY <3>2, <3>3
  <2>3. KeysHaveProjects'
    BY DEF KeysHaveProjects
  <2> QED
    BY <2>1, <2>2, <2>3
<1>5. ASSUME NEW k \in Keys, LoseUsage(k)
      PROVE  KeysInv'
  <2> USE <1>5 DEF LoseUsage, keyVars
  <2>1. Counters(k) /\ writes[k] \in Nat /\ counted[k] \in Nat
    OBVIOUS
  <2>2. /\ writes' \in [Keys -> Nat] /\ counted' \in [Keys -> Nat]
        /\ \A j \in Keys \ {k} : writes'[j] = writes[j] /\ counted'[j] = counted[j]
        /\ writes'[k] = writes[k] - 1 /\ counted'[k] = counted[k] - 1
    BY <2>1 DEF Counters
  <2>3. \A j \in Keys : Counters(j)'
    <3> TAKE j \in Keys
    <3>1. Counters(j) /\ row' = row /\ usage' = usage
      OBVIOUS
    <3>2. CASE j = k
      BY <2>2, <3>1, <3>2 DEF Counters
    <3>3. CASE j # k
      BY <2>2, <3>1, <3>3 DEF Counters
    <3> QED
      BY <3>2, <3>3
  <2>4. KeysHaveProjects'
    BY DEF KeysHaveProjects
  <2> QED
    BY <2>2, <2>3, <2>4
<1>6. ASSUME NEW p \in Projects, handleDeleteProject(p)
      PROVE  KeysInv'
  <2> USE <1>6 DEF handleDeleteProject
  <2>1. \A j \in Keys : /\ j \in KeysOf(p) => row'[j] = [row[j] EXCEPT !.state = "deleted"]
                        /\ j \notin KeysOf(p) => row'[j] = row[j]
    BY DEF cascade
  <2>2. \A j \in Keys : /\ row'[j] \in Key
                        /\ j \in KeysOf(p) => row'[j].state = "deleted"
                        /\ j \notin KeysOf(p) => row'[j] = row[j]
    <3> TAKE j \in Keys
    <3>1. row[j] \in Key
      OBVIOUS
    <3>2. CASE j \in KeysOf(p)
      BY ONLY <2>1, <3>1, <3>2 DEF Key, States
    <3>3. CASE j \notin KeysOf(p)
      BY ONLY <2>1, <3>1, <3>3
    <3> QED
      BY <3>2, <3>3
  <2>3. row' \in [Keys -> Key]
    BY <2>2 DEF cascade
  <2>4. \A j \in Keys : Counters(j)'
    <3> TAKE j \in Keys
    <3>1. Counters(j) /\ writes' = writes /\ counted' = counted
      OBVIOUS
    <3>2. CASE j \in KeysOf(p)
      <4>1. usage'[j] = 0
        BY <3>2
      <4> QED
        BY <2>2, <3>1, <3>2, <4>1 DEF Counters
    <3>3. CASE j \notin KeysOf(p)
      <4>1. usage'[j] = usage[j]
        BY <3>3
      <4> QED
        BY <2>2, <3>1, <3>3, <4>1 DEF Counters
    <3> QED
      BY <3>2, <3>3
  <2>5. KeysHaveProjects'
    <3> SUFFICES ASSUME NEW j \in Keys, row'[j].state \in {"active", "revoked"}
                 PROVE  row'[j].project \in projects'
      BY DEF KeysHaveProjects
    <3>1. j \notin KeysOf(p) /\ row'[j] = row[j]
      BY <2>2
    <3>2. row[j].project \in projects /\ row[j].project # p
      BY <3>1 DEF KeysHaveProjects, KeysOf
    <3> QED
      BY <3>1, <3>2
  <2>6. \A j \in Keys : minting'[j] # NoKey => row'[j].state = "none"
    BY <2>2 DEF KeysOf
  <2>7. usage' \in [Keys -> Nat] /\ projects' \subseteq Projects
    OBVIOUS
  <2> QED
    BY <2>3, <2>4, <2>5, <2>6, <2>7
<1>7. ASSUME Tick
      PROVE  KeysInv'
  BY <1>7, KeysKept DEF Tick
<1> QED
  BY <1>1, <1>2, <1>3, <1>4, <1>5, <1>6, <1>7 DEF AdminNext

\* An admission owes its key one usage write.
LEMMA KeysAdmit ==
  ASSUME KeysInv, NEW k \in Keys,
         writes' = [writes EXCEPT ![k] = @ + 1],
         counted' = [counted EXCEPT ![k] = @ + 1],
         UNCHANGED keyVars
  PROVE  KeysInv'
<1> USE DEF KeysInv, keyVars
<1>1. \A j \in Keys : Counters(j)'
  <2> TAKE j \in Keys
  <2>1. Counters(j) /\ row' = row /\ usage' = usage
    OBVIOUS
  <2>2. CASE j = k
    BY <2>1, <2>2 DEF Counters
  <2>3. CASE j # k
    BY <2>1, <2>3 DEF Counters
  <2> QED
    BY <2>2, <2>3
<1>2. KeysHaveProjects'
  BY DEF KeysHaveProjects
<1> QED
  BY <1>1, <1>2

-----------------------------------------------------------------------------
(***************************************************************************)
(* Requests, and the books of their answers.                               *)
(***************************************************************************)

\* A key that was revoked or deleted stays so: a row in minting is fresh.
LEMMA DeadStays ==
  ASSUME KeysInv, AdminNext, NEW k \in Keys, Dead(k)
  PROVE  Dead(k)'
<1> USE DEF KeysInv, Dead
<1>1. ASSUME NEW j \in Keys, NEW p \in Projects, StartMint(j, p)
      PROVE  Dead(k)'
  BY <1>1 DEF StartMint
<1>2. ASSUME NEW j \in Keys, NEW limit \in Limits, FinishMint(j, limit)
      PROVE  Dead(k)'
  <2>1. k # j
    BY <1>2 DEF FinishMint
  <2>2. row'[k] = row[k]
    BY <1>2, <2>1 DEF FinishMint, createKey
  <2> QED
    BY <2>2
<1>3. ASSUME NEW j \in Keys, handleRevokeKey(j)
      PROVE  Dead(k)'
  <2>1. k # j
    BY <1>3 DEF handleRevokeKey, Active
  <2>2. row'[k] = row[k]
    BY <1>3, <2>1 DEF handleRevokeKey, revokeKey
  <2> QED
    BY <2>2
<1>4. ASSUME NEW j \in Keys, RecordUsage(j)
      PROVE  Dead(k)'
  BY <1>4 DEF RecordUsage
<1>5. ASSUME NEW j \in Keys, LoseUsage(j)
      PROVE  Dead(k)'
  BY <1>5 DEF LoseUsage, keyVars
<1>6. ASSUME NEW p \in Projects, handleDeleteProject(p)
      PROVE  Dead(k)'
  <2>1. CASE k \in KeysOf(p)
    <3>1. row[k] \in Key /\ row'[k] = [row[k] EXCEPT !.state = "deleted"]
      BY <1>6, <2>1 DEF handleDeleteProject, cascade
    <3> QED
      BY <3>1 DEF Key
  <2>2. CASE k \notin KeysOf(p)
    <3>1. row'[k] = row[k]
      BY <1>6, <2>2 DEF handleDeleteProject, cascade
    <3> QED
      BY <3>1
  <2> QED
    BY <2>1, <2>2
<1>7. ASSUME Tick
      PROVE  Dead(k)'
  BY <1>7 DEF Tick, keyVars
<1> QED
  BY <1>1, <1>2, <1>3, <1>4, <1>5, <1>6, <1>7 DEF AdminNext

\* Whatever the admin service does, requests keep what they hold.
LEMMA AdminKeepsRequests ==
  ASSUME KeysInv, RequestsInv, CallsInv, AdminNext
  PROVE  RequestsInv' /\ CallsInv' /\ req' = req
<1>1. /\ UNCHANGED <<req, calls, answers, dropped>>
      /\ now' = now \/ (now < MaxTime /\ now' = now + 1)
  BY DEF AdminNext, StartMint, FinishMint, handleRevokeKey, RecordUsage, LoseUsage,
         handleDeleteProject, Tick, guardVars
<1>2. \A r \in Reqs : Sound(req[r])'
  <2> TAKE r \in Reqs
  <2>1. Sound(req[r]) /\ req'[r] = req[r]
    BY <1>1 DEF RequestsInv
  <2>2. CASE req[r].dead
    <3>1. Dead(req[r].key)'
      <4> PICK k \in Keys : k = req[r].key
        BY <2>1, <2>2 DEF Sound
      <4>1. Dead(k)'
        BY <2>1, <2>2, DeadStays DEF Sound
      <4> QED
        BY <4>1, <1>1 DEF Dead
    <3> QED
      BY <2>1, <2>2, <3>1 DEF Sound
  <2>3. CASE ~req[r].dead
    BY <2>1, <2>3 DEF Sound
  <2> QED
    BY <2>2, <2>3
<1>3. now' \in 0..MaxTime
  BY <1>1 DEF CallsInv
<1>4. AnswersAddUp'
  <2>1. Busy' = Busy
    BY <1>1 DEF Busy
  <2> QED
    BY <1>1, <2>1 DEF CallsInv, AnswersAddUp
<1> QED
  BY <1>1, <1>2, <1>3, <1>4 DEF RequestsInv, CallsInv

\* One request moves to q, and no key changes.
LEMMA OneRequest ==
  ASSUME RequestsInv, NEW r \in Reqs, NEW q \in Request, Sound(q),
         req' = [req EXCEPT ![r] = q], UNCHANGED row
  PROVE  /\ RequestsInv'
         /\ req'[r] = q
         /\ \A s \in Reqs \ {r} : req'[s] = req[s]
<1>1. \A s \in Reqs : req'[s] = q \/ req'[s] = req[s]
  BY DEF RequestsInv
<1>2. \A s \in Reqs : Sound(req[s])'
  <2> TAKE s \in Reqs
  <2>1. Sound(req[s]) /\ Sound(q)
    BY DEF RequestsInv
  <2> QED
    BY <1>1, <2>1 DEF Sound, Dead
<1> QED
  BY <1>2 DEF RequestsInv

\* A free slot holds nothing that could be wrong.
LEMMA IdleIsSound == Idle \in Request /\ Sound(Idle)
BY DEF Idle, Request, Sound

\* A request under way is answered.
LEMMA Replies ==
  ASSUME RequestsInv, CallsInv, NEW r \in Reqs, req[r] # Idle, Reply(r),
         UNCHANGED <<row, now, calls, dropped>>
  PROVE  /\ RequestsInv' /\ CallsInv'
         /\ req'[r] = Idle
         /\ \A s \in Reqs \ {r} : req'[s] = req[s]
<1>1. /\ RequestsInv' /\ req'[r] = Idle
      /\ \A s \in Reqs \ {r} : req'[s] = req[s]
  BY IdleIsSound, OneRequest DEF Reply
<1>2. Busy' = Busy \ {r} /\ r \in Busy
  BY <1>1 DEF Busy
<1>3. IsFiniteSet(Busy)
  BY FS_Subset DEF Busy
<1>4. Cardinality(Busy') = Cardinality(Busy) - 1 /\ Cardinality(Busy) \in Nat
  BY <1>2, <1>3, FS_RemoveElement, FS_CardinalityType
<1> QED
  BY <1>1, <1>4 DEF CallsInv, AnswersAddUp, Reply

\* A request under way moves on without an answer.
LEMMA Moves ==
  ASSUME RequestsInv, CallsInv, NEW r \in Reqs, req[r] # Idle,
         NEW q \in Request, q # Idle, Sound(q), req' = [req EXCEPT ![r] = q],
         UNCHANGED <<row, now, calls, answers, dropped>>
  PROVE  /\ RequestsInv' /\ CallsInv'
         /\ req'[r] = q
         /\ \A s \in Reqs \ {r} : req'[s] = req[s]
<1>1. /\ RequestsInv' /\ req'[r] = q
      /\ \A s \in Reqs \ {r} : req'[s] = req[s]
  BY OneRequest
<1>2. Busy' = Busy
  BY <1>1 DEF Busy
<1> QED
  BY <1>1, <1>2 DEF CallsInv, AnswersAddUp

\* Requests stay as they are.
LEMMA RequestsKept ==
  ASSUME RequestsInv, CallsInv, UNCHANGED <<req, row, now, calls, answers, dropped>>
  PROVE  RequestsInv' /\ CallsInv'
<1>1. Busy' = Busy
  BY DEF Busy
<1>2. \A r \in Reqs : Sound(req[r])'
  BY DEF RequestsInv, Sound, Dead
<1> QED
  BY <1>1, <1>2 DEF RequestsInv, CallsInv, AnswersAddUp

\* A new request takes a free slot, or is refused at once; the verdict on a
\* key that is dead already is never "found".
LEMMA ArriveKeeps ==
  ASSUME RequestsInv, CallsInv, NEW r \in Reqs, req[r] = Idle,
         NEW k \in Keys \cup {NoKey}, Arrive(r, k)
  PROVE  /\ RequestsInv' /\ CallsInv'
         /\ req'[r].phase # "admitted"
         /\ \A s \in Reqs \ {r} : req'[s] = req[s]
<1>1. CASE k = NoKey
  <2>1. /\ RequestsInv' /\ req'[r] = Idle
        /\ \A s \in Reqs \ {r} : req'[s] = req[s]
    BY <1>1, IdleIsSound, OneRequest DEF Arrive, Reply, keyVars
  <2>2. Busy' = Busy
    BY <2>1 DEF Busy
  <2>3. Cardinality(Busy) \in Nat
    BY FS_Subset, FS_CardinalityType DEF Busy
  <2>4. CallsInv'
    BY <1>1, <2>2, <2>3 DEF Arrive, Reply, CallsInv, AnswersAddUp
  <2> QED
    BY <2>1, <2>4 DEF Idle
<1>2. CASE k # NoKey
  <2> DEFINE q == [Idle EXCEPT !.phase = "lookup", !.key = k, !.dead = Dead(k)]
  <2>1. /\ q \in Request /\ q.phase = "lookup" /\ q.key = k
        /\ q.dead <=> Dead(k)
    <3>1. k \in Keys
      BY <1>2
    <3>2. Dead(k) \in BOOLEAN
      BY DEF Dead
    <3>3. \A d \in BOOLEAN :
            [Idle EXCEPT !.phase = "lookup", !.key = k, !.dead = d] \in Request
      BY <3>1 DEF Idle, Request
    <3>4. q \in Request
      BY Zenon, <3>2, <3>3
    <3>5. q.dead <=> Dead(k)
      BY DEF Idle
    <3>6. q.phase = "lookup" /\ q.key = k
      BY DEF Idle
    <3> QED
      BY <3>4, <3>5, <3>6
  <2>2. req' = [req EXCEPT ![r] = q]
    BY <1>2 DEF Arrive
  <2> HIDE DEF q
  <2>3. Sound(q) /\ q # Idle
    BY <1>2, <2>1 DEF Sound, Idle
  <2>4. /\ RequestsInv' /\ req'[r] = q
        /\ \A s \in Reqs \ {r} : req'[s] = req[s]
    BY <2>1, <2>2, <2>3, OneRequest DEF Arrive, keyVars
  <2>5. Busy' = Busy \cup {r} /\ r \notin Busy
    BY <2>3, <2>4 DEF Busy
  <2>6. IsFiniteSet(Busy)
    BY FS_Subset DEF Busy
  <2>7. Cardinality(Busy') = Cardinality(Busy) + 1 /\ Cardinality(Busy) \in Nat
    BY <2>5, <2>6, FS_AddElement, FS_CardinalityType
  <2>8. CallsInv'
    BY <1>2, <2>7 DEF Arrive, CallsInv, AnswersAddUp
  <2> QED
    BY <2>1, <2>4, <2>8
<1> QED
  BY <1>1, <1>2

\* The statement of the lookup sees whether the row is active; the other
\* callbacks of the guard answer.
LEMMA GuardKeeps ==
  ASSUME RequestsInv, CallsInv, NEW r \in Reqs, Guard(r)
  PROVE  /\ RequestsInv' /\ CallsInv'
         /\ req[r].phase # "admitted" /\ req'[r].phase # "admitted"
         /\ \A s \in Reqs \ {r} : req'[s] = req[s]
         /\ UNCHANGED <<keyVars, writes, counted>>
<1>1. CASE FindActiveByHash(r)
  <2> DEFINE q == [req[r] EXCEPT !.phase = "row", !.found = Active(req[r].key)]
  <2>1. req[r] \in Request /\ Sound(req[r]) /\ req[r].phase = "lookup"
    BY <1>1 DEF RequestsInv, FindActiveByHash
  <2>2. /\ q \in Request /\ q.phase = "row"
        /\ q.key = req[r].key /\ (q.dead <=> req[r].dead)
        /\ q.found <=> Active(req[r].key)
    BY <2>1 DEF Request, Active
  <2>3. req' = [req EXCEPT ![r] = q]
    BY <1>1 DEF FindActiveByHash, RequestsInv, Request
  <2> HIDE DEF q
  <2>4. Sound(q) /\ q # Idle /\ req[r] # Idle
    BY <2>1, <2>2 DEF Sound, Dead, Active, Idle
  <2> QED
    BY <1>1, <2>1, <2>2, <2>3, <2>4, Moves DEF FindActiveByHash, keyVars
<1>2. CASE LookupFails(r)
  BY <1>2, Replies DEF LookupFails, Idle, keyVars
<1>3. CASE NoSuchKey(r)
  BY <1>3, Replies DEF NoSuchKey, Idle, keyVars
<1>4. CASE OverLimit(r)
  BY <1>4, Replies DEF OverLimit, Idle, keyVars
<1> QED
  BY <1>1, <1>2, <1>3, <1>4 DEF Guard

\* next(): the request goes on, or is answered at once, and its key has a
\* write more on its way.
LEMMA AdmitKeeps ==
  ASSUME KeysInv, RequestsInv, CallsInv, NEW r \in Reqs, NEW atOnce \in BOOLEAN,
         Admit(r, atOnce)
  PROVE  /\ KeysInv' /\ RequestsInv' /\ CallsInv'
         /\ req'[r].phase = "admitted" <=> ~atOnce
         /\ \A s \in Reqs \ {r} : req'[s] = req[s]
<1>1. /\ req[r] \in Request /\ Sound(req[r])
      /\ req[r].phase = "row" /\ req[r].found
  BY DEF RequestsInv, Admit
<1>2. KeysInv'
  <2>1. req[r].key \in Keys
    BY <1>1 DEF Sound
  <2> QED
    BY <2>1, KeysAdmit DEF Admit
<1>3. CASE atOnce
  BY <1>1, <1>2, <1>3, Replies DEF Admit, Idle, keyVars
<1>4. CASE ~atOnce
  <2> DEFINE q == [req[r] EXCEPT !.phase = "admitted"]
  <2>1. /\ q \in Request /\ q.phase = "admitted"
        /\ q.key = req[r].key /\ (q.dead <=> req[r].dead)
    BY <1>1 DEF Request
  <2>2. req' = [req EXCEPT ![r] = q]
    BY <1>4 DEF Admit
  <2> HIDE DEF q
  <2>3. Sound(q) /\ q # Idle /\ req[r] # Idle
    BY <1>1, <2>1 DEF Sound, Idle
  <2> QED
    BY <1>2, <1>4, <2>1, <2>2, <2>3, Moves DEF Admit, keyVars
<1> QED
  BY <1>3, <1>4

-----------------------------------------------------------------------------
(***************************************************************************)
(* Files, the cache and the imports.                                       *)
(***************************************************************************)

\* The invocation of a free slot has its type.
LEMMA NoInvTyped == NoInv \in Invocation /\ NoInv.stage = "none"
BY DEF NoInv, Invocation, Stages

\* The operator may only make files newer.
LEMMA FilesEdited ==
  ASSUME FilesInv, file' \in [Fns -> File], \A f \in Fns : file'[f].v >= file[f].v,
         UNCHANGED <<cache, floor, inv>>
  PROVE  FilesInv'
<1>1. \A f \in Fns : file[f].v \in Nat /\ file'[f].v \in Nat /\ floor[f] \in Nat
  BY DEF FilesInv, File
<1>2. \A f \in Fns : floor'[f] <= file'[f].v
  BY <1>1 DEF FilesInv
<1> QED
  BY <1>2 DEF FilesInv, ReloadTakes

\* One invocation becomes x, which has read nothing stale; the cache may
\* take what the invocation had read.
LEMMA OneInvocation ==
  ASSUME FilesInv, NEW r \in Reqs, NEW x \in Invocation,
         x.stage = "imported" => x.v >= floor[x.fn],
         inv' = [inv EXCEPT ![r] = x], UNCHANGED <<file, floor>>,
         \/ cache' = cache
         \/ inv[r].stage = "imported" /\ cache' = [cache EXCEPT ![inv[r].fn] = inv[r].v]
  PROVE  FilesInv' /\ inv'[r] = x /\ \A s \in Reqs \ {r} : inv'[s] = inv[s]
<1> USE DEF FilesInv
<1>1. inv' \in [Reqs -> Invocation] /\ inv'[r] = x
      /\ \A s \in Reqs \ {r} : inv'[s] = inv[s]
  OBVIOUS
<1>2. \A s \in Reqs : inv'[s].stage = "imported" => inv'[s].v >= floor'[inv'[s].fn]
  BY <1>1 DEF ReloadTakes
<1>3. /\ cache' \in [Fns -> 0..MaxEdits]
      /\ \A f \in Fns : cache'[f] # 0 => cache'[f] >= floor'[f]
  <2>1. CASE cache' = cache
    BY <2>1 DEF ReloadTakes
  <2>2. CASE inv[r].stage = "imported" /\ cache' = [cache EXCEPT ![inv[r].fn] = inv[r].v]
    <3>1. inv[r].v \in 0..MaxEdits /\ inv[r].fn \in Fns
      BY DEF Invocation
    <3>2. inv[r].v >= floor[inv[r].fn]
      BY <2>2 DEF ReloadTakes
    <3> QED
      BY <2>2, <3>1, <3>2 DEF ReloadTakes
  <2> QED
    BY <2>1, <2>2
<1> QED
  BY <1>1, <1>2, <1>3 DEF ReloadTakes

\* Functions are reloaded, and no invocation reads a file meanwhile.
LEMMA FilesReloaded ==
  ASSUME FilesInv, NEW F \in SUBSET Fns, cache' = Cleared(F), floor' = Floor(F),
         file' = file, inv' \in [Reqs -> Invocation],
         \A s \in Reqs : inv'[s] = inv[s] \/ inv'[s].stage # "imported"
  PROVE  FilesInv'
<1> USE DEF FilesInv
<1>1. \A f \in Fns : file[f].v \in 1..MaxEdits /\ floor[f] \in 0..MaxEdits
  BY DEF File
<1>2. \A f \in Fns : /\ floor'[f] = file[f].v \/ floor'[f] = floor[f]
                     /\ Importing(f) => floor'[f] = floor[f]
                     /\ f \notin F => floor'[f] = floor[f]
                     /\ f \in F => cache'[f] = 0
                     /\ f \notin F => cache'[f] = cache[f]
  BY DEF Floor, Cleared
<1>3. cache' \in [Fns -> 0..MaxEdits] /\ floor' \in [Fns -> 0..MaxEdits]
  <2>1. cache' = [f \in Fns |-> cache'[f]] /\ floor' = [f \in Fns |-> floor'[f]]
    BY DEF Cleared, Floor
  <2>2. \A f \in Fns : cache'[f] \in 0..MaxEdits /\ floor'[f] \in 0..MaxEdits
    BY <1>1, <1>2
  <2> QED
    BY <2>1, <2>2
<1>4. \A f \in Fns : floor'[f] <= file'[f].v
  BY <1>1, <1>2
<1>5. \A f \in Fns : cache'[f] # 0 => cache'[f] >= floor'[f]
  BY <1>2 DEF ReloadTakes
<1>6. \A s \in Reqs : inv'[s].stage = "imported" => inv'[s].v >= floor'[inv'[s].fn]
  <2> SUFFICES ASSUME NEW s \in Reqs, inv'[s].stage = "imported"
               PROVE  inv'[s].v >= floor'[inv'[s].fn]
    OBVIOUS
  <2>1. inv'[s] = inv[s] /\ inv[s].fn \in Fns
    BY DEF Invocation
  <2>2. Importing(inv[s].fn)
    BY <2>1 DEF Importing
  <2> QED
    BY <1>2, <2>1, <2>2 DEF ReloadTakes
<1> QED
  BY <1>3, <1>4, <1>5, <1>6 DEF ReloadTakes

-----------------------------------------------------------------------------
(***************************************************************************)
(* Every step keeps the invariant.                                         *)
(***************************************************************************)

\* A request that dispatch is done with, or is not yet in, holds no module.
LEMMA StagesMove ==
  ASSUME StagesInv, NEW r \in Reqs,
         inv'[r].stage \in Holding <=> req'[r].phase = "admitted",
         \A s \in Reqs \ {r} : inv'[s] = inv[s] /\ req'[s] = req[s]
  PROVE  StagesInv'
BY DEF StagesInv

\* The operator's steps: nobody at the guard notices.
LEMMA OperatorKeeps ==
  ASSUME IInv, NEW f \in Fns,
         (\E ok \in BOOLEAN : Edit(f, ok)) \/ RemoveFile(f)
  PROVE  IInv'
<1> USE DEF IInv
<1>1. UNCHANGED <<apiVars, cache, inv, floor>>
  BY DEF Edit, RemoveFile
<1>2. KeysInv' /\ RequestsInv' /\ CallsInv' /\ StagesInv'
  BY <1>1, KeysKept, RequestsKept DEF apiVars, keyVars, guardVars, StagesInv
<1>3. file[f] \in File /\ file \in [Fns -> File]
  BY DEF FilesInv
<1>4. CASE RemoveFile(f)
  <2> DEFINE x == [file[f] EXCEPT !.there = FALSE, !.ok = TRUE]
  <2>1. x \in File /\ x.v = file[f].v
    BY <1>3 DEF File
  <2>2. file' = [file EXCEPT ![f] = x]
    BY <1>3, <1>4 DEF RemoveFile, File
  <2> HIDE DEF x
  <2>3. file' \in [Fns -> File] /\ \A g \in Fns : file'[g].v >= file[g].v
    BY <1>3, <2>1, <2>2 DEF File
  <2> QED
    BY <1>1, <1>2, <2>3, FilesEdited
<1>5. ASSUME NEW ok \in BOOLEAN, Edit(f, ok)
      PROVE  IInv'
  <2> DEFINE x == [v |-> file[f].v + 1, there |-> TRUE, ok |-> ok]
  <2>1. x \in File /\ x.v = file[f].v + 1
    BY <1>3, <1>5 DEF Edit, File
  <2>2. file' = [file EXCEPT ![f] = x]
    BY <1>5 DEF Edit
  <2> HIDE DEF x
  <2>3. file' \in [Fns -> File] /\ \A g \in Fns : file'[g].v >= file[g].v
    BY <1>3, <2>1, <2>2 DEF File
  <2> QED
    BY <1>1, <1>2, <2>3, FilesEdited
<1> QED
  BY <1>4, <1>5

\* POST /_reload, of one function or of all.
LEMMA ReloadKeeps ==
  ASSUME IInv, NEW F \in SUBSET Fns, Reload(F)
  PROVE  IInv'
<1> USE DEF IInv
<1>1. KeysInv' /\ RequestsInv' /\ CallsInv' /\ StagesInv'
  BY KeysKept, RequestsKept DEF Reload, apiVars, keyVars, guardVars, StagesInv
<1>2. FilesInv'
  <2>1. inv \in [Reqs -> Invocation]
    BY DEF FilesInv
  <2> QED
    BY <2>1, FilesReloaded DEF Reload
<1> QED
  BY <1>1, <1>2

\* What dispatch does with an admitted request.
LEMMA DispatchKeeps ==
  ASSUME IInv, NEW r \in Reqs, NEW f \in Fns, NEW reload \in BOOLEAN,
         Dispatch(r, f, reload)
  PROVE  IInv'
<1> USE DEF IInv
<1>1. PICK F \in SUBSET Fns : F = IF reload THEN {f} ELSE {}
  OBVIOUS
<1>2. PICK missing \in BOOLEAN : missing <=> (Cleared(F)[f] = 0 /\ ~file[f].there)
  OBVIOUS
<1>3. PICK x \in Invocation :
        /\ x = CASE missing -> NoInv
                 [] Cleared(F)[f] # 0 -> [NoInv EXCEPT !.stage = "running"]
                 [] OTHER -> [NoInv EXCEPT !.fn = f, !.stage = "import"]
        /\ x.stage # "imported"
        /\ x.stage \in Holding <=> ~missing
  <2> DEFINE run == [NoInv EXCEPT !.stage = "running"]
             import == [NoInv EXCEPT !.fn = f, !.stage = "import"]
  <2>1. /\ run \in Invocation /\ run.stage = "running"
        /\ import \in Invocation /\ import.stage = "import"
    BY NoInvTyped DEF Invocation, Stages
  <2> HIDE DEF run, import
  <2>2. CASE missing
    <3>1. Cleared(F)[f] = 0
      BY <1>2, <2>2
    <3> QED
      BY <2>2, <3>1, NoInvTyped DEF Holding
  <2>3. CASE ~missing /\ Cleared(F)[f] # 0
    BY <2>1, <2>3 DEF Holding, run
  <2>4. CASE ~missing /\ Cleared(F)[f] = 0
    BY <2>1, <2>4 DEF Holding, import
  <2> QED
    BY <2>2, <2>3, <2>4
<1>4. /\ Admit(r, missing)
      /\ cache' = Cleared(F) /\ floor' = Floor(F) /\ file' = file
      /\ inv' = [inv EXCEPT ![r] = x]
  BY <1>1, <1>2, <1>3 DEF Dispatch
<1>5. /\ KeysInv' /\ RequestsInv' /\ CallsInv'
      /\ req'[r].phase = "admitted" <=> ~missing
      /\ \A s \in Reqs \ {r} : req'[s] = req[s]
  BY <1>4, AdmitKeeps
<1>6. /\ inv' \in [Reqs -> Invocation] /\ inv'[r] = x
      /\ \A s \in Reqs \ {r} : inv'[s] = inv[s]
  BY <1>4 DEF FilesInv
<1>7. FilesInv'
  BY <1>3, <1>4, <1>6, FilesReloaded
<1>8. StagesInv'
  BY <1>3, <1>5, <1>6, StagesMove
<1> QED
  BY <1>5, <1>7, <1>8

\* An invocation moves while its request waits.
LEMMA InvocationMoves ==
  ASSUME IInv, NEW r \in Reqs, NEW x \in Invocation,
         x.stage = "imported" => x.v >= floor[x.fn],
         x.stage \in Holding <=> inv[r].stage \in Holding,
         inv' = [inv EXCEPT ![r] = x], UNCHANGED <<apiVars, file, floor>>,
         \/ cache' = cache
         \/ inv[r].stage = "imported" /\ cache' = [cache EXCEPT ![inv[r].fn] = inv[r].v]
  PROVE  IInv'
<1> USE DEF IInv
<1>1. /\ KeysInv' /\ RequestsInv' /\ CallsInv'
      /\ req' = req
  BY KeysKept, RequestsKept DEF apiVars, keyVars, guardVars
<1>2. FilesInv' /\ inv'[r] = x /\ \A s \in Reqs \ {r} : inv'[s] = inv[s]
  BY OneInvocation
<1>3. StagesInv'
  BY <1>1, <1>2 DEF StagesInv
<1> QED
  BY <1>1, <1>2, <1>3

\* The request is answered and its invocation lets go.
LEMMA InvocationAnswers ==
  ASSUME IInv, NEW r \in Reqs, NEW x \in Invocation, x.stage \in {"none", "late"},
         inv[r].stage \in Holding, Reply(r), inv' = [inv EXCEPT ![r] = x],
         UNCHANGED <<keyVars, window, calls, dropped, admitted, now, writes, counted,
                     file, cache, floor>>
  PROVE  IInv'
<1> USE DEF IInv
<1>1. req[r] # Idle
  BY DEF StagesInv, Idle
<1>2. /\ KeysInv' /\ RequestsInv' /\ CallsInv'
      /\ req'[r] = Idle
      /\ \A s \in Reqs \ {r} : req'[s] = req[s]
  BY <1>1, KeysKept, Replies DEF keyVars
<1>3. FilesInv' /\ inv'[r] = x /\ \A s \in Reqs \ {r} : inv'[s] = inv[s]
  BY OneInvocation
<1>4. StagesInv'
  BY <1>2, <1>3, StagesMove DEF Idle, Holding
<1> QED
  BY <1>2, <1>3, <1>4

\* The loader and the race of handler and deadline.
LEMMA HandlerKeeps ==
  ASSUME IInv, NEW r \in Reqs,
         \/ ImportReads(r) \/ ImportDone(r) \/ Settle(r) \/ Deadline(r) \/ SettleLate(r)
  PROVE  IInv'
<1>0. /\ inv[r] \in Invocation /\ inv[r].fn \in Fns
      /\ file[inv[r].fn] \in File /\ floor[inv[r].fn] <= file[inv[r].fn].v
  BY DEF IInv, FilesInv, Invocation
<1>1. CASE ImportReads(r)
  <2> DEFINE f == inv[r].fn
             x == [inv[r] EXCEPT !.stage = "imported", !.v = file[f].v,
                                 !.ok = file[f].there /\ file[f].ok]
  <2>1. /\ x \in Invocation /\ x.stage = "imported"
        /\ x.v = file[f].v /\ x.fn = f
    <3>0. file[f].v \in 0..MaxEdits
      BY <1>0 DEF File
    <3>1. \A ok \in BOOLEAN, v \in 0..MaxEdits :
            [inv[r] EXCEPT !.stage = "imported", !.v = v, !.ok = ok] \in Invocation
      BY <1>0 DEF Invocation, Stages
    <3>2. (file[f].there /\ file[f].ok) \in BOOLEAN
      OBVIOUS
    <3>3. x \in Invocation
      BY Zenon, <3>0, <3>1, <3>2
    <3>4. x.stage = "imported" /\ x.v = file[f].v /\ x.fn = f
      BY <1>0 DEF Invocation
    <3> QED
      BY <3>3, <3>4
  <2>2. inv' = [inv EXCEPT ![r] = x]
    BY <1>0, <1>1 DEF ImportReads, Invocation
  <2> HIDE DEF x
  <2>3. x.v >= floor[x.fn]
    <3>1. file[f].v \in Nat /\ floor[f] \in Nat
      BY <1>0 DEF IInv, FilesInv, File
    <3> QED
      BY <1>0, <2>1, <3>1
  <2> QED
    BY <1>1, <2>1, <2>2, <2>3, InvocationMoves DEF ImportReads, Holding
<1>2. CASE ImportDone(r) /\ inv[r].ok
  <2> DEFINE x == [NoInv EXCEPT !.stage = "running"]
  <2>1. x \in Invocation /\ x.stage = "running"
    BY NoInvTyped DEF Invocation, Stages
  <2> HIDE DEF x
  <2>2. /\ inv' = [inv EXCEPT ![r] = x] /\ inv[r].stage = "imported"
        /\ cache' = [cache EXCEPT ![inv[r].fn] = inv[r].v]
        /\ UNCHANGED <<apiVars, file, floor>>
    BY <1>2 DEF ImportDone, x, apiVars, guardVars
  <2> QED
    BY <2>1, <2>2, InvocationMoves DEF Holding
<1>3. CASE ImportDone(r) /\ ~inv[r].ok
  BY <1>3, NoInvTyped, InvocationAnswers DEF ImportDone, Holding
<1>4. CASE Settle(r)
  BY <1>4, NoInvTyped, InvocationAnswers DEF Settle, Holding
<1>5. CASE Deadline(r)
  <2> DEFINE x == [inv[r] EXCEPT !.stage = "late"]
  <2>1. x \in Invocation /\ x.stage = "late"
    BY <1>0 DEF Invocation, Stages
  <2>2. inv' = [inv EXCEPT ![r] = x]
    BY <1>5 DEF Deadline
  <2> HIDE DEF x
  <2> QED
    BY <1>5, <2>1, <2>2, InvocationAnswers DEF Deadline, Holding
<1>6. CASE SettleLate(r)
  BY <1>6, NoInvTyped, InvocationMoves DEF SettleLate, Holding
<1> QED
  BY <1>1, <1>2, <1>3, <1>4, <1>5, <1>6

\* A request comes in, or the guard goes on with it.
LEMMA RequestKeeps ==
  ASSUME IInv, NEW r \in Reqs,
         (\E k \in Keys \cup {NoKey} : Receive(r, k)) \/ Guard(r)
  PROVE  IInv'
<1> USE DEF IInv
<1>1. ASSUME NEW k \in Keys \cup {NoKey}, Receive(r, k)
      PROVE  IInv'
  <2>1. /\ RequestsInv' /\ CallsInv'
        /\ req'[r].phase # "admitted"
        /\ \A s \in Reqs \ {r} : req'[s] = req[s]
    BY <1>1, ArriveKeeps DEF Receive, Free
  <2>2. KeysInv'
    BY <1>1, KeysKept DEF Receive, Arrive
  <2>3. FilesInv'
    BY <1>1 DEF Receive, fnVars, FilesInv, ReloadTakes
  <2>4. StagesInv'
    BY <1>1, <2>1, StagesMove DEF Receive, Free, fnVars, Holding
  <2> QED
    BY <2>1, <2>2, <2>3, <2>4
<1>2. CASE Guard(r)
  <2>1. /\ RequestsInv' /\ CallsInv'
        /\ req[r].phase # "admitted" /\ req'[r].phase # "admitted"
        /\ \A s \in Reqs \ {r} : req'[s] = req[s]
        /\ UNCHANGED <<keyVars, writes, counted>>
    BY <1>2, GuardKeeps
  <2>2. KeysInv'
    BY <2>1, KeysKept
  <2>3. UNCHANGED fnVars
    BY <1>2 DEF Guard
  <2>4. FilesInv'
    BY <2>3 DEF fnVars, FilesInv, ReloadTakes
  <2>5. StagesInv'
    BY <2>1, <2>3, StagesMove DEF fnVars, StagesInv
  <2> QED
    BY <2>1, <2>2, <2>4, <2>5
<1> QED
  BY <1>1, <1>2

\* A restart drops every request that was under way, and what it had read.
LEMMA RestartKeeps ==
  ASSUME IInv, Restart
  PROVE  IInv'
<1> USE DEF IInv, Restart
<1>1. KeysInv'
  BY KeysKept DEF ForgetWindows
<1>2. \A r \in Reqs : req'[r] = Idle /\ inv'[r] = NoInv
  BY DEF ForgetWindows
<1>3. RequestsInv'
  <2>1. req' \in [Reqs -> Request]
    BY <1>2, IdleIsSound DEF ForgetWindows
  <2>2. \A r \in Reqs : Sound(req[r])'
    BY <1>2 DEF Sound, Idle
  <2> QED
    BY <2>1, <2>2 DEF RequestsInv
<1>4. CallsInv'
  <2>1. Busy' = {}
    BY <1>2 DEF Busy
  <2>2. Cardinality(Busy') = 0
    BY <2>1, FS_EmptySet
  <2>3. Cardinality(Busy) \in Nat
    BY FS_Subset, FS_CardinalityType DEF Busy
  <2> QED
    BY <2>2, <2>3 DEF ForgetWindows, CallsInv, AnswersAddUp
<1>5. FilesInv'
  BY <1>2, NoInvTyped DEF FilesInv, ReloadTakes
<1>6. StagesInv'
  BY <1>2, NoInvTyped DEF StagesInv, Holding, Idle
<1> QED
  BY <1>1, <1>3, <1>4, <1>5, <1>6

\* Every step of the functions service and of the admin service keeps the
\* invariant.
LEMMA NextIInv == IInv /\ [Next]_vars => IInv'
<1> SUFFICES ASSUME IInv, [Next]_vars PROVE IInv'
  OBVIOUS
<1>1. CASE UNCHANGED vars
  <2> USE <1>1 DEF vars, apiVars, fnVars, IInv
  <2>1. KeysInv' /\ RequestsInv' /\ CallsInv' /\ StagesInv'
    BY KeysKept, RequestsKept DEF keyVars, guardVars, StagesInv
  <2>2. FilesInv'
    BY DEF FilesInv, ReloadTakes
  <2> QED
    BY <2>1, <2>2
<1>2. CASE AdminNext /\ UNCHANGED fnVars
  <2> USE <1>2 DEF IInv, fnVars
  <2>1. KeysInv' /\ RequestsInv' /\ CallsInv' /\ req' = req
    BY KeysAdmin, AdminKeepsRequests
  <2>2. FilesInv' /\ StagesInv'
    BY <2>1 DEF FilesInv, ReloadTakes, StagesInv
  <2> QED
    BY <2>1, <2>2
<1>3. ASSUME NEW r \in Reqs,
             \/ \E k \in Keys \cup {NoKey} : Receive(r, k)
             \/ Serve(r) \/ Settle(r) \/ SettleLate(r)
      PROVE  IInv'
  BY <1>3, RequestKeeps, DispatchKeeps, HandlerKeeps DEF Serve
<1>4. ASSUME NEW f \in Fns,
             (\E ok \in BOOLEAN : Edit(f, ok)) \/ RemoveFile(f) \/ Reload({f})
      PROVE  IInv'
  BY <1>4, OperatorKeeps, ReloadKeeps
<1>5. CASE Reload(Fns)
  BY <1>5, ReloadKeeps
<1>6. CASE Restart
  BY <1>6, RestartKeeps
<1> QED
  BY <1>1, <1>2, <1>3, <1>4, <1>5, <1>6 DEF Next

\* The functions service and the admin service keep the invariant.
THEOREM SpecIInv == Spec => []IInv
BY InitIInv, NextIInv, PTL DEF Spec

\* OnlyLiveKeysRun: a request whose key was revoked or deleted when it came
\* is never admitted, and every key that can be found has its project, for
\* every number of keys, requests and projects.
THEOREM OnlyLiveKeysAlwaysRun == Spec => []OnlyLiveKeysRun
<1>1. IInv => OnlyLiveKeysRun
  BY DEF IInv, KeysInv, RequestsInv, Sound, OnlyLiveKeysRun, DeadKeysStayOut
<1> QED
  BY <1>1, SpecIInv, PTL

\* ReloadTakes: after a clean reload neither the cache nor an import under
\* way holds an older edit, however edits, reloads and imports interleave.
THEOREM ReloadAlwaysTakes == Spec => []ReloadTakes
<1>1. IInv => ReloadTakes
  BY DEF IInv, FilesInv
<1> QED
  BY <1>1, SpecIInv, PTL

-----------------------------------------------------------------------------
(***************************************************************************)
(* The rate bound.  The window of a key is what is young among the hits    *)
(* that were admitted: what allow() has filtered out is too old to count   *)
(* in any interval that is still to come.                                  *)
(***************************************************************************)
During(k, t) == {h \in InWindow(admitted[k], t) : h.at <= t}

HitsInv(k) ==
  /\ admitted[k] \in SUBSET Hit /\ IsFiniteSet(admitted[k])
  /\ window[k] \subseteq admitted[k]
  /\ \A h \in admitted[k] : h.at <= now /\ h.no <= Cardinality(admitted[k])
  /\ \A h \in admitted[k] \ window[k] : h.at + Window <= now
  /\ admitted[k] # {} => row[k].state # "none"
  /\ \A t \in 0..now : Cardinality(During(k, t)) <= row[k].limit

RatesInv ==
  /\ window \in [Keys -> SUBSET Hit] /\ admitted \in [Keys -> SUBSET Hit]
  /\ \A k \in Keys : HitsInv(k)
  /\ \A r \in Reqs : req[r].found => req[r].key \in Keys /\ row[req[r].key].state # "none"

\* Nobody has been admitted.
LEMMA InitRates == Init => RatesInv
<1> SUFFICES ASSUME Init PROVE RatesInv
  OBVIOUS
<1> USE DEF Init, InitKeys
<1>1. ASSUME NEW k \in Keys PROVE HitsInv(k)
  <2>1. \A t \in 0..now : During(k, t) = {}
    BY DEF During, InWindow
  <2>2. IsFiniteSet({}) /\ Cardinality({}) = 0
    BY FS_EmptySet
  <2>3. admitted[k] = {} /\ window[k] = {} /\ row[k].limit = 0
    BY DEF NoRow
  <2>4. ASSUME NEW t \in 0..now PROVE Cardinality(During(k, t)) <= row[k].limit
    <3>1. During(k, t) = {}
      BY <2>1
    <3> HIDE DEF Init, InitKeys
    <3> QED
      BY <2>2, <2>3, <3>1
  <2> QED
    BY <2>2, <2>3, <2>4 DEF HitsInv
<1> QED
  BY <1>1 DEF RatesInv, Idle

\* The row of a key keeps its limit, and the key its row.
LEMMA RowsStay ==
  ASSUME KeysInv, [Next]_vars
  PROVE  \A k \in Keys : row[k].state # "none" =>
           row'[k].state # "none" /\ row'[k].limit = row[k].limit
<1> SUFFICES ASSUME NEW k \in Keys, row[k].state # "none"
             PROVE  row'[k].state # "none" /\ row'[k].limit = row[k].limit
  OBVIOUS
<1>0. row \in [Keys -> Key] /\ minting \in [Keys -> Projects \cup {NoKey}]
  BY DEF KeysInv
<1>1. ASSUME NEW j \in Keys, NEW limit \in Limits, FinishMint(j, limit)
      PROVE  row'[k] = row[k]
  <2>1. j # k
    BY <1>1 DEF FinishMint, KeysInv
  <2> QED
    BY <1>0, <1>1, <2>1 DEF FinishMint, createKey
<1>2. ASSUME NEW j \in Keys, handleRevokeKey(j)
      PROVE  row'[k].state # "none" /\ row'[k].limit = row[k].limit
  <2>1. row' = [row EXCEPT ![j] = [row[j] EXCEPT !.state = "revoked"]]
    BY <1>0, <1>2 DEF handleRevokeKey, revokeKey, Key
  <2>2. row'[k] = IF k = j THEN [row[j] EXCEPT !.state = "revoked"] ELSE row[k]
    BY <1>0, <2>1
  <2> QED
    BY <1>0, <2>2 DEF Key
<1>3. ASSUME NEW p \in Projects, handleDeleteProject(p)
      PROVE  row'[k].state # "none" /\ row'[k].limit = row[k].limit
  <2>1. row'[k] = IF k \in KeysOf(p) THEN [row[k] EXCEPT !.state = "deleted"] ELSE row[k]
    BY <1>3 DEF handleDeleteProject, cascade
  <2>2. row[k] \in Key
    BY <1>0
  <2> QED
    BY <2>1, <2>2 DEF Key
<1>4. CASE AdminNext
  <2>1. ASSUME NEW j \in Keys,
               (\E p \in Projects : StartMint(j, p)) \/ RecordUsage(j) \/ LoseUsage(j)
        PROVE  row' = row
    BY <2>1 DEF StartMint, RecordUsage, LoseUsage, keyVars
  <2>2. CASE Tick
    BY <2>2 DEF Tick, keyVars
  <2> QED
    BY <1>1, <1>2, <1>3, <1>4, <2>1, <2>2 DEF AdminNext
<1>5. ASSUME NEW r \in Reqs,
             \/ \E j \in Keys \cup {NoKey} : Receive(r, j)
             \/ Serve(r) \/ Settle(r) \/ SettleLate(r)
      PROVE  row' = row
  BY <1>5 DEF Receive, Arrive, Serve, Guard, FindActiveByHash, LookupFails, NoSuchKey,
              OverLimit, Dispatch, Admit, ImportReads, ImportDone, Deadline, Settle,
              SettleLate, keyVars, apiVars
<1>6. ASSUME NEW f \in Fns,
             (\E ok \in BOOLEAN : Edit(f, ok)) \/ RemoveFile(f) \/ Reload({f})
      PROVE  row' = row
  BY <1>6 DEF Edit, RemoveFile, Reload, apiVars, keyVars
<1>7. CASE Reload(Fns) \/ Restart \/ UNCHANGED vars
  BY <1>7 DEF Reload, Restart, ForgetWindows, vars, apiVars, keyVars
<1> QED
  BY <1>4, <1>5, <1>6, <1>7 DEF Next

\* Steps that admit nobody: the window may be swept, time may pass.
LEMMA HitsKept ==
  ASSUME NEW k \in Keys, RatesInv, KeysInv, KeysInv', [Next]_vars,
         now \in Nat, now' \in Nat, now' = now \/ now' = now + 1,
         admitted'[k] = admitted[k],
         window'[k] = window[k] \/ window'[k] = InWindow(window[k], now)
  PROVE  HitsInv(k)'
<1> DEFINE A == admitted[k]
<1>0. HitsInv(k)
  BY DEF RatesInv
<1>1. /\ A \in SUBSET Hit /\ IsFiniteSet(A)
      /\ \A h \in A : h.at \in Nat /\ h.at <= now /\ h.no <= Cardinality(A)
  BY <1>0 DEF HitsInv, Hit
<1>2. window'[k] \subseteq admitted'[k]
  BY <1>0 DEF HitsInv, InWindow
<1>3. \A h \in admitted'[k] \ window'[k] : h.at + Window <= now'
  <2> SUFFICES ASSUME NEW h \in A, h \notin window'[k] PROVE h.at + Window <= now'
    OBVIOUS
  <2>1. h.at \in Nat /\ Window \in Nat
    BY <1>1
  <2>2. CASE h \notin window[k]
    BY <1>0, <2>1, <2>2 DEF HitsInv
  <2>3. CASE h \in window[k]
    BY <2>1, <2>3 DEF InWindow
  <2> QED
    BY <2>2, <2>3
<1>4. row[k].limit \in Nat /\ row'[k].limit \in Nat
  BY DEF KeysInv, Key
<1>5. ASSUME NEW t \in 0..now' PROVE Cardinality(During(k, t)') <= row'[k].limit
  <2>1. During(k, t)' = {h \in InWindow(A, t) : h.at <= t}
    BY DEF During, InWindow
  <2>2. CASE A = {}
    <3>1. During(k, t)' = {}
      BY <2>1, <2>2 DEF InWindow
    <3> QED
      BY <1>4, <3>1, FS_EmptySet
  <2>3. CASE A # {}
    <3>1. row'[k].limit = row[k].limit
      BY <1>0, <2>3, RowsStay DEF HitsInv
    <3>2. PICK s \in 0..now : During(k, t)' \subseteq During(k, s)
      <4>1. CASE t <= now
        BY <2>1, <4>1 DEF During
      <4>2. CASE t = now + 1
        <5>1. During(k, t)' \subseteq During(k, now)
          BY <1>1, <2>1, <4>2 DEF During, InWindow
        <5> QED
          BY <5>1
      <4> QED
        BY <4>1, <4>2
    <3>3. IsFiniteSet(During(k, s)) /\ Cardinality(During(k, s)) <= row[k].limit
      BY <1>0, <1>1, FS_Subset DEF HitsInv, During, InWindow
    <3>4. /\ Cardinality(During(k, t)') <= Cardinality(During(k, s))
          /\ Cardinality(During(k, t)') \in Nat /\ Cardinality(During(k, s)) \in Nat
      BY <3>2, <3>3, FS_Subset, FS_CardinalityType
    <3> QED
      BY <1>4, <3>1, <3>3, <3>4
  <2> QED
    BY <2>2, <2>3
<1>6. admitted'[k] # {} => row'[k].state # "none"
  BY <1>0, RowsStay DEF HitsInv
<1>7. \A h \in admitted'[k] : h.at <= now' /\ h.no <= Cardinality(admitted'[k])
  BY <1>1
<1> QED
  BY <1>1, <1>2, <1>3, <1>5, <1>6, <1>7 DEF HitsInv

\* A hit joins a window that has room.
LEMMA HitJoins ==
  ASSUME NEW k \in Keys, RatesInv, KeysInv, now \in Nat, row[k].state # "none",
         Allow(k), UNCHANGED <<now, row>>,
         NEW hit, hit = [no |-> Cardinality(admitted[k]) + 1, at |-> now],
         admitted'[k] = admitted[k] \cup {hit},
         window'[k] = InWindow(window[k], now) \cup {hit}
  PROVE  HitsInv(k)' /\ hit \in Hit
<1> DEFINE A == admitted[k]
           n == Cardinality(A)
<1>0. HitsInv(k)
  BY DEF RatesInv
<1>1. /\ A \in SUBSET Hit /\ IsFiniteSet(A) /\ n \in Nat
      /\ \A h \in A : h.at \in Nat /\ h.at <= now /\ h.no \in Nat /\ h.no <= n
  BY <1>0, FS_CardinalityType DEF HitsInv, Hit
<1>2. hit \in Hit /\ hit.at = now /\ hit.no = n + 1
  BY <1>1 DEF Hit
<1> HIDE DEF n
<1>3. hit \notin A
  BY <1>1, <1>2
<1>4. IsFiniteSet(admitted'[k]) /\ Cardinality(admitted'[k]) = n + 1
  <2>1. IsFiniteSet(A) /\ hit \notin A /\ admitted'[k] = A \cup {hit}
    BY <1>1, <1>3
  <2> HIDE DEF A
  <2>2. IsFiniteSet(A \cup {hit}) /\ Cardinality(A \cup {hit}) = Cardinality(A) + 1
    BY <2>1, FS_AddElement
  <2> QED
    BY <2>1, <2>2 DEF n
<1>5. admitted'[k] \in SUBSET Hit /\ window'[k] \subseteq admitted'[k]
  BY <1>0, <1>1, <1>2 DEF HitsInv, InWindow
<1>6. \A h \in admitted'[k] : h.at <= now' /\ h.no <= Cardinality(admitted'[k])
  BY <1>1, <1>2, <1>4
<1>7. \A h \in admitted'[k] \ window'[k] : h.at + Window <= now'
  <2> SUFFICES ASSUME NEW h \in A, h \notin window'[k] PROVE h.at + Window <= now
    OBVIOUS
  <2>1. h.at \in Nat /\ Window \in Nat
    BY <1>1
  <2>2. CASE h \notin window[k]
    BY <1>0, <2>2 DEF HitsInv
  <2>3. CASE h \in window[k]
    BY <2>1, <2>3 DEF InWindow
  <2> QED
    BY <2>2, <2>3
<1>8. row[k].limit \in Nat
  BY DEF KeysInv, Key
<1>9. ASSUME NEW t \in 0..now' PROVE Cardinality(During(k, t)') <= row'[k].limit
  <2>1. During(k, t)' = {h \in InWindow(A \cup {hit}, t) : h.at <= t}
    BY DEF During, InWindow
  <2>2. CASE t < now
    <3>1. During(k, t)' = During(k, t)
      BY <1>2, <2>1, <2>2 DEF During, InWindow
    <3> QED
      BY <1>0, <3>1 DEF HitsInv
  <2>3. CASE t = now
    <3> DEFINE W == InWindow(window[k], now)
    <3>1. During(k, t)' = W \cup {hit}
      <4>1. \A h \in A : h.at + Window > now => h \in window[k]
        BY <1>0, <1>1 DEF HitsInv
      <4>2. window[k] \subseteq A /\ Window > 0 /\ Window \in Nat
        BY <1>0 DEF HitsInv
      <4>3. \A h : h \in During(k, t)' <=> h \in W \cup {hit}
        BY <1>1, <1>2, <2>1, <2>3, <4>1, <4>2 DEF InWindow
      <4> QED
        BY <4>3
    <3>2. W \subseteq A
      BY <1>0 DEF HitsInv, InWindow
    <3>3. IsFiniteSet(W) /\ hit \notin W
      BY <1>1, <1>3, <3>2, FS_Subset
    <3>4. Cardinality(W \cup {hit}) = Cardinality(W) + 1 /\ Cardinality(W) \in Nat
      BY <3>3, FS_AddElement, FS_CardinalityType
    <3>5. Cardinality(W) < row[k].limit
      BY DEF Allow
    <3> HIDE DEF W
    <3> QED
      BY <1>8, <3>1, <3>4, <3>5
  <2> QED
    BY <2>2, <2>3
<1> QED
  BY <1>2, <1>4, <1>5, <1>6, <1>7, <1>9 DEF HitsInv

\* What a step leaves of a window, and what it may find.
LEMMA RatesMove ==
  ASSUME RatesInv, KeysInv, KeysInv', [Next]_vars,
         now \in Nat, now' \in Nat, now' = now \/ now' = now + 1,
         window' \in [Keys -> SUBSET Hit], UNCHANGED admitted,
         \A k \in Keys : window'[k] = window[k] \/ window'[k] = InWindow(window[k], now),
         \A r \in Reqs : req'[r].found =>
           \/ req[r].found /\ req'[r].key = req[r].key
           \/ req'[r].key \in Keys /\ Active(req'[r].key)
  PROVE  RatesInv'
<1>1. \A k \in Keys : HitsInv(k)'
  BY HitsKept
<1>2. \A r \in Reqs : req'[r].found =>
        req'[r].key \in Keys /\ row[req'[r].key].state # "none"
  BY DEF RatesInv, Active
<1>3. \A r \in Reqs : req'[r].found =>
        req'[r].key \in Keys /\ row'[req'[r].key].state # "none"
  BY <1>2, RowsStay
<1> QED
  BY <1>1, <1>3 DEF RatesInv

\* Every step keeps the rate bound.
LEMMA NextRates ==
  ASSUME IInv, KeysInv', RatesInv, [Next]_vars
  PROVE  RatesInv'
<1>0. /\ KeysInv /\ RequestsInv
      /\ now \in Nat /\ MaxTime \in Nat
      /\ req \in [Reqs -> Request]
      /\ window \in [Keys -> SUBSET Hit] /\ admitted \in [Keys -> SUBSET Hit]
  BY DEF IInv, CallsInv, RequestsInv, RatesInv
<1> DEFINE Same == /\ UNCHANGED <<window, admitted>>
                   /\ now' = now \/ now' = now + 1
                   /\ \A r \in Reqs : req'[r].found =>
                        \/ req[r].found /\ req'[r].key = req[r].key
                        \/ req'[r].key \in Keys /\ Active(req'[r].key)
<1>1. ASSUME Same PROVE RatesInv'
  <2>1. now' \in Nat
    BY <1>0, <1>1
  <2> QED
    BY <1>0, <1>1, <2>1, RatesMove
<1>2. CASE UNCHANGED req /\ UNCHANGED <<window, admitted>> /\ (now' = now \/ now' = now + 1)
  <2>1. Same
    BY <1>2
  <2> QED
    BY <1>1, <2>1
<1>3. ASSUME NEW r \in Reqs, req' = [req EXCEPT ![r] = Idle],
             UNCHANGED <<window, admitted, now>>
      PROVE  RatesInv'
  <2>1. Same
    BY <1>0, <1>3 DEF Idle
  <2> QED
    BY <1>1, <2>1
<1>4. CASE AdminNext /\ UNCHANGED fnVars
  <2>1. /\ UNCHANGED guardVars
        /\ now' = now \/ now' = now + 1
    BY <1>4 DEF AdminNext, StartMint, FinishMint, handleRevokeKey, RecordUsage,
                LoseUsage, handleDeleteProject, Tick
  <2> QED
    BY <1>2, <2>1 DEF guardVars
<1>5. ASSUME NEW r \in Reqs, NEW k \in Keys \cup {NoKey}, Receive(r, k)
      PROVE  RatesInv'
  <2>1. UNCHANGED <<window, admitted, now>>
    BY <1>5 DEF Receive, Arrive
  <2>2. CASE k = NoKey
    BY <1>3, <1>5, <2>1, <2>2 DEF Receive, Arrive, Reply
  <2>3. CASE k # NoKey
    <3> DEFINE q == [Idle EXCEPT !.phase = "lookup", !.key = k, !.dead = Dead(k)]
    <3>1. req' = [req EXCEPT ![r] = q]
      BY <1>5, <2>3 DEF Receive, Arrive
    <3>2. q.found = FALSE
      BY DEF Idle
    <3> HIDE DEF q
    <3>3. Same
      BY <1>0, <2>1, <3>1, <3>2
    <3> QED
      BY <1>1, <3>3
  <2> QED
    BY <2>2, <2>3
<1>6. ASSUME NEW r \in Reqs, FindActiveByHash(r)
      PROVE  RatesInv'
  <2> DEFINE q == [req[r] EXCEPT !.phase = "row", !.found = Active(req[r].key)]
  <2>1. req[r] \in Request /\ Sound(req[r]) /\ req[r].phase = "lookup"
    BY <1>6 DEF IInv, RequestsInv, FindActiveByHash
  <2>2. q.key = req[r].key /\ (q.found <=> Active(req[r].key)) /\ req[r].key \in Keys
    BY <2>1 DEF Request, Active, Sound
  <2>3. req' = [req EXCEPT ![r] = q]
    BY <1>0, <1>6 DEF FindActiveByHash, Request
  <2> HIDE DEF q
  <2>4. UNCHANGED <<window, admitted, now>>
    BY <1>6 DEF FindActiveByHash
  <2>5. Same
    BY <1>0, <2>2, <2>3, <2>4
  <2> QED
    BY <1>1, <2>5
<1>7. ASSUME NEW r \in Reqs, LookupFails(r) \/ NoSuchKey(r)
      PROVE  RatesInv'
  BY <1>3, <1>7 DEF LookupFails, NoSuchKey, Reply
<1>8. ASSUME NEW r \in Reqs, OverLimit(r)
      PROVE  RatesInv'
  <2>1. PICK k \in Keys : k = req[r].key
    BY <1>8 DEF RatesInv, OverLimit
  <2>2. window' = [window EXCEPT ![k] = InWindow(window[k], now)]
    BY <1>8, <2>1 DEF OverLimit
  <2>3. InWindow(window[k], now) \in SUBSET Hit
    BY <1>0 DEF InWindow
  <2>4. /\ window' \in [Keys -> SUBSET Hit]
        /\ \A j \in Keys : window'[j] = window[j] \/ window'[j] = InWindow(window[j], now)
    BY <1>0, <2>2, <2>3
  <2>5. UNCHANGED <<admitted, now>> /\ req' = [req EXCEPT ![r] = Idle]
    BY <1>8 DEF OverLimit, Reply
  <2>6. \A s \in Reqs : req'[s].found => req[s].found /\ req'[s].key = req[s].key
    BY <1>0, <2>5 DEF Idle
  <2> QED
    BY <1>0, <2>4, <2>5, <2>6, RatesMove
<1>9. ASSUME NEW r \in Reqs, NEW atOnce \in BOOLEAN, Admit(r, atOnce)
      PROVE  RatesInv'
  <2>1. PICK k \in Keys : k = req[r].key /\ row[k].state # "none"
    BY <1>9 DEF RatesInv, Admit
  <2>2. PICK hit : hit = [no |-> Cardinality(admitted[k]) + 1, at |-> now]
    OBVIOUS
  <2>3. /\ Allow(k) /\ UNCHANGED <<now, row>>
        /\ window' = [window EXCEPT ![k] = InWindow(window[k], now) \cup {hit}]
        /\ admitted' = [admitted EXCEPT ![k] = admitted[k] \cup {hit}]
    BY <1>9, <2>1, <2>2 DEF Admit, keyVars
  <2>4. /\ window'[k] = InWindow(window[k], now) \cup {hit}
        /\ admitted'[k] = admitted[k] \cup {hit}
    BY <1>0, <2>3
  <2>5. HitsInv(k)' /\ hit \in Hit
    BY <1>0, <2>1, <2>2, <2>3, <2>4, HitJoins
  <2>6. ASSUME NEW j \in Keys, j # k PROVE HitsInv(j)'
    <3>1. window'[j] = window[j] /\ admitted'[j] = admitted[j]
      BY <1>0, <2>3, <2>6
    <3> QED
      BY <1>0, <2>3, <3>1, HitsKept
  <2>7. window' \in [Keys -> SUBSET Hit] /\ admitted' \in [Keys -> SUBSET Hit]
    <3>1. InWindow(window[k], now) \in SUBSET Hit
      BY <1>0 DEF InWindow
    <3> QED
      BY <1>0, <2>3, <2>5, <3>1
  <2>8. \A s \in Reqs : req'[s].found => req[s].found /\ req'[s].key = req[s].key
    <3>1. CASE atOnce
      BY <1>0, <1>9, <3>1 DEF Admit, Reply, Idle
    <3>2. CASE ~atOnce
      <4>1. req[r] \in Request
        BY <1>0
      <4> DEFINE q == [req[r] EXCEPT !.phase = "admitted"]
      <4>2. q.found = req[r].found /\ q.key = req[r].key
        BY <4>1 DEF Request
      <4>3. req' = [req EXCEPT ![r] = q]
        BY <1>9, <3>2 DEF Admit
      <4> HIDE DEF q
      <4> QED
        BY <1>0, <4>2, <4>3
    <3> QED
      BY <3>1, <3>2
  <2>9. \A s \in Reqs : req'[s].found =>
          req'[s].key \in Keys /\ row'[req'[s].key].state # "none"
    BY <2>3, <2>8 DEF RatesInv
  <2> QED
    BY <2>5, <2>6, <2>7, <2>9 DEF RatesInv
<1>10. ASSUME NEW r \in Reqs, ImportReads(r) \/ SettleLate(r)
       PROVE  RatesInv'
  BY <1>2, <1>10 DEF ImportReads, SettleLate, apiVars, guardVars
<1>11. ASSUME NEW r \in Reqs, ImportDone(r) \/ Settle(r) \/ Deadline(r)
       PROVE  RatesInv'
  BY <1>2, <1>3, <1>11 DEF ImportDone, Settle, Deadline, Reply
<1>12. ASSUME NEW r \in Reqs, NEW f \in Fns, NEW reload \in BOOLEAN, Dispatch(r, f, reload)
       PROVE  RatesInv'
  <2>1. PICK missing \in BOOLEAN : Admit(r, missing)
    BY <1>12 DEF Dispatch
  <2> QED
    BY <1>9, <2>1
<1>13. ASSUME NEW f \in Fns,
              (\E ok \in BOOLEAN : Edit(f, ok)) \/ RemoveFile(f) \/ Reload({f})
       PROVE  RatesInv'
  BY <1>2, <1>13 DEF Edit, RemoveFile, Reload, apiVars, guardVars
<1>14. CASE Reload(Fns) \/ UNCHANGED vars
  BY <1>2, <1>14 DEF Reload, vars, apiVars, guardVars
<1>15. CASE Restart
  <2>1. /\ now' = now /\ \A r \in Reqs : req'[r].found = FALSE
        /\ \A k \in Keys : admitted'[k] = {} /\ window'[k] = {}
        /\ window' \in [Keys -> SUBSET Hit] /\ admitted' \in [Keys -> SUBSET Hit]
    BY <1>15 DEF Restart, ForgetWindows, Idle
  <2>2. ASSUME NEW k \in Keys PROVE HitsInv(k)'
    <3>1. \A t \in 0..now' : During(k, t)' = {}
      BY <2>1 DEF During, InWindow
    <3>2. IsFiniteSet({}) /\ Cardinality({}) = 0
      BY FS_EmptySet
    <3>3. row'[k].limit \in Nat
      BY DEF KeysInv, Key
    <3>4. \A t \in 0..now' : Cardinality(During(k, t)') <= row'[k].limit
      BY <3>1, <3>2, <3>3
    <3> QED
      BY <2>1, <3>2, <3>4 DEF HitsInv
  <2> QED
    BY <2>1, <2>2 DEF RatesInv
<1> QED
  BY <1>4, <1>5, <1>6, <1>7, <1>8, <1>10, <1>11, <1>12, <1>13, <1>14, <1>15
  DEF Next, Serve, Guard

\* The functions service and the admin service keep the rate bound.
LEMMA SpecRates == Spec => []RatesInv
<1>1. IInv /\ IInv' /\ RatesInv /\ [Next]_vars => RatesInv'
  BY NextRates DEF IInv
<1> QED
  BY <1>1, InitRates, SpecIInv, PTL DEF Spec

\* BooksBalance: in every interval as long as the window no more requests of
\* a key are admitted than its limit; its usage and what is still being
\* written are what was admitted and not lost; and every request is answered
\* once or died with the process.
THEOREM BooksAlwaysBalance == Spec => []BooksBalance
<1>1. ASSUME IInv PROVE TypeOK /\ UsageAddsUp /\ AnswersAddUp
  <2> USE <1>1 DEF IInv
  <2>1. TypeOKKeys
    BY DEF KeysInv, RequestsInv, CallsInv, TypeOKKeys, Key, States, Request
  <2>2. \A r \in Reqs : inv[r].stage \in Stages
    BY DEF FilesInv, Invocation
  <2>3. \A f \in Fns : cache[f] \in 0..MaxEdits /\ floor[f] \in 0..MaxEdits
    BY DEF FilesInv
  <2>4. \A r \in Reqs : inv[r].stage \in Holding <=> req[r].phase = "admitted"
    BY DEF StagesInv
  <2>5. TypeOK
    BY <2>1, <2>2, <2>3, <2>4 DEF TypeOK, Stages, Holding
  <2>6. UsageAddsUp
    BY DEF KeysInv, Counters, UsageAddsUp
  <2> QED
    BY <2>5, <2>6 DEF CallsInv
<1>2. ASSUME RatesInv PROVE RateBounded
  BY <1>2 DEF RatesInv, HitsInv, During, RateBounded
<1>3. IInv /\ RatesInv => BooksBalance
  BY <1>1, <1>2 DEF BooksBalance
<1> QED
  BY <1>3, SpecIInv, SpecRates, PTL
=============================================================================
