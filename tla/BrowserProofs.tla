--------------------------- MODULE BrowserProofs ---------------------------
(***************************************************************************)
(* Proofs about what runs in a browser.  The Studio, for every table, page *)
(* length, set of projects and keys, and number of requests under way:     *)
(* what its grid shows, which rows its writes change, what becomes of the  *)
(* secret of a new key and of a revoked one.  The client library's session *)
(* and the auth service's factors at its other end, for every number of    *)
(* tabs, listeners, sign-ins, accounts, factors, challenges and requests   *)
(* in flight: what a challenge verifies, whose factors change, that a      *)
(* session signed out of is gone, and what listeners have heard.           *)
(***************************************************************************)
EXTENDS ClientSession, Studio, FiniteSetTheorems, TLAPS

----------------------------------------------------------------------------
(* The rows panel.                                                         *)

Rows == UNION {[S -> [id : Ids, val : Vals]] : S \in SUBSET (1..Page)}

LoadRecords ==
  [phase : {"none", "sent", "rows", "count", "both"}, offset : Nat, active : BOOLEAN,
   reload : BOOLEAN, rows : Rows, count : Nat, asOf : Nat]

SaveRecords ==
  [phase : {"none", "sent", "done"}, kind : {"none", "insert", "update", "delete"},
   id : Nat, chosen : Nat, was : Vals, text : Vals, offset : Nat, mine : BOOLEAN]

EditorTypes ==
  /\ Live \subseteq Ids /\ \A id \in Live : table[id] \in Vals
  /\ mounted \in BOOLEAN /\ offset \in Nat
  /\ loading \in BOOLEAN /\ error \in BOOLEAN /\ overtaken \in BOOLEAN
  /\ data \in [rows : Rows, count : Nat, offset : Nat, asOf : Nat, reload : BOOLEAN]
  /\ form \in [kind : {"none", "insert", "update"}, id : Nat, was : Vals, text : Vals,
               saving : Saves \cup {Nobody}]
  /\ form.kind # "none" => form.id \in Ids
  /\ loads \in [Loads -> LoadRecords]
  /\ saves \in [Saves -> SaveRecords]
  /\ done \in Nat /\ expected \in Nat

\* A write goes to the row that was chosen for it.
WritesAimed ==
  \A s \in Saves : saves[s].phase # "none" =>
    saves[s].kind # "none" /\ saves[s].id = saves[s].chosen /\ saves[s].id \in Ids

\* A load that the effect started, and that is to be shown, is of the page on
\* the screen.
EffectLoadsPage ==
  \A l \in Loads : loads[l].active /\ ~loads[l].reload => loads[l].offset = offset

PageShown ==
  /\ ~mounted => offset = 0
  /\ Settled => data.offset = offset \/ data.reload

\* Unless loads overlapped there is one to be shown, and once it has read the
\* rows it has seen the writes that were reported; so has the grid.
OneLoad ==
  /\ expected <= done
  /\ ~overtaken =>
       /\ \A l, k \in Loads : loads[l].active /\ loads[k].active => l = k
       /\ \A l \in Loads :
            loads[l].active /\ loads[l].phase \in {"rows", "both"} => loads[l].asOf >= expected
       /\ Settled => data.asOf >= expected

EditorInv == EditorTypes /\ WritesAimed /\ EffectLoadsPage /\ PageShown /\ OneLoad

----------------------------------------------------------------------------
(* The screen of API keys.                                                 *)

States == {"none", "active", "revoked", "gone"}
Fates == {"none", "held", "seen", "lost"}
KeyRecords == [state : States, project : Projects \cup {Nothing}]
PanelRecords ==
  [up : BOOLEAN, loading : BOOLEAN, error : BOOLEAN, active : SUBSET Keys,
   revealed : Keys \cup {Nothing}, overtaken : BOOLEAN]
OpRecords ==
  [phase : {"none", "sent", "done"}, kind : {"none", "create", "revoke", "add", "remove"},
   project : Projects \cup {Nothing}, key : Keys \cup {Nothing}, mine : BOOLEAN,
   here : BOOLEAN]

ListRecords == [phase : {"none", "sent", "read"}, projects : SUBSET Projects]
DetailRecords == [phase : {"none", "sent", "read"}, active : SUBSET Keys, reload : BOOLEAN]

KeyTypes ==
  /\ projects \subseteq Projects /\ known \subseteq Projects
  /\ selected \in Projects \cup {Nothing}
  /\ key \in [Keys -> KeyRecords]
  /\ panel \in PanelRecords
  /\ lists \in [Requests -> ListRecords]
  /\ details \in [Requests -> DetailRecords]
  /\ ops \in [Requests -> OpRecords]
  /\ secret \in [Keys -> Fates]

OpsFormed ==
  \A s \in Requests :
    /\ ops[s].kind \in {"create", "revoke"} => ops[s].key \in Keys
    /\ ops[s].phase # "none" => ops[s].kind # "none" /\ ops[s].project \in Projects
    /\ ops[s].phase = "none" => ops[s].kind = "none"

\* A panel is there for a project; a creation that is to be shown has it to
\* itself, and one that is not was not left alone.
CreationsAlone ==
  /\ panel.up => selected \in Projects
  /\ \A s \in Requests : ops[s].kind = "create" =>
       IF ops[s].here
         THEN /\ panel.up /\ panel.revealed = Nothing
              /\ selected \in known \/ ops[s].key \in crowded
         ELSE ops[s].key \in crowded
  /\ \A s, t \in Requests :
       (ops[s].kind = "create" /\ ops[s].here) /\ (ops[t].kind = "create" /\ ops[t].here) => s = t

\* A secret that waits is the panel's, behind a load unless it is crowded.
SecretsHeld ==
  \A k \in Keys :
    /\ secret[k] = "lost" => k \in crowded
    /\ secret[k] = "held" =>
         /\ panel.up /\ panel.revealed = k
         /\ panel.loading \/ panel.error \/ selected \notin known
         /\ \/ k \in crowded
            \/ /\ ~panel.error /\ selected \in known
               /\ \E d \in Requests : details[d] # K!NoDetail

\* A key is made once, and what was reported revoked stays so.
KeysMadeOnce ==
  /\ \A s \in Requests : ops[s].kind = "create" /\ ops[s].phase = "sent" =>
       key[ops[s].key] = K!NoKeyRow
  /\ \A s, t \in Requests :
       ops[s].kind = "create" /\ ops[t].kind = "create" /\ ops[s].key = ops[t].key => s = t
  /\ \A s \in Requests : ops[s].kind = "revoke" /\ ops[s].phase = "done" =>
       key[ops[s].key].state \in {"revoked", "gone"}
  /\ \A k \in reported : k \in Keys /\ key[k].state \in {"revoked", "gone"}

ListFresh ==
  ~panel.overtaken =>
    /\ \A c, d \in Requests : details[c].phase # "none" /\ details[d].phase # "none" => c = d
    /\ \A d \in Requests : details[d].phase = "read" => details[d].active \cap reported = {}
    /\ ~panel.loading /\ ~panel.error => panel.active \cap reported = {}

KeysInv == KeyTypes /\ OpsFormed /\ CreationsAlone /\ SecretsHeld /\ KeysMadeOnce /\ ListFresh

----------------------------------------------------------------------------
(* The table.                                                              *)

\* The statements leave rows of the table, each with a content it can have.
LEMMA CoerceTyped ==
  ASSUME NEW v \in Vals PROVE coerceInput(v) \in Vals /\ toInputString(v) \in Vals
  BY DEF coerceInput, toInputString, Vals, Null

LEMMA RowsOfTable ==
  ASSUME Live \subseteq Ids, \A id \in Live : table[id] \in Vals,
         NEW n \in Nat
  PROVE  selectTable(n) \in Rows
<1> DEFINE S == {j \in 1..Page : RankedAt(n + j - 1) # {}}
           at(i) == CHOOSE id \in RankedAt(n + i - 1) : TRUE
<1>1. \A i \in S : at(i) \in Live
  BY DEF RankedAt
<1>2. \A i \in S : [id |-> at(i), val |-> table[at(i)]] \in [id : Ids, val : Vals]
  BY <1>1
<1>3. selectTable(n) = [i \in S |-> [id |-> at(i), val |-> table[at(i)]]]
  BY DEF selectTable
<1>4. S \in SUBSET (1..Page)
  OBVIOUS
<1>5. selectTable(n) \in [S -> [id : Ids, val : Vals]]
  BY <1>2, <1>3
<1> QED
  BY <1>4, <1>5 DEF Rows

LEMMA NoRows == <<>> \in Rows
<1>1. <<>> \in [{} -> [id : Ids, val : Vals]]
  OBVIOUS
<1> QED
  BY <1>1 DEF Rows

LEMMA RowTyped ==
  ASSUME NEW rows \in Rows, NEW i \in DOMAIN rows
  PROVE  rows[i].id \in Ids /\ rows[i].val \in Vals
  BY DEF Rows

LEMMA OutcomeTyped ==
  ASSUME Live \subseteq Ids, \A id \in Live : table[id] \in Vals,
         NEW sv \in SaveRecords, sv.kind # "none", sv.id \in Ids
  PROVE  /\ DOMAIN Outcome(sv) \subseteq Ids
         /\ \A id \in DOMAIN Outcome(sv) : Outcome(sv)[id] \in Vals
<1>1. coerceInput(sv.text) \in Vals
  BY CoerceTyped DEF SaveRecords
<1> QED
  BY <1>1 DEF Outcome, insertRow, updateRows, deleteRows, Put, Without, Live, SaveRecords

LEMMA CountTyped ==
  ASSUME Live \subseteq Ids PROVE Cardinality(Live) \in Nat
  BY TableAssumption, FS_Subset, FS_CardinalityType

----------------------------------------------------------------------------
(* The parts of the state of the panel.                                    *)

TableTypes == Live \subseteq Ids /\ \A id \in Live : table[id] \in Vals
DataRecords == [rows : Rows, count : Nat, offset : Nat, asOf : Nat, reload : BOOLEAN]
FormRecords ==
  [kind : {"none", "insert", "update"}, id : Nat, was : Vals, text : Vals,
   saving : Saves \cup {Nobody}]
FormTypes == form \in FormRecords /\ (form.kind # "none" => form.id \in Ids)

LEMMA Blank ==
  /\ NoLoad \in LoadRecords /\ NoSave \in SaveRecords
  /\ NoData \in DataRecords /\ NoForm \in FormRecords
  BY NoRows DEF NoLoad, NoSave, NoData, NoForm, LoadRecords, SaveRecords, DataRecords,
     FormRecords, Vals, Null

LEMMA SentTyped ==
  ASSUME NEW off \in Nat, NEW reload \in BOOLEAN
  PROVE  /\ Sent(off, reload) \in LoadRecords
         /\ Sent(off, reload).phase = "sent" /\ Sent(off, reload).offset = off
         /\ Sent(off, reload).active /\ Sent(off, reload).reload = reload
  BY Blank DEF Sent, LoadRecords

LEMMA CleanupTyped ==
  ASSUME loads \in [Loads -> LoadRecords], NEW l \in Loads
  PROVE  /\ Cleanup(l) \in LoadRecords
         /\ Cleanup(l).active => loads[l].active /\ loads[l].reload
         /\ Cleanup(l).phase = loads[l].phase /\ Cleanup(l).reload = loads[l].reload
  BY DEF Cleanup, LoadRecords

\* A load from the effect.
LEMMA EffectLoadKeeps ==
  ASSUME EditorInv, NEW l \in Loads, NEW off \in Nat, EffectLoad(l, off), offset' = off,
         UNCHANGED <<tableVars, data, form, saves, done, expected>>,
         mounted', mounted' \in BOOLEAN
  PROVE  EditorInv'
<1> USE DEF EditorInv
<1>1. /\ loads' = [k \in Loads |-> IF k = l THEN Sent(off, FALSE) ELSE Cleanup(k)]
      /\ loading' = TRUE /\ error' = FALSE
      /\ overtaken' = \E k \in Loads : Cleanup(k).active
  BY DEF EffectLoad
<1>2. EditorTypes'
  <2>1. loads' \in [Loads -> LoadRecords]
    BY <1>1, SentTyped, CleanupTyped DEF EditorTypes
  <2>2. overtaken' \in BOOLEAN
    BY <1>1
  <2> QED
    BY <1>1, <2>1, <2>2 DEF EditorTypes, tableVars, Live
<1>3. WritesAimed'
  BY DEF WritesAimed
<1>4. \A k \in Loads : k # l => loads'[k] = Cleanup(k)
  BY <1>1
<1>5. loads'[l] = Sent(off, FALSE)
  BY <1>1
<1>6. EffectLoadsPage'
  <2> SUFFICES ASSUME NEW k \in Loads, loads'[k].active, ~loads'[k].reload
               PROVE  loads'[k].offset = off
    BY DEF EffectLoadsPage
  <2>1. CASE k = l
    BY <2>1, <1>5, SentTyped
  <2>2. CASE k # l
    <3>1. loads'[k] = Cleanup(k)
      BY <1>4, <2>2
    <3> QED
      BY <3>1, CleanupTyped DEF EditorTypes
  <2> QED
    BY <2>1, <2>2
<1>7. PageShown'
  BY <1>1 DEF PageShown, Settled
<1>8. OneLoad'
  BY <1>1, <1>4, <1>5, CleanupTyped, SentTyped DEF OneLoad, Settled, EditorTypes
<1> QED
  BY <1>2, <1>3, <1>6, <1>7, <1>8

\* A load from a save or a delete that was reported.
LEMMA ResolveKeeps ==
  ASSUME EditorInv, NEW s \in Saves, NEW l \in Loads, Resolve(s, l)
  PROVE  EditorInv'
<1> USE DEF EditorInv
<1> DEFINE sv == saves[s]
<1>1. /\ saves' = [saves EXCEPT ![s] = NoSave]
      /\ UNCHANGED <<table, writes, mounted, offset, data, done>>
  BY DEF Resolve, tableVars
<1>2. sv \in SaveRecords /\ sv.offset \in Nat
  BY DEF EditorTypes, SaveRecords
<1>3. saves' \in [Saves -> SaveRecords]
  BY <1>1, Blank DEF EditorTypes
<1>4. WritesAimed'
  BY <1>1 DEF WritesAimed, NoSave, EditorTypes
<1>5. CASE ~sv.mine
  <2>1. UNCHANGED <<loads, loading, error, overtaken, form, expected>>
    BY <1>5 DEF Resolve
  <2>2. EditorTypes'
    BY <1>1, <1>3, <2>1 DEF EditorTypes, Live
  <2>3. EffectLoadsPage' /\ PageShown' /\ OneLoad'
    BY <1>1, <2>1 DEF EffectLoadsPage, PageShown, OneLoad, Settled
  <2> QED
    BY <1>4, <2>2, <2>3
<1>6. CASE sv.mine
  <2>1. /\ LoadAfterWrite(l, sv.offset)
        /\ form' = IF sv.kind = "delete" THEN form ELSE NoForm
        /\ expected' = done
    BY <1>6 DEF Resolve
  <2>2. /\ loads' = [loads EXCEPT ![l] = Sent(sv.offset, TRUE)]
        /\ loading' = TRUE /\ error' = FALSE
        /\ overtaken' = \E k \in Loads : loads[k].active
    BY <2>1 DEF LoadAfterWrite
  <2>3. Sent(sv.offset, TRUE) \in LoadRecords /\ loads' \in [Loads -> LoadRecords]
    BY <1>2, <2>2, SentTyped DEF EditorTypes
  <2>4. form' \in FormRecords /\ (form'.kind # "none" => form'.id \in Ids)
    BY <2>1, Blank DEF EditorTypes, FormRecords, NoForm
  <2>5. overtaken' \in BOOLEAN
    BY <2>2
  <2>6. EditorTypes'
    BY <1>1, <1>3, <2>1, <2>2, <2>3, <2>4, <2>5 DEF EditorTypes, FormRecords, Live
  <2>7. \A k \in Loads : k # l => loads'[k] = loads[k]
    BY <2>2 DEF EditorTypes
  <2>8. loads'[l].reload /\ loads'[l].phase = "sent"
    <3>1. loads'[l] = Sent(sv.offset, TRUE)
      BY <2>2 DEF EditorTypes
    <3> QED
      BY <3>1 DEF Sent, NoLoad
  <2>9. EffectLoadsPage'
    BY <1>1, <2>7, <2>8 DEF EffectLoadsPage
  <2>10. PageShown'
    BY <1>1, <2>2 DEF PageShown, Settled
  <2>11. OneLoad'
    <3>1. expected' <= done'
      BY <1>1, <2>1 DEF EditorTypes
    <3>2. ~overtaken' => \A k \in Loads : k # l => ~loads'[k].active
      BY <2>2, <2>7
    <3> QED
      BY <2>2, <2>8, <3>1, <3>2 DEF OneLoad, Settled
  <2> QED
    BY <1>4, <2>6, <2>9, <2>10, <2>11
<1> QED
  BY <1>5, <1>6

\* A step of one load.
LEMMA LoadStepKeeps ==
  ASSUME EditorInv, NEW l \in Loads,
         SelectRows(l) \/ CountRows(l) \/ ShowRows(l) \/ LoadFails(l)
  PROVE  EditorInv'
<1> USE DEF EditorInv
<1>1. loads[l] \in LoadRecords /\ loads[l].offset \in Nat
  BY DEF EditorTypes, LoadRecords
<1>2. CASE SelectRows(l)
  <2> DEFINE next == [loads[l] EXCEPT !.rows = selectTable(loads[l].offset), !.asOf = done,
                        !.phase = IF @ = "sent" THEN "rows" ELSE "both"]
  <2>1. /\ loads' = [loads EXCEPT ![l] = next]
        /\ UNCHANGED <<tableVars, panelVars, saves, acts, done, expected, overtaken>>
    BY <1>2 DEF SelectRows, EditorTypes
  <2>2. UNCHANGED <<table, mounted, offset, data, loading, error, form, saves, done, expected, overtaken>>
    BY <2>1 DEF tableVars, panelVars
  <2>3. selectTable(loads[l].offset) \in Rows
    BY <1>1, RowsOfTable DEF EditorTypes
  <2>4. /\ next \in LoadRecords /\ next.active = loads[l].active
        /\ next.reload = loads[l].reload /\ next.offset = loads[l].offset /\ next.asOf = done
    BY <1>1, <2>3 DEF LoadRecords, EditorTypes
  <2> HIDE DEF next
  <2>5. loads' \in [Loads -> LoadRecords]
    BY <2>1, <2>4 DEF EditorTypes
  <2>6. EditorTypes'
    BY <2>2, <2>5 DEF EditorTypes, Live
  <2>7. WritesAimed' /\ PageShown'
    BY <2>2 DEF WritesAimed, PageShown, Settled
  <2>8. loads'[l] = next /\ \A k \in Loads : k # l => loads'[k] = loads[k]
    BY <2>1 DEF EditorTypes
  <2>9. EffectLoadsPage'
    BY <2>2, <2>4, <2>8 DEF EffectLoadsPage
  <2>10. OneLoad'
    BY <2>2, <2>4, <2>8 DEF OneLoad, Settled
  <2> QED
    BY <2>6, <2>7, <2>9, <2>10
<1>3. CASE CountRows(l)
  <2> DEFINE next == [loads[l] EXCEPT !.count = Cardinality(Live),
                        !.phase = IF @ = "sent" THEN "count" ELSE "both"]
  <2>1. /\ loads' = [loads EXCEPT ![l] = next]
        /\ loads[l].phase \in {"sent", "rows"}
        /\ UNCHANGED <<tableVars, panelVars, saves, acts, done, expected, overtaken>>
    BY <1>3 DEF CountRows, EditorTypes
  <2>2. UNCHANGED <<table, mounted, offset, data, loading, error, form, saves, done, expected, overtaken>>
    BY <2>1 DEF tableVars, panelVars
  <2>3. Cardinality(Live) \in Nat
    BY CountTyped DEF EditorTypes
  <2>4. /\ next \in LoadRecords /\ next.active = loads[l].active
        /\ next.reload = loads[l].reload /\ next.offset = loads[l].offset
        /\ next.asOf = loads[l].asOf
        /\ next.phase \in {"rows", "both"} => loads[l].phase \in {"rows", "both"}
    BY <1>1, <2>1, <2>3 DEF LoadRecords
  <2> HIDE DEF next
  <2>5. loads' \in [Loads -> LoadRecords]
    BY <2>1, <2>4 DEF EditorTypes
  <2>6. EditorTypes'
    BY <2>2, <2>5 DEF EditorTypes, Live
  <2>7. WritesAimed' /\ PageShown'
    BY <2>2 DEF WritesAimed, PageShown, Settled
  <2>8. loads'[l] = next /\ \A k \in Loads : k # l => loads'[k] = loads[k]
    BY <2>1 DEF EditorTypes
  <2>9. EffectLoadsPage'
    BY <2>2, <2>4, <2>8 DEF EffectLoadsPage
  <2>10. OneLoad'
    BY <2>2, <2>4, <2>8 DEF OneLoad, Settled
  <2> QED
    BY <2>6, <2>7, <2>9, <2>10
<1>4. CASE ShowRows(l) \/ LoadFails(l)
  <2> DEFINE ld == loads[l]
             shown2 == [rows |-> ld.rows, count |-> ld.count, offset |-> ld.offset,
                        asOf |-> ld.asOf, reload |-> ld.reload]
  <2>1. /\ loads' = [loads EXCEPT ![l] = NoLoad]
        /\ UNCHANGED <<table, mounted, offset, form, saves, done, expected, overtaken>>
    BY <1>4 DEF ShowRows, LoadFails, tableVars
  <2>2. \/ UNCHANGED <<data, loading, error>>
        \/ ld.active /\ ld.phase = "both" /\ data' = shown2 /\ loading' = FALSE /\ error' = error
        \/ error' = TRUE /\ loading' = FALSE /\ data' = data
    BY <1>4 DEF ShowRows, LoadFails, Shows
  <2>3. shown2 \in DataRecords
    BY <1>1 DEF LoadRecords, DataRecords
  <2>4. loads' \in [Loads -> LoadRecords]
    BY <2>1, Blank DEF EditorTypes
  <2>5. data' \in DataRecords /\ loading' \in BOOLEAN /\ error' \in BOOLEAN
    BY <2>2, <2>3 DEF EditorTypes, DataRecords
  <2>6. EditorTypes'
    BY <2>1, <2>4, <2>5 DEF EditorTypes, DataRecords, Live
  <2>7. WritesAimed'
    BY <2>1 DEF WritesAimed
  <2>8. \A k \in Loads : k # l => loads'[k] = loads[k]
    BY <2>1 DEF EditorTypes
  <2>9. ~loads'[l].active
    BY <2>1 DEF EditorTypes, NoLoad
  <2>10. EffectLoadsPage'
    BY <2>1, <2>8, <2>9 DEF EffectLoadsPage
  <2>11. PageShown'
    BY <2>1, <2>2 DEF PageShown, Settled, EffectLoadsPage
  <2>12. OneLoad'
    BY <2>1, <2>2, <2>8, <2>9 DEF OneLoad, Settled
  <2> QED
    BY <2>6, <2>7, <2>10, <2>11, <2>12
<1> QED
  BY <1>2, <1>3, <1>4

\* Only the form changes.
LEMMA BecomesKeeps ==
  ASSUME EditorInv, NEW f \in FormRecords, f.kind # "none" => f.id \in Ids, Becomes(f)
  PROVE  EditorInv'
<1>1. UNCHANGED <<table, mounted, offset, data, loading, error, loads, saves, done, expected, overtaken>>
  BY DEF Becomes, tableVars
<1>2. form' = f
  BY DEF Becomes
<1>3. EditorTypes'
  BY <1>1, <1>2 DEF EditorInv, EditorTypes, FormRecords, Live
<1>4. WritesAimed' /\ EffectLoadsPage'
  BY <1>1 DEF EditorInv, WritesAimed, EffectLoadsPage
<1>5. PageShown'
  BY <1>1 DEF EditorInv, PageShown, Settled
<1>6. OneLoad'
  BY <1>1 DEF EditorInv, OneLoad, Settled
<1> QED
  BY <1>3, <1>4, <1>5, <1>6 DEF EditorInv

\* A write changes its stage, and maybe the form.
LEMMA SaveChanges ==
  ASSUME EditorInv, NEW s \in Saves, NEW sv \in SaveRecords,
         sv.phase # "none" => sv.kind # "none" /\ sv.id = sv.chosen /\ sv.id \in Ids,
         saves' = [saves EXCEPT ![s] = sv],
         form' \in FormRecords, form'.kind # "none" => form'.id \in Ids,
         UNCHANGED <<mounted, offset, data, loading, loads, expected, overtaken>>,
         error' \in BOOLEAN, error => error',
         TableTypes', done' \in Nat, done <= done'
  PROVE  EditorInv'
<1>1. saves' \in [Saves -> SaveRecords]
  BY DEF EditorInv, EditorTypes
<1>2. EditorTypes'
  BY <1>1 DEF EditorInv, EditorTypes, FormRecords, TableTypes
<1>3. WritesAimed'
  BY DEF EditorInv, EditorTypes, WritesAimed
<1>4. EffectLoadsPage'
  BY DEF EditorInv, EffectLoadsPage
<1>5. PageShown'
  BY DEF EditorInv, PageShown, Settled
<1>6. OneLoad'
  BY DEF EditorInv, EditorTypes, OneLoad, Settled
<1> QED
  BY <1>2, <1>3, <1>4, <1>5, <1>6 DEF EditorInv

\* The operator acts on the form and the grid.
LEMMA OperatorKeeps ==
  ASSUME EditorInv, OperatorActs
  PROVE  EditorInv'
<1> USE DEF EditorInv
<1>f. form \in FormRecords /\ (form.kind # "none" => form.id \in Ids)
  BY DEF EditorTypes, FormRecords
<1>d. data.rows \in Rows
  BY DEF EditorTypes
<1>1. ASSUME NEW l \in Loads, NextPage(l) \/ PrevPage(l)
      PROVE  EditorInv'
  <2>1. PICK off \in Nat : TurnTo(l, off)
    <3>1. offset \in Nat /\ Page \in Nat
      BY TableAssumption DEF EditorTypes
    <3>2. CASE NextPage(l)
      BY <3>1, <3>2 DEF NextPage
    <3>3. CASE PrevPage(l)
      <4>1. TurnTo(l, IF offset > Page THEN offset - Page ELSE 0)
        BY <3>3 DEF PrevPage
      <4>2. (IF offset > Page THEN offset - Page ELSE 0) \in Nat
        BY <3>1
      <4> QED
        BY <4>1, <4>2
    <3> QED
      BY <1>1, <3>2, <3>3
  <2>2. mounted
    BY <1>1 DEF NextPage, PrevPage, Reachable, GridShown
  <2> QED
    BY <2>1, <2>2, EffectLoadKeeps DEF TurnTo
<1>2. ASSUME NEW i \in 1..Page, Edit(i)
      PROVE  EditorInv'
  <2> DEFINE row == data.rows[i]
             f == [NoForm EXCEPT !.kind = "update", !.id = row.id, !.was = row.val,
                                 !.text = toInputString(row.val)]
  <2>1. row.id \in Ids /\ row.val \in Vals
    BY <1>2, <1>d, RowTyped DEF Edit
  <2>2. f \in FormRecords /\ f.id \in Ids
    BY <2>1, Blank, CoerceTyped, TableAssumption DEF FormRecords
  <2>3. Becomes(f)
    BY <1>2 DEF Edit, Open
  <2> HIDE DEF f
  <2> QED
    BY <2>2, <2>3, BecomesKeeps
<1>3. ASSUME NEW i \in 1..Page, NEW s \in Saves, Delete(s, i)
      PROVE  EditorInv'
  <2> DEFINE row == data.rows[i]
             sv == [NoSave EXCEPT !.phase = "sent", !.kind = "delete", !.id = row.id,
                      !.chosen = row.id, !.offset = offset, !.mine = TRUE]
  <2>1. row.id \in Ids
    BY <1>3, <1>d, RowTyped DEF Delete
  <2>2. sv \in SaveRecords /\ sv.kind = "delete" /\ sv.id \in Ids /\ sv.chosen = sv.id
    BY <2>1, Blank, TableAssumption DEF SaveRecords, EditorTypes
  <2>3. saves' = [saves EXCEPT ![s] = sv] /\ UNCHANGED <<tableVars, panelVars, loads, done, expected, overtaken>>
    BY <1>3 DEF Delete
  <2>4. UNCHANGED <<table, mounted, offset, data, loading, error, form, loads, done, expected, overtaken>>
    BY <2>3 DEF tableVars, panelVars
  <2>5. TableTypes' /\ done' \in Nat /\ done <= done' /\ error' \in BOOLEAN
    BY <2>4 DEF TableTypes, EditorTypes, Live
  <2> HIDE DEF sv
  <2> QED
    BY <1>f, <2>2, <2>3, <2>4, <2>5, SaveChanges
<1>4. ASSUME NEW id \in Ids, Add(id)
      PROVE  EditorInv'
  <2> DEFINE f == [NoForm EXCEPT !.kind = "insert", !.id = id]
  <2>1. f \in FormRecords /\ f.id \in Ids
    BY Blank, TableAssumption DEF FormRecords
  <2>2. Becomes(f)
    BY <1>4 DEF Add, Open
  <2> HIDE DEF f
  <2> QED
    BY <2>1, <2>2, BecomesKeeps
<1>5. ASSUME NEW t \in Vals \ {Null}, Type(t)
      PROVE  EditorInv'
  <2> DEFINE f == [form EXCEPT !.text = t]
  <2>1. f \in FormRecords /\ f.id = form.id /\ f.kind = form.kind
    BY <1>f DEF FormRecords
  <2>2. Becomes(f)
    BY <1>5 DEF Type
  <2> HIDE DEF f
  <2> QED
    BY <1>f, <2>1, <2>2, BecomesKeeps
<1>6. ASSUME Close
      PROVE  EditorInv'
  BY <1>6, Blank, BecomesKeeps DEF Close, NoForm
<1>7. ASSUME NEW s \in Saves, Save(s)
      PROVE  EditorInv'
  <2> DEFINE sv == [phase |-> "sent", kind |-> form.kind, was |-> form.was, text |-> form.text,
                    id |-> IF form.kind = "update" THEN buildWhereFromRow(form) ELSE form.id,
                    chosen |-> form.id, offset |-> offset, mine |-> TRUE]
             f == [form EXCEPT !.saving = s]
  <2>1. sv \in SaveRecords /\ sv.kind # "none" /\ sv.id = sv.chosen /\ sv.id \in Ids
    BY <1>f, <1>7, TableAssumption DEF SaveRecords, FormRecords, EditorTypes, buildWhereFromRow, Save
  <2>2. f \in FormRecords /\ (f.kind # "none" => f.id \in Ids)
    BY <1>f DEF FormRecords
  <2>3. /\ saves' = [saves EXCEPT ![s] = sv] /\ form' = f
        /\ UNCHANGED <<tableVars, mounted, offset, data, loading, error, loads, done, expected, overtaken>>
    BY <1>7 DEF Save
  <2>4. UNCHANGED <<table, mounted, offset, data, loading, error, loads, done, expected, overtaken>>
    BY <2>3 DEF tableVars
  <2>5. TableTypes' /\ done' \in Nat /\ done <= done' /\ error' \in BOOLEAN
    BY <2>4 DEF TableTypes, EditorTypes, Live
  <2>6. form' \in FormRecords /\ (form'.kind # "none" => form'.id \in Ids)
    BY <2>2, <2>3
  <2>7. saves' = [saves EXCEPT ![s] = sv]
    BY <2>3
  <2> HIDE DEF sv, f
  <2> QED
    BY <2>1, <2>4, <2>5, <2>6, <2>7, SaveChanges
<1> QED
  BY <1>1, <1>2, <1>3, <1>4, <1>5, <1>6, <1>7 DEF OperatorActs

\* The service carries a write out, or the panel learns that it was rejected.
LEMMA ExecuteKeeps ==
  ASSUME EditorInv, NEW s \in Saves, Execute(s)
  PROVE  EditorInv'
<1> DEFINE sv == [saves[s] EXCEPT !.phase = "done"]
<1>1. /\ saves[s] \in SaveRecords /\ saves[s].phase = "sent"
      /\ saves[s].kind # "none" /\ saves[s].id = saves[s].chosen /\ saves[s].id \in Ids
  BY DEF Execute, EditorInv, EditorTypes, WritesAimed
<1>2. /\ sv \in SaveRecords
      /\ sv.kind # "none" /\ sv.id = sv.chosen /\ sv.id \in Ids
  BY <1>1 DEF SaveRecords
<1>3. /\ saves' = [saves EXCEPT ![s] = sv]
      /\ table' = Outcome(saves[s]) /\ done' = done + 1
      /\ UNCHANGED <<mounted, offset, data, loading, error, form, loads, expected, overtaken>>
  BY DEF Execute, panelVars, EditorInv, EditorTypes
<1>4. TableTypes'
  BY <1>1, <1>3, OutcomeTyped DEF EditorInv, EditorTypes, TableTypes, Live
<1>5. /\ form' \in FormRecords /\ (form'.kind # "none" => form'.id \in Ids)
      /\ error' \in BOOLEAN /\ (error => error') /\ done' \in Nat /\ done <= done'
  BY <1>3 DEF EditorInv, EditorTypes, FormRecords
<1>6. UNCHANGED <<mounted, offset, data, loading, loads, expected, overtaken>>
  BY <1>3
<1>7. saves' = [saves EXCEPT ![s] = sv]
  BY <1>3
<1> HIDE DEF sv
<1> QED
  BY <1>2, <1>4, <1>5, <1>6, <1>7, SaveChanges

LEMMA RejectKeeps ==
  ASSUME EditorInv, NEW s \in Saves, Reject(s)
  PROVE  EditorInv'
<1>1. /\ saves' = [saves EXCEPT ![s] = NoSave]
      /\ UNCHANGED <<table, mounted, offset, data, loading, loads, done, expected, overtaken>>
  BY DEF Reject, tableVars
<1>2. TableTypes' /\ done' \in Nat /\ done <= done'
  BY <1>1 DEF EditorInv, EditorTypes, TableTypes, Live
<1>3. form' \in FormRecords /\ (form'.kind # "none" => form'.id \in Ids)
  BY DEF Reject, EditorInv, EditorTypes, FormRecords
<1>4. error' \in BOOLEAN /\ (error => error')
  BY DEF Reject, EditorInv, EditorTypes
<1>5. NoSave \in SaveRecords /\ NoSave.phase = "none"
  BY Blank DEF NoSave
<1>6. UNCHANGED <<mounted, offset, data, loading, loads, expected, overtaken>>
  BY <1>1
<1> QED
  BY <1>1, <1>2, <1>3, <1>4, <1>5, <1>6, SaveChanges

\* Somebody else writes, or nothing of the panel changes.
LEMMA OthersWriteKeeps ==
  ASSUME EditorInv, TableTypes',
         UNCHANGED <<panelVars, loads, saves, done, expected, overtaken>>
  PROVE  EditorInv'
<1>1. UNCHANGED <<mounted, offset, data, loading, error, form, loads, saves, done, expected, overtaken>>
  BY DEF panelVars
<1>2. EditorTypes'
  BY <1>1 DEF EditorInv, EditorTypes, TableTypes
<1>3. WritesAimed' /\ EffectLoadsPage'
  BY <1>1 DEF EditorInv, WritesAimed, EffectLoadsPage
<1>4. PageShown' /\ OneLoad'
  BY <1>1 DEF EditorInv, PageShown, OneLoad, Settled
<1> QED
  BY <1>2, <1>3, <1>4 DEF EditorInv

LEMMA EditorNextKeeps ==
  ASSUME EditorInv, EditorNext
  PROVE  EditorInv'
<1>1. ASSUME NEW id \in Ids, NEW v \in Vals, OthersWrite(id, v),
             UNCHANGED <<panelVars, loads, saves, acts, done, expected, overtaken>>
      PROVE  EditorInv'
  <2>1. TableTypes'
    BY <1>1 DEF OthersWrite, Put, Without, Live, TableTypes, EditorInv, EditorTypes
  <2> QED
    BY <1>1, <2>1, OthersWriteKeeps
<1> QED
  BY <1>1, OperatorKeeps, LoadStepKeeps, ExecuteKeeps, RejectKeeps, ResolveKeeps DEF EditorNext

LEMMA MountKeeps ==
  ASSUME EditorInv, Mount
  PROVE  EditorInv'
<1>1. offset = 0
  BY DEF Mount, EditorInv, PageShown
<1>2. offset' = 0 /\ mounted' /\ mounted' \in BOOLEAN /\ EffectLoad(1, 0)
      /\ UNCHANGED <<tableVars, data, form, saves, done, expected>>
  BY <1>1 DEF Mount
<1> QED
  BY <1>2, EditorAssumption, EffectLoadKeeps

LEMMA UnmountKeeps ==
  ASSUME EditorInv, Unmount
  PROVE  EditorInv'
<1>1. /\ mounted' = FALSE /\ offset' = 0 /\ data' = NoData /\ loading' = TRUE
      /\ error' = FALSE /\ form' = NoForm /\ expected' = 0
      /\ loads' = [l \in Loads |-> NoLoad]
      /\ saves' = [s \in Saves |-> [saves[s] EXCEPT !.mine = FALSE]]
      /\ UNCHANGED <<table, done, overtaken>>
  BY DEF Unmount, tableVars
<1>2. \A s \in Saves : /\ saves'[s] \in SaveRecords
                       /\ saves'[s].phase = saves[s].phase /\ saves'[s].kind = saves[s].kind
                       /\ saves'[s].id = saves[s].id /\ saves'[s].chosen = saves[s].chosen
  <2> TAKE s \in Saves
  <2>1. saves[s] \in SaveRecords
    BY DEF EditorInv, EditorTypes
  <2>2. saves'[s] = [saves[s] EXCEPT !.mine = FALSE]
    BY <1>1
  <2> QED
    BY <2>1, <2>2 DEF SaveRecords
<1>3. saves' \in [Saves -> SaveRecords]
  BY <1>1, <1>2
<1>4. loads' \in [Loads -> LoadRecords]
  BY <1>1, Blank
<1>5. data' \in DataRecords /\ form' \in FormRecords /\ form'.kind = "none"
  BY <1>1, Blank DEF NoForm
<1>6. EditorTypes'
  BY <1>1, <1>3, <1>4, <1>5 DEF EditorInv, EditorTypes, DataRecords, FormRecords, Live
<1>7. WritesAimed'
  BY <1>2 DEF EditorInv, WritesAimed
<1>8. \A l \in Loads : ~loads'[l].active
  BY <1>1 DEF NoLoad
<1>9. EffectLoadsPage'
  BY <1>8 DEF EffectLoadsPage
<1>10. PageShown' /\ OneLoad'
  BY <1>1, <1>6, <1>8 DEF PageShown, OneLoad, Settled, EditorTypes
<1> QED
  BY <1>6, <1>7, <1>9, <1>10 DEF EditorInv

LEMMA EditorStarts ==
  ASSUME InitEditor
  PROVE  EditorInv
<1>1. TableTypes
  BY DEF InitEditor, InitTable, TableTypes, Live, Vals
<1>2. /\ loads \in [Loads -> LoadRecords] /\ saves \in [Saves -> SaveRecords]
      /\ data \in DataRecords /\ form \in FormRecords /\ form.kind = "none"
  BY Blank DEF InitEditor, NoForm
<1>3. EditorTypes
  BY <1>1, <1>2 DEF InitEditor, EditorTypes, TableTypes, DataRecords, FormRecords
<1>4. \A l \in Loads : ~loads[l].active
  BY DEF InitEditor, NoLoad
<1>5. WritesAimed
  BY DEF InitEditor, WritesAimed, NoSave
<1>6. EffectLoadsPage /\ PageShown /\ OneLoad
  BY <1>4 DEF InitEditor, EffectLoadsPage, PageShown, OneLoad, Settled
<1> QED
  BY <1>3, <1>5, <1>6 DEF EditorInv

\* What the invariant says of the grid.
LEMMA GridFollows ==
  ASSUME EditorInv
  PROVE  GridTruthful
<1>1. TypeOKEditor
  BY DEF EditorInv, EditorTypes, TypeOKEditor, LoadRecords, SaveRecords
<1>2. GridIsPage /\ OwnWritesShown
  BY DEF EditorInv, PageShown, OneLoad, GridIsPage, OwnWritesShown
<1> QED
  BY <1>1, <1>2 DEF GridTruthful

\* A write carried out.
SaveFaithful(s) ==
  saves[s].phase = "sent" /\ saves'[s].phase = "done" =>
    /\ \A id \in Ids \ {saves[s].chosen} :
         id \in Live <=> id \in DOMAIN table' /\ (id \in Live => table'[id] = table[id])
    /\ saves[s].kind = "update" /\ saves[s].text = toInputString(saves[s].was)
         /\ saves[s].chosen \in Live =>
       \/ table'[saves[s].chosen] = saves[s].was
       \/ saves[s].was \in Fragile
       \/ table[saves[s].chosen] # saves[s].was

LEMMA ExecuteFaithful ==
  ASSUME EditorInv, NEW s \in Saves, Execute(s)
  PROVE  SaveFaithful(s)
<1> DEFINE sv == saves[s]
<1>1. /\ sv \in SaveRecords /\ sv.kind \in {"insert", "update", "delete"}
      /\ sv.id = sv.chosen /\ sv.id \in Ids
  BY DEF Execute, EditorInv, EditorTypes, WritesAimed, SaveRecords
<1>2. table' = Outcome(sv)
  BY DEF Execute
<1>3. \A id \in Ids \ {sv.chosen} :
         id \in Live <=> id \in DOMAIN table' /\ (id \in Live => table'[id] = table[id])
  BY <1>1, <1>2 DEF Outcome, insertRow, updateRows, deleteRows, Put, Without, Live
<1>4. ASSUME sv.kind = "update", sv.text = toInputString(sv.was), sv.chosen \in Live
      PROVE  table'[sv.chosen] = sv.was \/ sv.was \in Fragile
  <2>1. table' = Put(sv.chosen, coerceInput(sv.text))
    BY <1>1, <1>2, <1>4 DEF Outcome, updateRows
  <2>2. table'[sv.chosen] = coerceInput(toInputString(sv.was))
    BY <1>4, <2>1 DEF Put
  <2>3. sv.was \in Vals
    BY <1>1 DEF SaveRecords
  <2> QED
    BY <2>2, <2>3 DEF Fragile
<1> QED
  BY <1>3, <1>4 DEF SaveFaithful

\* Nothing else carries a write out.
LEMMA OthersFaithful ==
  ASSUME EditorInv, NEW s \in Saves, saves[s].phase = "sent", saves'[s].phase = "done",
         EditorNext \/ Mount \/ Unmount \/ UNCHANGED saves
  PROVE  Execute(s)
<1>1. saves[s] \in SaveRecords /\ saves[s].phase # "none" /\ NoSave.phase = "none"
  BY DEF EditorInv, EditorTypes, NoSave
<1>2. CASE OperatorActs
  <2>1. ASSUME NEW t \in Saves, Save(t) \/ \E i \in 1..Page : Delete(t, i)
        PROVE  FALSE
    <3>1. saves[t] = NoSave /\ t # s
      BY <1>1, <2>1 DEF Save, Delete, FreeSave
    <3>2. saves'[s] = saves[s]
      BY <2>1, <3>1 DEF Save, Delete, EditorInv, EditorTypes
    <3> QED
      BY <3>2
  <2>2. UNCHANGED saves \/ \E t \in Saves : Save(t) \/ \E i \in 1..Page : Delete(t, i)
    BY <1>2 DEF OperatorActs, NextPage, PrevPage, TurnTo, Edit, Open, Becomes, Add, Type, Close
  <2> QED
    BY <2>1, <2>2
<1>3. ASSUME NEW l \in Loads, SelectRows(l) \/ CountRows(l) \/ ShowRows(l) \/ LoadFails(l)
      PROVE  FALSE
  BY <1>3 DEF SelectRows, CountRows, ShowRows, LoadFails
<1>4. ASSUME NEW t \in Saves, Execute(t), t # s
      PROVE  FALSE
  BY <1>4 DEF Execute, EditorInv, EditorTypes
<1>5. ASSUME NEW t \in Saves, Reject(t) \/ \E l \in Loads : Resolve(t, l)
      PROVE  FALSE
  BY <1>1, <1>5 DEF Reject, Resolve, EditorInv, EditorTypes
<1>6. CASE Mount
  BY <1>6 DEF Mount
<1>7. CASE Unmount
  <2>1. saves'[s] = [saves[s] EXCEPT !.mine = FALSE]
    BY <1>7 DEF Unmount
  <2> QED
    BY <1>1, <2>1 DEF SaveRecords
<1>8. CASE UNCHANGED saves
  BY <1>8
<1> QED
  BY <1>2, <1>3, <1>4, <1>5, <1>6, <1>7, <1>8 DEF EditorNext

----------------------------------------------------------------------------
(* The screen of API keys: its parts.                                       *)

LEMMA BlankKeys ==
  /\ K!NoPanel \in PanelRecords /\ [K!NoPanel EXCEPT !.up = TRUE] \in PanelRecords
  /\ K!NoList \in ListRecords /\ K!NoOp \in OpRecords /\ K!NoKeyRow \in KeyRecords
  /\ K!NoDetail \in DetailRecords
  /\ [K!NoDetail EXCEPT !.phase = "sent"] \in DetailRecords
  /\ [K!NoDetail EXCEPT !.phase = "sent", !.reload = TRUE] \in DetailRecords
  /\ [K!NoDetail EXCEPT !.phase = "sent"] # K!NoDetail
  /\ [K!NoDetail EXCEPT !.phase = "sent", !.reload = TRUE] # K!NoDetail
  BY DEF K!NoPanel, K!NoList, K!NoOp, K!NoKeyRow, K!NoDetail, PanelRecords, ListRecords,
     OpRecords, KeyRecords, DetailRecords, States

\* The panel goes, or comes anew: nothing of it is revealed, and what was to
\* be revealed was not left alone.
LEMMA PanelReplaced ==
  ASSUME KeysInv,
         known' \subseteq Projects, selected' \in Projects \cup {Nothing},
         lists' \in [Requests -> ListRecords],
         panel' \in {K!NoPanel, [K!NoPanel EXCEPT !.up = TRUE]},
         panel'.up => selected' \in Projects,
         details' \in [Requests -> DetailRecords],
         \A d \in Requests : details'[d].phase # "none" => d = 1 /\ details'[d].phase = "sent",
         ops' \in [Requests -> OpRecords],
         \A s \in Requests :
           /\ ~ops'[s].here
           /\ \/ ops'[s].phase = "none" /\ ops'[s].kind = "none"
              \/ /\ ops'[s].kind = ops[s].kind /\ ops'[s].phase = ops[s].phase
                 /\ ops'[s].key = ops[s].key /\ ops'[s].project = ops[s].project,
         \A s \in Requests : ops[s].kind = "create" => ops[s].key \in crowded',
         crowded \subseteq crowded',
         \A k \in Keys : secret[k] = "held" => k \in crowded',
         secret' \in [Keys -> Fates],
         \A k \in Keys : /\ secret'[k] # "held"
                         /\ secret'[k] = "lost" => secret[k] \in {"lost", "held"},
         UNCHANGED <<projects, key, reported>>
  PROVE  KeysInv'
<1>p. /\ panel'.revealed = Nothing /\ panel'.active = {} /\ panel' \in PanelRecords
  <2>1. CASE panel' = K!NoPanel
    BY <2>1, BlankKeys DEF K!NoPanel
  <2>2. CASE panel' = [K!NoPanel EXCEPT !.up = TRUE]
    BY <2>2, BlankKeys DEF K!NoPanel
  <2> QED
    BY <2>1, <2>2
<1>1. KeyTypes'
  BY <1>p DEF KeysInv, KeyTypes
<1>2. OpsFormed'
  BY DEF KeysInv, OpsFormed
<1>3. CreationsAlone'
  BY DEF CreationsAlone
<1>4. SecretsHeld'
  BY DEF KeysInv, SecretsHeld
<1>5. KeysMadeOnce'
  BY DEF KeysInv, KeysMadeOnce
<1>6. ListFresh'
  BY <1>p DEF ListFresh
<1> QED
  BY <1>1, <1>2, <1>3, <1>4, <1>5, <1>6 DEF KeysInv

\* Forget and Unseen, and ops put away, are what PanelReplaced asks for.
LEMMA Forgotten ==
  ASSUME KeysInv
  PROVE  /\ K!Forget(panel.revealed) \in [Keys -> Fates]
         /\ \A k \in Keys :
              /\ K!Forget(panel.revealed)[k] # "held"
              /\ K!Forget(panel.revealed)[k] = "lost" => secret[k] \in {"lost", "held"}
              /\ secret[k] = "held" => k \in K!Unseen
         /\ \A s \in Requests : ops[s].kind = "create" => ops[s].key \in K!Unseen
<1>1. \A k \in Keys : secret[k] = "held" => panel.revealed = k
  BY DEF KeysInv, SecretsHeld
<1>2. panel.revealed # Nothing => panel.revealed \in Keys
  BY DEF KeysInv, KeyTypes, PanelRecords
<1>3. secret \in [Keys -> Fates]
  BY DEF KeysInv, KeyTypes
<1>4. \A k \in Keys : k # Nothing
  BY ScreenAssumption
<1> QED
  BY <1>1, <1>2, <1>3, <1>4 DEF K!Forget, K!Unseen, K!Creating, Fates

LEMMA AwayTyped ==
  ASSUME NEW of \in [Requests -> OpRecords]
  PROVE  /\ K!Away(of) \in [Requests -> OpRecords]
         /\ \A s \in Requests :
              /\ ~K!Away(of)[s].here
              /\ K!Away(of)[s].kind = of[s].kind /\ K!Away(of)[s].phase = of[s].phase
              /\ K!Away(of)[s].key = of[s].key /\ K!Away(of)[s].project = of[s].project
  BY DEF K!Away, OpRecords

\* What Mounted leaves.
LEMMA MountedTyped ==
  ASSUME NEW p \in Projects \cup {Nothing}, NEW list \in SUBSET Projects, K!Mounted(p, list)
  PROVE  /\ panel' \in {K!NoPanel, [K!NoPanel EXCEPT !.up = TRUE]}
         /\ panel'.up => p \in Projects
         /\ details' \in [Requests -> DetailRecords]
         /\ \A d \in Requests : details'[d].phase # "none" => d = 1 /\ details'[d].phase = "sent"
<1>1. CASE p \in list
  <2>1. /\ panel' = [K!NoPanel EXCEPT !.up = TRUE]
        /\ details' = [s \in Requests |-> IF s = 1 THEN [K!NoDetail EXCEPT !.phase = "sent"]
                                                ELSE K!NoDetail]
    BY <1>1 DEF K!Mounted
  <2>2. details' \in [Requests -> DetailRecords]
    BY <2>1, BlankKeys
  <2>3. \A d \in Requests : details'[d].phase # "none" => d = 1 /\ details'[d].phase = "sent"
    BY <2>1 DEF K!NoDetail
  <2> QED
    BY <1>1, <2>1, <2>2, <2>3
<1>2. CASE p \notin list
  <2>1. panel' = K!NoPanel /\ details' = [s \in Requests |-> K!NoDetail]
    BY <1>2 DEF K!Mounted
  <2> QED
    BY <2>1, BlankKeys DEF K!NoDetail, K!NoPanel
<1> QED
  BY <1>1, <1>2

LEMMA LeaveKeeps ==
  ASSUME KeysInv, K!Leave
  PROVE  KeysInv'
<1>1. /\ known' = {} /\ selected' = Nothing /\ panel' = K!NoPanel
      /\ lists' = [s \in Requests |-> K!NoList] /\ details' = [s \in Requests |-> K!NoDetail]
      /\ ops' = [s \in Requests |-> [ops[s] EXCEPT !.mine = FALSE, !.here = FALSE]]
      /\ secret' = K!Forget(panel.revealed) /\ crowded' = crowded \cup K!Unseen
      /\ UNCHANGED <<projects, key, reported>>
  BY DEF K!Leave
<1>2. /\ lists' \in [Requests -> ListRecords] /\ details' \in [Requests -> DetailRecords]
      /\ \A d \in Requests : details'[d].phase = "none"
  BY <1>1, BlankKeys DEF K!NoDetail
<1>3. \A s \in Requests : /\ ops'[s] \in OpRecords /\ ~ops'[s].here
                       /\ ops'[s].kind = ops[s].kind /\ ops'[s].phase = ops[s].phase
                       /\ ops'[s].key = ops[s].key /\ ops'[s].project = ops[s].project
  <2> TAKE s \in Requests
  <2>1. ops[s] \in OpRecords /\ ops'[s] = [ops[s] EXCEPT !.mine = FALSE, !.here = FALSE]
    BY <1>1 DEF KeysInv, KeyTypes
  <2> QED
    BY <2>1 DEF OpRecords
<1>4. ops' \in [Requests -> OpRecords]
  BY <1>1, <1>3
<1>5. panel' \in {K!NoPanel, [K!NoPanel EXCEPT !.up = TRUE]} /\ ~panel'.up
  BY <1>1 DEF K!NoPanel
<1>6. /\ \A s \in Requests : ops[s].kind = "create" => ops[s].key \in crowded'
      /\ crowded \subseteq crowded' /\ secret' \in [Keys -> Fates]
      /\ \A k \in Keys : secret[k] = "held" => k \in crowded'
      /\ \A k \in Keys : /\ secret'[k] # "held"
                         /\ secret'[k] = "lost" => secret[k] \in {"lost", "held"}
  BY <1>1, Forgotten
<1>7. known' \subseteq Projects /\ selected' \in Projects \cup {Nothing}
      /\ UNCHANGED <<projects, key, reported>>
  BY <1>1
<1> QED
  BY <1>2, <1>3, <1>4, <1>5, <1>6, <1>7, PanelReplaced

LEMMA SelectKeeps ==
  ASSUME KeysInv, NEW p \in Projects, K!Select(p)
  PROVE  KeysInv'
<1>1. /\ selected' = p /\ K!Mounted(p, known) /\ ops' = K!Away(ops)
      /\ secret' = K!Forget(panel.revealed) /\ crowded' = crowded \cup K!Unseen
      /\ UNCHANGED <<projects, key, known, lists, reported>>
  BY DEF K!Select
<1>2. /\ known' \subseteq Projects /\ selected' \in Projects
      /\ lists' \in [Requests -> ListRecords] /\ ops \in [Requests -> OpRecords]
      /\ known \in SUBSET Projects
  BY <1>1 DEF KeysInv, KeyTypes
<1>3. /\ panel' \in {K!NoPanel, [K!NoPanel EXCEPT !.up = TRUE]}
      /\ details' \in [Requests -> DetailRecords]
      /\ \A d \in Requests : details'[d].phase # "none" => d = 1 /\ details'[d].phase = "sent"
  BY <1>1, <1>2, MountedTyped
<1>4. /\ ops' \in [Requests -> OpRecords]
      /\ \A s \in Requests : /\ ~ops'[s].here
                          /\ ops'[s].kind = ops[s].kind /\ ops'[s].phase = ops[s].phase
                          /\ ops'[s].key = ops[s].key /\ ops'[s].project = ops[s].project
  BY <1>1, <1>2, AwayTyped
<1>5. /\ \A s \in Requests : ops[s].kind = "create" => ops[s].key \in crowded'
      /\ crowded \subseteq crowded' /\ secret' \in [Keys -> Fates]
      /\ \A k \in Keys : secret[k] = "held" => k \in crowded'
      /\ \A k \in Keys : /\ secret'[k] # "held"
                         /\ secret'[k] = "lost" => secret[k] \in {"lost", "held"}
  BY <1>1, Forgotten
<1> QED
  BY <1>1, <1>2, <1>3, <1>4, <1>5, PanelReplaced

LEMMA ProjectsChangedKeeps ==
  ASSUME KeysInv, NEW s \in Requests, NEW l \in Requests, K!ProjectsChanged(s, l), ops[s].mine
  PROVE  KeysInv'
<1> DEFINE ending == [ops EXCEPT ![s] = K!NoOp]
<1>1. /\ ops[s].phase = "done" /\ ops[s].kind \in {"add", "remove"}
      /\ K!ListAgain(l) /\ ops' = K!Away(ending)
      /\ secret' = K!Forget(panel.revealed) /\ crowded' = crowded \cup K!Unseen
      /\ selected' \in {ops[s].project, Nothing, selected}
      /\ UNCHANGED <<projects, key, known, reported>>
  BY DEF K!ProjectsChanged
<1>2. /\ known' \subseteq Projects /\ ops \in [Requests -> OpRecords]
      /\ selected' \in Projects \cup {Nothing}
  BY <1>1 DEF KeysInv, KeyTypes, OpsFormed
<1>3. /\ panel' = K!NoPanel /\ details' = [d \in Requests |-> K!NoDetail]
      /\ lists' = [lists EXCEPT ![l] = [K!NoList EXCEPT !.phase = "sent"]]
  BY <1>1 DEF K!ListAgain
<1>4. lists' \in [Requests -> ListRecords]
  BY <1>3 DEF KeysInv, KeyTypes, K!NoList, ListRecords
<1>5. /\ details' \in [Requests -> DetailRecords] /\ \A d \in Requests : details'[d].phase = "none"
      /\ panel' \in {K!NoPanel, [K!NoPanel EXCEPT !.up = TRUE]} /\ ~panel'.up
  BY <1>3, BlankKeys DEF K!NoDetail, K!NoPanel
<1>6. ending \in [Requests -> OpRecords]
  BY <1>2, BlankKeys
<1>7. \A t \in Requests : IF t = s THEN ending[t].kind = "none" /\ ending[t].phase = "none"
                                ELSE ending[t] = ops[t]
  BY <1>2 DEF K!NoOp
<1> HIDE DEF ending
<1>8. /\ ops' \in [Requests -> OpRecords]
      /\ \A t \in Requests : /\ ~ops'[t].here
                          /\ ops'[t].kind = ending[t].kind /\ ops'[t].phase = ending[t].phase
                          /\ ops'[t].key = ending[t].key /\ ops'[t].project = ending[t].project
  BY <1>1, <1>6, AwayTyped
<1>9. \A t \in Requests :
        /\ ~ops'[t].here
        /\ \/ ops'[t].phase = "none" /\ ops'[t].kind = "none"
           \/ /\ ops'[t].kind = ops[t].kind /\ ops'[t].phase = ops[t].phase
              /\ ops'[t].key = ops[t].key /\ ops'[t].project = ops[t].project
  BY <1>7, <1>8
<1>10. /\ \A t \in Requests : ops[t].kind = "create" => ops[t].key \in crowded'
       /\ crowded \subseteq crowded' /\ secret' \in [Keys -> Fates]
       /\ \A k \in Keys : secret[k] = "held" => k \in crowded'
       /\ \A k \in Keys : /\ secret'[k] # "held"
                          /\ secret'[k] = "lost" => secret[k] \in {"lost", "held"}
  BY <1>1, Forgotten
<1> QED
  BY <1>1, <1>2, <1>4, <1>5, <1>8, <1>9, <1>10, PanelReplaced

\* The list arrives, or fails, where no panel is up: one is put there, and
\* there was nothing to be forgotten.
LEMMA ListMounts ==
  ASSUME KeysInv, ~panel.up, NEW p \in Projects \cup {Nothing}, NEW list \in SUBSET Projects,
         K!Mounted(p, list), selected' = p, known' \subseteq Projects,
         lists' \in [Requests -> ListRecords], ops' = K!Away(ops), crowded' = crowded,
         UNCHANGED <<projects, key, secret, reported>>
  PROVE  KeysInv'
<1>1. /\ panel' \in {K!NoPanel, [K!NoPanel EXCEPT !.up = TRUE]}
      /\ panel'.up => selected' \in Projects
      /\ details' \in [Requests -> DetailRecords]
      /\ \A d \in Requests : details'[d].phase # "none" => d = 1 /\ details'[d].phase = "sent"
  BY MountedTyped
<1>2. ops \in [Requests -> OpRecords] /\ secret' \in [Keys -> Fates]
  BY DEF KeysInv, KeyTypes
<1>3. /\ ops' \in [Requests -> OpRecords]
      /\ \A s \in Requests : /\ ~ops'[s].here
                          /\ ops'[s].kind = ops[s].kind /\ ops'[s].phase = ops[s].phase
                          /\ ops'[s].key = ops[s].key /\ ops'[s].project = ops[s].project
  BY <1>2, AwayTyped
<1>4. \A s \in Requests : ops[s].kind = "create" => ops[s].key \in crowded'
  BY DEF KeysInv, CreationsAlone
<1>5. \A k \in Keys : secret[k] # "held" /\ secret'[k] = secret[k]
  BY DEF KeysInv, SecretsHeld
<1>6. selected' \in Projects \cup {Nothing} /\ crowded \subseteq crowded'
      /\ \A k \in Keys : secret[k] = "held" => k \in crowded'
  BY <1>5
<1>7. \A k \in Keys : /\ secret'[k] # "held"
                      /\ secret'[k] = "lost" => secret[k] \in {"lost", "held"}
  BY <1>5
<1> QED
  BY <1>1, <1>2, <1>3, <1>4, <1>6, <1>7, PanelReplaced

\* Only the list of the projects changes.
LEMMA ListStep ==
  ASSUME KeysInv, lists' \in [Requests -> ListRecords],
         UNCHANGED <<projects, key, known, selected, panel, details, ops, secret, crowded, reported>>
  PROVE  KeysInv'
<1>1. KeyTypes'
  BY DEF KeysInv, KeyTypes
<1>2. OpsFormed' /\ CreationsAlone' /\ SecretsHeld'
  BY DEF KeysInv, OpsFormed, CreationsAlone, SecretsHeld
<1>3. KeysMadeOnce' /\ ListFresh'
  BY DEF KeysInv, KeysMadeOnce, ListFresh
<1> QED
  BY <1>1, <1>2, <1>3 DEF KeysInv

LEMMA ListFailsKeeps ==
  ASSUME KeysInv, NEW s \in Requests, K!ListFails(s)
  PROVE  KeysInv'
<1>1. /\ lists' = [lists EXCEPT ![s] = K!NoList]
      /\ IF panel.up THEN UNCHANGED <<panel, details, ops>>
         ELSE K!Mounted(selected, known) /\ ops' = K!Away(ops)
      /\ UNCHANGED <<projects, key, known, selected, secret, crowded, reported>>
  BY DEF K!ListFails
<1>2. lists' \in [Requests -> ListRecords]
  BY <1>1, BlankKeys DEF KeysInv, KeyTypes
<1>3. selected \in Projects \cup {Nothing} /\ known \in SUBSET Projects
  BY DEF KeysInv, KeyTypes
<1> QED
  BY <1>1, <1>2, <1>3, ListStep, ListMounts

\* A panel that is up loads again for a list that came while it was.
LEMMA EffectAgainKeeps ==
  ASSUME KeysInv, panel.up, NEW list \in SUBSET Projects, K!EffectAgain(list),
         known' = list, lists' \in [Requests -> ListRecords],
         crowded' = IF selected \notin list THEN crowded \cup K!Unseen ELSE crowded,
         UNCHANGED <<projects, key, selected, ops, secret, reported>>
  PROVE  KeysInv'
<1> DEFINE kept == [s \in Requests |-> IF details[s].reload THEN details[s] ELSE K!NoDetail]
<1>t. /\ details \in [Requests -> DetailRecords] /\ kept \in [Requests -> DetailRecords]
      /\ panel \in PanelRecords
  BY BlankKeys DEF KeysInv, KeyTypes
<1>k. \A d \in Requests : kept[d] = details[d] \/ kept[d] = K!NoDetail
  OBVIOUS
<1>n. K!NoDetail.phase = "none"
  BY DEF K!NoDetail
<1>u. /\ \A s \in Requests : ops[s].kind = "create" => ops[s].key \in K!Unseen
      /\ \A k \in Keys : secret[k] = "held" => k \in K!Unseen
      /\ crowded \subseteq crowded'
  BY Forgotten
<1>m. KeysMadeOnce' /\ OpsFormed'
  BY DEF KeysInv, KeysMadeOnce, OpsFormed
<1>1. CASE selected \in list
  <2>1. PICK d \in Requests :
          /\ kept[d] = K!NoDetail
          /\ details' = [kept EXCEPT ![d] = [K!NoDetail EXCEPT !.phase = "sent"]]
          /\ panel' = [panel EXCEPT !.loading = TRUE, !.error = FALSE,
                                    !.overtaken = kept # [s \in Requests |-> K!NoDetail]]
    BY <1>1 DEF K!EffectAgain, K!FreeSlot
  <2>2. /\ panel' \in PanelRecords /\ panel'.up = panel.up /\ panel'.revealed = panel.revealed
        /\ panel'.loading = TRUE /\ panel'.error = FALSE
        /\ ~panel'.overtaken => kept = [s \in Requests |-> K!NoDetail]
    BY <2>1, <1>t DEF PanelRecords
  <2> HIDE DEF kept
  <2>3. /\ details' \in [Requests -> DetailRecords] /\ details'[d] # K!NoDetail
        /\ details'[d].phase = "sent"
        /\ \A c \in Requests : c # d => details'[c] = kept[c]
    BY <2>1, <1>t, BlankKeys DEF K!NoDetail
  <2>4. KeyTypes'
    BY <2>2, <2>3 DEF KeysInv, KeyTypes
  <2>5. CreationsAlone'
    BY <1>1, <2>2 DEF KeysInv, CreationsAlone
  <2>6. SecretsHeld'
    BY <1>1, <1>u, <2>2, <2>3 DEF KeysInv, SecretsHeld
  <2>7. ListFresh'
    <3> SUFFICES ASSUME ~panel'.overtaken
                 PROVE  ListFresh'
      BY DEF ListFresh
    <3>1. \A c \in Requests : c # d => details'[c] = K!NoDetail
      BY <2>2, <2>3
    <3> QED
      BY <1>n, <2>2, <2>3, <3>1 DEF ListFresh
  <2> QED
    BY <1>m, <2>4, <2>5, <2>6, <2>7 DEF KeysInv
<1>2. CASE selected \notin list
  <2>1. details' = kept /\ panel' = panel /\ crowded' = crowded \cup K!Unseen
    BY <1>2 DEF K!EffectAgain
  <2> HIDE DEF kept
  <2>2. KeyTypes'
    BY <1>t, <2>1 DEF KeysInv, KeyTypes
  <2>3. CreationsAlone'
    BY <1>u, <2>1 DEF KeysInv, CreationsAlone
  <2>4. SecretsHeld'
    BY <1>2, <1>u, <2>1 DEF KeysInv, SecretsHeld
  <2>5. ListFresh'
    BY <1>k, <1>n, <2>1 DEF KeysInv, ListFresh
  <2> QED
    BY <1>m, <2>2, <2>3, <2>4, <2>5 DEF KeysInv
<1> QED
  BY <1>1, <1>2

LEMMA ShowProjectsKeeps ==
  ASSUME KeysInv, NEW s \in Requests, K!ShowProjects(s)
  PROVE  KeysInv'
<1> DEFINE list == lists[s].projects
           sel == IF selected # Nothing THEN selected ELSE K!First(list)
<1>1. /\ lists' = [lists EXCEPT ![s] = K!NoList]
      /\ known' = list /\ selected' = sel
      /\ IF panel.up
           THEN K!EffectAgain(list) /\ UNCHANGED ops
           ELSE K!Mounted(sel, list) /\ ops' = K!Away(ops)
      /\ crowded' = IF panel.up /\ sel \notin list THEN crowded \cup K!Unseen ELSE crowded
      /\ UNCHANGED <<projects, key, secret, reported>>
  BY DEF K!ShowProjects
<1>2. list \in SUBSET Projects
  BY DEF KeysInv, KeyTypes, ListRecords
<1>3. sel \in Projects \cup {Nothing}
  BY <1>2 DEF KeysInv, KeyTypes, K!First
<1>4. lists' \in [Requests -> ListRecords]
  BY <1>1, BlankKeys DEF KeysInv, KeyTypes
<1> HIDE DEF list
<1>5. CASE panel.up
  <2>1. sel = selected
    BY <1>5, ScreenAssumption DEF KeysInv, CreationsAlone
  <2> HIDE DEF sel
  <2>2. /\ crowded' = IF selected \notin list THEN crowded \cup K!Unseen ELSE crowded
        /\ UNCHANGED <<projects, key, selected, ops, secret, reported>>
    BY <1>1, <1>5, <2>1
  <2> QED
    BY <1>1, <1>2, <1>4, <1>5, <2>2, EffectAgainKeeps
<1>6. CASE ~panel.up
  <2> HIDE DEF sel
  <2> QED
    BY <1>1, <1>2, <1>3, <1>4, <1>6, ListMounts
<1> QED
  BY <1>5, <1>6

\* The keys of the project are read, and shown or not.
LEMMA ReadKeysKeeps ==
  ASSUME KeysInv, NEW d \in Requests, K!ReadKeys(d)
  PROVE  KeysInv'
<1> DEFINE next == [details[d] EXCEPT !.phase = "read", !.active = K!ActiveKeys(selected)]
<1>1. /\ details' = [details EXCEPT ![d] = next] /\ details[d].phase = "sent"
      /\ UNCHANGED <<projects, key, known, selected, panel, lists, ops, secret, crowded, reported>>
  BY DEF K!ReadKeys, K!screenVars, KeysInv, KeyTypes
<1>2. /\ K!ActiveKeys(selected) \in SUBSET Keys
      /\ K!ActiveKeys(selected) \cap reported = {}
  BY DEF K!ActiveKeys, KeysInv, KeysMadeOnce
<1>3. /\ next \in DetailRecords /\ next # K!NoDetail /\ next.phase = "read"
      /\ next.active = K!ActiveKeys(selected)
  BY <1>2 DEF KeysInv, KeyTypes, DetailRecords, K!NoDetail
<1> HIDE DEF next
<1>4. /\ details' \in [Requests -> DetailRecords] /\ details'[d] = next
      /\ \A c \in Requests : c # d => details'[c] = details[c]
  BY <1>1, <1>3 DEF KeysInv, KeyTypes
<1>5. KeyTypes'
  BY <1>1, <1>4 DEF KeysInv, KeyTypes
<1>6. OpsFormed' /\ CreationsAlone' /\ KeysMadeOnce'
  BY <1>1 DEF KeysInv, OpsFormed, CreationsAlone, KeysMadeOnce
<1>7. SecretsHeld'
  BY <1>1, <1>3, <1>4 DEF KeysInv, SecretsHeld
<1>8. ListFresh'
  BY <1>1, <1>2, <1>3, <1>4 DEF KeysInv, ListFresh
<1> QED
  BY <1>5, <1>6, <1>7, <1>8 DEF KeysInv

LEMMA ShowKeysKeeps ==
  ASSUME KeysInv, NEW d \in Requests, K!ShowKeys(d)
  PROVE  KeysInv'
<1>1. /\ details' = [details EXCEPT ![d] = K!NoDetail] /\ details[d].phase = "read"
      /\ panel' = [panel EXCEPT !.active = details[d].active, !.loading = FALSE]
      /\ secret' = IF panel.revealed # Nothing /\ ~panel.error /\ selected \in known
                     THEN [secret EXCEPT ![panel.revealed] = "seen"] ELSE secret
      /\ UNCHANGED <<projects, key, known, selected, lists, ops, crowded, reported>>
  BY DEF K!ShowKeys
<1>2. panel \in PanelRecords /\ details[d].active \in SUBSET Keys /\ secret \in [Keys -> Fates]
  BY DEF KeysInv, KeyTypes, DetailRecords
<1>3. /\ panel' \in PanelRecords /\ panel'.up = panel.up /\ panel'.error = panel.error
      /\ panel'.revealed = panel.revealed /\ panel'.overtaken = panel.overtaken
      /\ panel'.active = details[d].active /\ panel'.loading = FALSE
  BY <1>1, <1>2 DEF PanelRecords
<1>4. /\ details' \in [Requests -> DetailRecords] /\ details'[d].phase = "none"
      /\ \A c \in Requests : c # d => details'[c] = details[c]
  BY <1>1, BlankKeys DEF KeysInv, KeyTypes, K!NoDetail
<1>5. panel.revealed # Nothing => panel.revealed \in Keys
  BY <1>2 DEF PanelRecords
<1>6. secret' \in [Keys -> Fates]
  BY <1>1, <1>2 DEF Fates
<1>7. KeyTypes'
  BY <1>1, <1>3, <1>4, <1>6 DEF KeysInv, KeyTypes
<1>8. OpsFormed' /\ KeysMadeOnce'
  BY <1>1 DEF KeysInv, OpsFormed, KeysMadeOnce
<1>9. CreationsAlone'
  BY <1>1, <1>3 DEF KeysInv, CreationsAlone
<1>10. SecretsHeld'
  <2> SUFFICES ASSUME NEW k \in Keys
               PROVE  /\ secret'[k] = "lost" => k \in crowded'
                      /\ secret'[k] = "held" =>
                           /\ panel'.up /\ panel'.revealed = k
                           /\ panel'.error \/ selected' \notin known'
                           /\ k \in crowded'
    BY DEF SecretsHeld
  <2>1. secret'[k] = "lost" => secret[k] = "lost"
    BY <1>1, <1>2, <1>5
  <2>2. secret'[k] = "held" => /\ secret[k] = "held"
                               /\ panel.revealed = k => panel.error \/ selected \notin known
    BY <1>1, <1>2, <1>5, ScreenAssumption
  <2> QED
    BY <1>1, <1>3, <2>1, <2>2 DEF KeysInv, SecretsHeld
<1>11. ListFresh'
  BY <1>1, <1>3, <1>4 DEF KeysInv, ListFresh
<1> QED
  BY <1>7, <1>8, <1>9, <1>10, <1>11 DEF KeysInv

LEMMA KeysFailKeeps ==
  ASSUME KeysInv, NEW d \in Requests, K!KeysFail(d)
  PROVE  KeysInv'
<1>1. /\ details' = [details EXCEPT ![d] = K!NoDetail]
      /\ panel' = [panel EXCEPT !.error = TRUE, !.loading = FALSE]
      /\ crowded' = crowded \cup K!Unseen
      /\ UNCHANGED <<projects, key, known, selected, lists, ops, secret, reported>>
  BY DEF K!KeysFail
<1>2. /\ panel' \in PanelRecords /\ panel'.up = panel.up /\ panel'.error = TRUE
      /\ panel'.revealed = panel.revealed /\ panel'.overtaken = panel.overtaken
      /\ panel'.loading = FALSE
  BY <1>1 DEF KeysInv, KeyTypes, PanelRecords
<1>3. /\ details' \in [Requests -> DetailRecords] /\ details'[d].phase = "none"
      /\ \A c \in Requests : c # d => details'[c] = details[c]
  BY <1>1, BlankKeys DEF KeysInv, KeyTypes, K!NoDetail
<1>4. KeyTypes'
  BY <1>1, <1>2, <1>3 DEF KeysInv, KeyTypes
<1>5. OpsFormed' /\ KeysMadeOnce'
  BY <1>1 DEF KeysInv, OpsFormed, KeysMadeOnce
<1>6. CreationsAlone'
  BY <1>1, <1>2 DEF KeysInv, CreationsAlone
<1>7. SecretsHeld'
  BY <1>1, <1>2, Forgotten DEF KeysInv, SecretsHeld
<1>8. ListFresh'
  BY <1>1, <1>2, <1>3 DEF KeysInv, ListFresh
<1> QED
  BY <1>4, <1>5, <1>6, <1>7, <1>8 DEF KeysInv

\* The operator has copied the secret, or thinks so.
LEMMA DoneKeeps ==
  ASSUME KeysInv, K!Done
  PROVE  KeysInv'
<1>1. /\ panel' = [panel EXCEPT !.revealed = Nothing] /\ panel.revealed # Nothing
      /\ panel.up /\ selected \in known /\ ~panel.loading /\ ~panel.error
      /\ UNCHANGED <<projects, key, known, selected, lists, details, ops, secret, crowded, reported>>
  BY DEF K!Done, K!SecretShows, K!PanelShown
<1>2. /\ panel' \in PanelRecords /\ panel'.up = panel.up /\ panel'.error = panel.error
      /\ panel'.revealed = Nothing /\ panel'.overtaken = panel.overtaken
      /\ panel'.loading = panel.loading /\ panel'.active = panel.active
  BY <1>1 DEF KeysInv, KeyTypes, PanelRecords
<1>3. KeyTypes'
  BY <1>1, <1>2 DEF KeysInv, KeyTypes
<1>4. OpsFormed' /\ KeysMadeOnce'
  BY <1>1 DEF KeysInv, OpsFormed, KeysMadeOnce
<1>5. CreationsAlone'
  BY <1>1, <1>2 DEF KeysInv, CreationsAlone
<1>6. SecretsHeld'
  BY <1>1, <1>2 DEF KeysInv, SecretsHeld
<1>7. ListFresh'
  BY <1>1, <1>2 DEF KeysInv, ListFresh
<1> QED
  BY <1>3, <1>4, <1>5, <1>6, <1>7 DEF KeysInv

\* A write is sent.
LEMMA SubmitKeeps ==
  ASSUME KeysInv, NEW s \in Requests,
         NEW kind \in {"create", "revoke", "add", "remove"}, NEW p \in Projects,
         NEW k \in Keys \cup {Nothing},
         kind \in {"create", "revoke"} => k \in Keys,
         kind = "create" => K!PanelShown /\ key[k] = K!NoKeyRow /\ k \notin K!Creating,
         K!Submit(s, K!Written(kind, p, k))
  PROVE  KeysInv'
<1> DEFINE op == K!Written(kind, p, k)
<1>1. /\ op \in OpRecords /\ op.phase = "sent" /\ op.kind = kind /\ op.key = k
      /\ op.project = p /\ op.here = TRUE
  BY DEF K!Written, OpRecords
<1> HIDE DEF op
<1>2. /\ ops' = [ops EXCEPT ![s] = op] /\ ops[s] = K!NoOp
      /\ crowded \subseteq crowded'
      /\ K!Clickable
      /\ UNCHANGED <<projects, key, known, selected, panel, lists, details, secret, reported>>
  BY DEF K!Submit, K!FreeSlot, K!screenVars, op
<1>3. /\ ops' \in [Requests -> OpRecords] /\ ops'[s] = op
      /\ \A t \in Requests : t # s => ops'[t] = ops[t]
  BY <1>1, <1>2 DEF KeysInv, KeyTypes
<1>4. KeyTypes'
  BY <1>2, <1>3 DEF KeysInv, KeyTypes
<1>5. OpsFormed'
  BY <1>1, <1>3 DEF KeysInv, OpsFormed
<1>6. CreationsAlone'
  <2>1. \A t \in Requests : ~(ops[t].kind = "create" /\ ops[t].here)
    BY <1>2 DEF K!Clickable, K!Busy
  <2>2. kind = "create" => panel.up /\ panel.revealed = Nothing /\ selected \in known
    BY <1>2 DEF K!Clickable, K!SecretShows, K!PanelShown
  <2> QED
    BY <1>1, <1>2, <1>3, <2>1, <2>2 DEF KeysInv, CreationsAlone
<1>7. SecretsHeld'
  BY <1>2 DEF KeysInv, SecretsHeld
<1>8. KeysMadeOnce'
  <2>1. \A t \in Requests : ops[t].kind = "create" => kind # "create" \/ ops[t].key # k
    BY DEF K!Creating
  <2> QED
    BY <1>1, <1>2, <1>3, <2>1 DEF KeysInv, KeysMadeOnce
<1>9. ListFresh'
  BY <1>2 DEF KeysInv, ListFresh
<1> QED
  BY <1>4, <1>5, <1>6, <1>7, <1>8, <1>9 DEF KeysInv

LEMMA SubmitsKeep ==
  ASSUME KeysInv, NEW s \in Requests,
         (\E k \in Keys : K!create(s, k) \/ K!revoke(s, k))
           \/ (\E p \in Projects : K!addProject(s, p) \/ K!removeProject(s, p))
  PROVE  KeysInv'
<1>1. ASSUME NEW k \in Keys, K!create(s, k) \/ K!revoke(s, k)
      PROVE  KeysInv'
  <2>1. K!PanelShown
    BY <1>1 DEF K!create, K!revoke
  <2>2. selected \in Projects
    BY <2>1 DEF K!PanelShown, KeysInv, CreationsAlone
  <2>3. CASE K!create(s, k)
    <3>1. /\ K!Submit(s, K!Written("create", selected, k))
          /\ key[k] = K!NoKeyRow /\ k \notin K!Creating
      BY <2>3 DEF K!create
    <3> QED
      BY <2>1, <2>2, <3>1, SubmitKeeps
  <2>4. CASE K!revoke(s, k)
    <3>1. K!Submit(s, K!Written("revoke", selected, k))
      BY <2>4 DEF K!revoke
    <3> QED
      BY <2>2, <3>1, SubmitKeeps
  <2> QED
    BY <1>1, <2>3, <2>4
<1>2. ASSUME NEW p \in Projects, K!addProject(s, p) \/ K!removeProject(s, p)
      PROVE  KeysInv'
  <2>1. CASE K!addProject(s, p)
    <3>1. K!Submit(s, K!Written("add", p, Nothing))
      BY <2>1 DEF K!addProject
    <3> QED
      BY <3>1, SubmitKeeps
  <2>2. CASE K!removeProject(s, p)
    <3>1. K!Submit(s, K!Written("remove", p, Nothing))
      BY <2>2 DEF K!removeProject
    <3> QED
      BY <3>1, SubmitKeeps
  <2> QED
    BY <1>2, <2>1, <2>2
<1> QED
  BY <1>1, <1>2

\* A write rejects, or is done and the panel it was for is gone.
LEMMA OpEnds ==
  ASSUME KeysInv, NEW s \in Requests, ops' = [ops EXCEPT ![s] = K!NoOp],
         secret' \in [Keys -> Fates],
         \A k \in Keys : \/ secret'[k] = secret[k]
                         \/ secret'[k] = "lost" /\ k \in crowded,
         UNCHANGED <<projects, key, known, selected, panel, lists, details, crowded, reported>>
  PROVE  KeysInv'
<1>1. /\ ops' \in [Requests -> OpRecords] /\ ops'[s].kind = "none" /\ ops'[s].phase = "none"
      /\ \A t \in Requests : t # s => ops'[t] = ops[t]
  BY BlankKeys DEF KeysInv, KeyTypes, K!NoOp
<1>2. KeyTypes'
  BY <1>1 DEF KeysInv, KeyTypes
<1>3. OpsFormed'
  BY <1>1 DEF KeysInv, OpsFormed
<1>4. CreationsAlone'
  BY <1>1 DEF KeysInv, CreationsAlone
<1>5. SecretsHeld'
  BY DEF KeysInv, SecretsHeld
<1>6. KeysMadeOnce'
  BY <1>1 DEF KeysInv, KeysMadeOnce
<1>7. ListFresh'
  BY DEF KeysInv, ListFresh
<1> QED
  BY <1>2, <1>3, <1>4, <1>5, <1>6, <1>7 DEF KeysInv

\* The panel loads its keys again.
LEMMA LoadAgainLeaves ==
  ASSUME KeysInv, NEW d \in Requests, NEW p \in PanelRecords, K!LoadAgain(d, p)
  PROVE  /\ details' \in [Requests -> DetailRecords]
         /\ details'[d] # K!NoDetail /\ details'[d].phase = "sent"
         /\ \A c \in Requests : c # d => details'[c] = details[c]
         /\ panel' \in PanelRecords /\ panel'.up = p.up /\ panel'.revealed = p.revealed
         /\ panel'.loading = TRUE /\ panel'.error = FALSE
         /\ ~panel'.overtaken => \A c \in Requests : details[c].phase = "none"
<1> DEFINE over == \E o \in Requests : details[o] # K!NoDetail
<1>1. /\ details' = [details EXCEPT ![d] = [K!NoDetail EXCEPT !.phase = "sent", !.reload = TRUE]]
      /\ panel' = [p EXCEPT !.loading = TRUE, !.error = FALSE, !.overtaken = over]
  BY DEF K!LoadAgain
<1>2. over \in BOOLEAN
  OBVIOUS
<1>3. ~over => \A c \in Requests : details[c].phase = "none"
  BY DEF K!NoDetail
<1> HIDE DEF over
<1>4. /\ panel' \in PanelRecords /\ panel'.up = p.up /\ panel'.revealed = p.revealed
      /\ panel'.loading = TRUE /\ panel'.error = FALSE /\ panel'.overtaken = over
  BY <1>1, <1>2 DEF PanelRecords
<1>5. /\ details' \in [Requests -> DetailRecords] /\ details'[d] # K!NoDetail
      /\ \A c \in Requests : c # d => details'[c] = details[c]
  BY <1>1, BlankKeys DEF KeysInv, KeyTypes
<1>6. details'[d].phase = "sent"
  BY <1>1 DEF K!NoDetail, KeysInv, KeyTypes
<1> QED
  BY <1>3, <1>4, <1>5, <1>6

LEMMA CreatedKeeps ==
  ASSUME KeysInv, NEW s \in Requests, NEW d \in Requests, K!Created(s, d)
  PROVE  KeysInv'
<1> DEFINE k == ops[s].key
<1>1. /\ ops[s].kind = "create" /\ ops[s].phase = "done" /\ ops' = [ops EXCEPT ![s] = K!NoOp]
      /\ IF ops[s].here
           THEN /\ K!LoadAgain(d, [panel EXCEPT !.revealed = k])
                /\ secret' = [secret EXCEPT ![k] = "held"]
           ELSE /\ secret' = [secret EXCEPT ![k] = "lost"]
                /\ UNCHANGED <<panel, details>>
      /\ UNCHANGED <<projects, key, known, selected, lists, crowded, reported>>
  BY DEF K!Created, K!Reveal
<1>2. k \in Keys /\ secret \in [Keys -> Fates] /\ panel \in PanelRecords
  BY <1>1 DEF KeysInv, KeyTypes, OpsFormed
<1>3. CASE ~ops[s].here
  <2>1. k \in crowded
    BY <1>1, <1>3 DEF KeysInv, CreationsAlone
  <2>2. secret' \in [Keys -> Fates]
    BY <1>1, <1>2, <1>3 DEF Fates
  <2>3. \A j \in Keys : secret'[j] = secret[j] \/ (secret'[j] = "lost" /\ j \in crowded)
    BY <1>1, <1>2, <1>3, <2>1
  <2> QED
    BY <1>1, <1>3, <2>2, <2>3, OpEnds
<1>4. CASE ops[s].here
  <2> DEFINE p == [panel EXCEPT !.revealed = k]
  <2>1. p \in PanelRecords /\ p.up = panel.up /\ p.revealed = k
    BY <1>2 DEF PanelRecords
  <2>2. K!LoadAgain(d, p) /\ secret' = [secret EXCEPT ![k] = "held"]
    BY <1>1, <1>4
  <2>a. /\ panel.up /\ panel.revealed = Nothing
        /\ selected \in known \/ k \in crowded
        /\ \A t \in Requests : t # s => ~(ops[t].kind = "create" /\ ops[t].here)
    BY <1>1, <1>4 DEF KeysInv, CreationsAlone
  <2>b. \A j \in Keys : j # k => secret'[j] = secret[j] /\ secret[j] # "held"
    BY <1>2, <2>2, <2>a, ScreenAssumption DEF KeysInv, SecretsHeld
  <2>c. secret' \in [Keys -> Fates] /\ secret'[k] = "held"
    BY <1>2, <2>2 DEF Fates
  <2> HIDE DEF p, k
  <2>3. /\ details' \in [Requests -> DetailRecords]
        /\ details'[d] # K!NoDetail /\ details'[d].phase = "sent"
        /\ \A c \in Requests : c # d => details'[c] = details[c]
        /\ panel' \in PanelRecords /\ panel'.up = p.up /\ panel'.revealed = p.revealed
        /\ panel'.loading = TRUE /\ panel'.error = FALSE
        /\ ~panel'.overtaken => \A c \in Requests : details[c].phase = "none"
    BY <2>1, <2>2, LoadAgainLeaves
  <2>4. /\ ops' \in [Requests -> OpRecords] /\ ops'[s].kind = "none" /\ ops'[s].phase = "none"
        /\ \A t \in Requests : t # s => ops'[t] = ops[t]
    BY <1>1, BlankKeys DEF KeysInv, KeyTypes, K!NoOp
  <2>5. KeyTypes'
    BY <1>1, <2>3, <2>4, <2>c DEF KeysInv, KeyTypes
  <2>6. OpsFormed' /\ KeysMadeOnce'
    BY <1>1, <2>4 DEF KeysInv, OpsFormed, KeysMadeOnce
  <2>7. CreationsAlone'
    BY <1>1, <2>1, <2>3, <2>4, <2>a DEF KeysInv, CreationsAlone
  <2>8. SecretsHeld'
    BY <1>1, <2>1, <2>3, <2>a, <2>b, <2>c DEF KeysInv, SecretsHeld
  <2>9. ListFresh'
    BY <1>1, <2>3 DEF KeysInv, ListFresh
  <2> QED
    BY <2>5, <2>6, <2>7, <2>8, <2>9 DEF KeysInv
<1> QED
  BY <1>3, <1>4

LEMMA RevokedKeeps ==
  ASSUME KeysInv, NEW s \in Requests, NEW d \in Requests, K!Revoked(s, d)
  PROVE  KeysInv'
<1> DEFINE k == ops[s].key
<1>1. /\ ops[s].kind = "revoke" /\ ops[s].phase = "done" /\ ops' = [ops EXCEPT ![s] = K!NoOp]
      /\ IF ops[s].here
           THEN K!LoadAgain(d, panel) /\ reported' = reported \cup {k}
           ELSE UNCHANGED <<panel, details, reported>>
      /\ UNCHANGED <<projects, key, known, selected, lists, secret, crowded>>
  BY DEF K!Revoked
<1>2. /\ k \in Keys /\ key[k].state \in {"revoked", "gone"}
      /\ secret' \in [Keys -> Fates] /\ panel \in PanelRecords
  BY <1>1 DEF KeysInv, KeyTypes, OpsFormed, KeysMadeOnce
<1>3. CASE ~ops[s].here
  BY <1>1, <1>2, <1>3, OpEnds
<1>4. CASE ops[s].here
  <2>3. /\ details' \in [Requests -> DetailRecords]
        /\ details'[d] # K!NoDetail /\ details'[d].phase = "sent"
        /\ \A c \in Requests : c # d => details'[c] = details[c]
        /\ panel' \in PanelRecords /\ panel'.up = panel.up /\ panel'.revealed = panel.revealed
        /\ panel'.loading = TRUE /\ panel'.error = FALSE
        /\ ~panel'.overtaken => \A c \in Requests : details[c].phase = "none"
    BY <1>1, <1>2, <1>4, LoadAgainLeaves
  <2>4. /\ ops' \in [Requests -> OpRecords] /\ ops'[s].kind = "none" /\ ops'[s].phase = "none"
        /\ \A t \in Requests : t # s => ops'[t] = ops[t]
    BY <1>1, BlankKeys DEF KeysInv, KeyTypes, K!NoOp
  <2>5. KeyTypes'
    BY <1>1, <2>3, <2>4 DEF KeysInv, KeyTypes
  <2>6. OpsFormed' /\ KeysMadeOnce'
    BY <1>1, <1>2, <1>4, <2>4 DEF KeysInv, OpsFormed, KeysMadeOnce
  <2>7. CreationsAlone'
    BY <1>1, <2>3, <2>4 DEF KeysInv, CreationsAlone
  <2>8. SecretsHeld'
    BY <1>1, <2>3 DEF KeysInv, SecretsHeld
  <2>9. ListFresh'
    BY <2>3 DEF ListFresh
  <2> QED
    BY <2>5, <2>6, <2>7, <2>8, <2>9 DEF KeysInv
<1> QED
  BY <1>3, <1>4

\* The admin service writes.
LEMMA WriteKeeps ==
  ASSUME KeysInv, NEW s \in Requests, K!Write(s)
  PROVE  KeysInv'
<1> DEFINE done2 == [ops[s] EXCEPT !.phase = "done"]
<1>1. /\ ops[s].phase = "sent" /\ ops' = [ops EXCEPT ![s] = done2]
      /\ UNCHANGED <<known, selected, panel, lists, details, secret, crowded, reported>>
  BY DEF K!Write, K!screenVars, KeysInv, KeyTypes
<1>2. /\ ops[s] \in OpRecords /\ ops[s].kind # "none" /\ ops[s].project \in Projects
      /\ ops[s].kind \in {"create", "revoke"} => ops[s].key \in Keys
  BY <1>1 DEF KeysInv, KeyTypes, OpsFormed
<1>3. /\ done2 \in OpRecords /\ done2.phase = "done" /\ done2.kind = ops[s].kind
      /\ done2.key = ops[s].key /\ done2.project = ops[s].project /\ done2.here = ops[s].here
  BY <1>2 DEF OpRecords
<1> HIDE DEF done2
<1>4. /\ ops' \in [Requests -> OpRecords] /\ ops'[s] = done2
      /\ \A t \in Requests : t # s => ops'[t] = ops[t]
  BY <1>1, <1>3 DEF KeysInv, KeyTypes
<1>5. OpsFormed' /\ CreationsAlone'
  BY <1>1, <1>2, <1>3, <1>4 DEF KeysInv, OpsFormed, CreationsAlone
<1>6. SecretsHeld' /\ ListFresh'
  BY <1>1 DEF KeysInv, SecretsHeld, ListFresh
<1>k. key \in [Keys -> KeyRecords] /\ projects \subseteq Projects
  BY DEF KeysInv, KeyTypes
<1>n. /\ K!NoKeyRow.project = Nothing /\ K!NoKeyRow.state = "none" /\ Nothing \notin Projects
  BY ScreenAssumption DEF K!NoKeyRow
<1>7. /\ projects' \subseteq Projects /\ key' \in [Keys -> KeyRecords]
      /\ \A k \in Keys :
           /\ key[k].state \in {"revoked", "gone"} => key'[k].state \in {"revoked", "gone"}
                \/ (ops[s].kind = "create" /\ ops[s].key = k)
           /\ key[k] = K!NoKeyRow => key'[k] = K!NoKeyRow
                \/ (ops[s].kind = "create" /\ ops[s].key = k)
      /\ ops[s].kind = "revoke" => key'[ops[s].key].state \in {"revoked", "gone"}
  <2>1. CASE ops[s].kind = "create"
    <3>1. /\ key' = [key EXCEPT ![ops[s].key] = [state |-> "active", project |-> ops[s].project]]
          /\ projects' = projects
      BY <2>1 DEF K!Write
    <3>2. [state |-> "active", project |-> ops[s].project] \in KeyRecords
      BY <1>2 DEF KeyRecords, States
    <3> QED
      BY <1>2, <1>k, <2>1, <3>1, <3>2
  <2>2. CASE ops[s].kind = "revoke"
    <3>1. /\ key' = [key EXCEPT ![ops[s].key].state = "revoked"] /\ projects' = projects
          /\ key[ops[s].key].state = "active" /\ ops[s].key \in Keys
      BY <1>2, <2>2 DEF K!Write
    <3>2. key'[ops[s].key] \in KeyRecords /\ key'[ops[s].key].state = "revoked"
      BY <1>k, <3>1 DEF KeyRecords, States
    <3>3. \A k \in Keys : k # ops[s].key => key'[k] = key[k]
      BY <1>k, <3>1
    <3>4. key' \in [Keys -> KeyRecords]
      BY <1>k, <3>1, <3>2, <3>3
    <3> QED
      BY <1>k, <1>n, <2>2, <3>1, <3>2, <3>3, <3>4
  <2>3. CASE ops[s].kind = "add"
    <3>1. projects' = projects \cup {ops[s].project} /\ key' = key
      BY <2>3 DEF K!Write
    <3> QED
      BY <1>2, <1>k, <2>3, <3>1
  <2>4. CASE ops[s].kind = "remove"
    <3>1. /\ projects' = projects \ {ops[s].project}
          /\ key' = [k \in Keys |-> IF key[k].project = ops[s].project
                       THEN [key[k] EXCEPT !.state = "gone"] ELSE key[k]]
      BY <2>4 DEF K!Write
    <3>2. \A k \in Keys :
            /\ key'[k] \in KeyRecords /\ (key'[k] = key[k] \/ key'[k].state = "gone")
            /\ key[k] = K!NoKeyRow => key'[k] = key[k]
      BY <1>2, <1>k, <1>n, <3>1 DEF KeyRecords, States
    <3>3. key' \in [Keys -> KeyRecords]
      BY <3>1, <3>2
    <3> QED
      BY <1>k, <2>4, <3>1, <3>2, <3>3
  <2> QED
    BY <1>2, <2>1, <2>2, <2>3, <2>4 DEF OpRecords
<1>8. KeyTypes'
  BY <1>1, <1>4, <1>7 DEF KeysInv, KeyTypes
<1>9. KeysMadeOnce'
  <2>1. ops[s].kind = "create" => key[ops[s].key] = K!NoKeyRow
    BY <1>1 DEF KeysInv, KeysMadeOnce
  <2>2. \A k \in Keys : key[k].state \in {"revoked", "gone"} => key'[k].state \in {"revoked", "gone"}
    BY <1>7, <1>n, <2>1
  <2>3. \A t \in Requests : ops'[t].kind = "create" /\ ops'[t].phase = "sent" =>
          key'[ops'[t].key] = K!NoKeyRow
    BY <1>3, <1>4, <1>7 DEF KeysInv, OpsFormed, KeysMadeOnce
  <2>4. \A t, u \in Requests :
          ops'[t].kind = "create" /\ ops'[u].kind = "create" /\ ops'[t].key = ops'[u].key => t = u
    BY <1>3, <1>4 DEF KeysInv, KeysMadeOnce
  <2>5. \A t \in Requests : ops'[t].kind = "revoke" /\ ops'[t].phase = "done" =>
          key'[ops'[t].key].state \in {"revoked", "gone"}
    BY <1>3, <1>4, <1>7, <2>2 DEF KeysInv, OpsFormed, KeysMadeOnce
  <2>6. \A k \in reported' : k \in Keys /\ key'[k].state \in {"revoked", "gone"}
    BY <1>1, <2>2 DEF KeysInv, KeysMadeOnce
  <2>7. K!NoKeyRow' = K!NoKeyRow
    BY DEF K!NoKeyRow
  <2> QED
    BY <2>3, <2>4, <2>5, <2>6, <2>7 DEF KeysMadeOnce
<1> QED
  BY <1>5, <1>6, <1>8, <1>9 DEF KeysInv

LEMMA KeyScreenKeeps ==
  ASSUME KeysInv, K!KeyScreenNext
  PROVE  KeysInv'
<1>1. ASSUME NEW s \in Requests, K!ReadProjects(s)
      PROVE  KeysInv'
  <2>1. /\ lists' = [lists EXCEPT ![s] = [phase |-> "read", projects |-> projects]]
        /\ UNCHANGED <<projects, key, known, selected, panel, details, ops, secret, crowded, reported>>
    BY <1>1 DEF K!ReadProjects, K!screenVars
  <2>2. lists' \in [Requests -> ListRecords]
    BY <2>1 DEF KeysInv, KeyTypes, ListRecords
  <2> QED
    BY <2>1, <2>2, ListStep
<1>2. ASSUME NEW s \in Requests, K!Rejected(s)
      PROVE  KeysInv'
  <2>1. /\ ops' = [ops EXCEPT ![s] = K!NoOp]
        /\ UNCHANGED <<projects, key, known, selected, panel, lists, details, secret, crowded, reported>>
    BY <1>2 DEF K!Rejected, K!screenVars
  <2>2. secret' \in [Keys -> Fates]
    BY <2>1 DEF KeysInv, KeyTypes
  <2> QED
    BY <2>1, <2>2, OpEnds
<1>3. ASSUME NEW s \in Requests, NEW o \in Requests, K!ProjectsChanged(s, o)
      PROVE  KeysInv'
  <2>1. CASE ops[s].mine
    BY <1>3, <2>1, ProjectsChangedKeeps
  <2>2. CASE ~ops[s].mine
    <3>1. /\ ops' = [ops EXCEPT ![s] = K!NoOp]
          /\ UNCHANGED <<projects, key, known, selected, panel, lists, details, secret, crowded, reported>>
      BY <1>3, <2>2 DEF K!ProjectsChanged
    <3>2. secret' \in [Keys -> Fates]
      BY <3>1 DEF KeysInv, KeyTypes
    <3> QED
      BY <3>1, <3>2, OpEnds
  <2> QED
    BY <2>1, <2>2
<1>4. ASSUME NEW s \in Requests, K!ShowProjects(s) \/ K!ListFails(s)
      PROVE  KeysInv'
  BY <1>4, ShowProjectsKeeps, ListFailsKeeps
<1>5. ASSUME NEW s \in Requests, K!ReadKeys(s) \/ K!ShowKeys(s) \/ K!KeysFail(s)
      PROVE  KeysInv'
  BY <1>5, ReadKeysKeeps, ShowKeysKeeps, KeysFailKeeps
<1>6. ASSUME NEW s \in Requests, K!Write(s) \/ \E o \in Requests : K!Created(s, o) \/ K!Revoked(s, o)
      PROVE  KeysInv'
  BY <1>6, WriteKeeps, CreatedKeeps, RevokedKeeps
<1>7. ASSUME NEW s \in Requests,
             (\E k \in Keys : K!create(s, k) \/ K!revoke(s, k))
               \/ (\E p \in Projects : K!addProject(s, p) \/ K!removeProject(s, p))
      PROVE  KeysInv'
  BY <1>7, SubmitsKeep
<1>8. ASSUME NEW p \in Projects, K!Select(p)
      PROVE  KeysInv'
  BY <1>8, SelectKeeps
<1>9. CASE K!Done
  BY <1>9, DoneKeeps
<1> QED
  BY <1>1, <1>2, <1>3, <1>4, <1>5, <1>6, <1>7, <1>8, <1>9 DEF K!KeyScreenNext

\* Nothing of the screen changes.
LEMMA KeysRest ==
  ASSUME KeysInv, UNCHANGED keysOnly
  PROVE  KeysInv'
<1>1. lists' \in [Requests -> ListRecords]
  BY DEF keysOnly, KeysInv, KeyTypes
<1>2. UNCHANGED <<projects, key, known, selected, panel, details, ops, secret, crowded, reported>>
  BY DEF keysOnly
<1> QED
  BY <1>1, <1>2, ListStep

LEMMA EnterKeeps ==
  ASSUME KeysInv, K!Enter
  PROVE  KeysInv'
<1>1. /\ lists' = [lists EXCEPT ![1] = [K!NoList EXCEPT !.phase = "sent"]]
      /\ UNCHANGED <<projects, key, known, selected, panel, details, ops, secret, crowded, reported>>
  BY DEF K!Enter
<1>2. lists' \in [Requests -> ListRecords]
  BY <1>1 DEF KeysInv, KeyTypes, ListRecords, K!NoList
<1> QED
  BY <1>1, <1>2, ListStep

LEMMA KeysStart ==
  ASSUME K!InitKeyScreen
  PROVE  KeysInv
<1>1. KeyTypes
  BY BlankKeys DEF K!InitKeyScreen, KeyTypes, Fates
<1>2. \A s \in Requests : ops[s].kind = "none" /\ ops[s].phase = "none"
  BY DEF K!InitKeyScreen, K!NoOp
<1>3. ~panel.up /\ panel.active = {} /\ \A d \in Requests : details[d].phase = "none"
  BY DEF K!InitKeyScreen, K!NoPanel, K!NoDetail
<1>4. OpsFormed /\ CreationsAlone
  BY <1>2, <1>3 DEF OpsFormed, CreationsAlone
<1>5. SecretsHeld
  BY DEF K!InitKeyScreen, SecretsHeld
<1>6. KeysMadeOnce
  BY <1>2 DEF K!InitKeyScreen, KeysMadeOnce
<1>7. ListFresh
  BY <1>3 DEF ListFresh
<1> QED
  BY <1>1, <1>4, <1>5, <1>6, <1>7 DEF KeysInv

LEMMA KeysFollow ==
  ASSUME KeysInv
  PROVE  KeysTruthful
<1>1. K!TypeOKKeyScreen
  BY DEF KeysInv, KeyTypes, K!TypeOKKeyScreen, PanelRecords, KeyRecords, OpRecords, States
<1>2. K!SecretsKept /\ K!SecretsWait
  BY DEF KeysInv, SecretsHeld, K!SecretsKept, K!SecretsWait
<1>3. K!RevocationsShown
  BY DEF KeysInv, ListFresh, K!RevocationsShown, K!PanelShown
<1> QED
  BY <1>1, <1>2, <1>3 DEF KeysTruthful, K!KeysTruthful

----------------------------------------------------------------------------
(* The Studio.                                                             *)

StudioInv == EditorInv /\ KeysInv

\* What a step of the Studio is to each of its screens.
LEMMA StudioSteps ==
  ASSUME [NextStudio]_studioVars
  PROVE  /\ EditorNext \/ Mount \/ Unmount \/ UNCHANGED editorOnly
         /\ K!KeyScreenNext \/ K!Enter \/ K!Leave \/ UNCHANGED keysOnly
<1>1. ASSUME NEW to \in {"other", "tables", "apikeys"}, Go(to)
      PROVE  /\ Mount \/ Unmount \/ UNCHANGED editorOnly
             /\ K!Enter \/ K!Leave \/ UNCHANGED keysOnly
  BY <1>1 DEF Go
<1>2. CASE Crash
  BY <1>2 DEF Crash, K!Crash
<1>3. CASE ReloadPage
  BY <1>3 DEF ReloadPage
<1>4. CASE EditorStep
  BY <1>4 DEF EditorStep
<1>5. CASE KeysStep
  BY <1>5 DEF KeysStep
<1>6. CASE UNCHANGED studioVars
  BY <1>6 DEF studioVars
<1> QED
  BY <1>1, <1>2, <1>3, <1>4, <1>5, <1>6 DEF NextStudio

LEMMA StudioInductive ==
  /\ InitStudio => StudioInv
  /\ StudioInv /\ [NextStudio]_studioVars => StudioInv'
<1>1. InitStudio => StudioInv
  BY EditorStarts, KeysStart DEF InitStudio, StudioInv
<1>2. ASSUME StudioInv, [NextStudio]_studioVars
      PROVE  EditorInv'
  <2>1. ASSUME UNCHANGED editorOnly
        PROVE  EditorInv'
    <3>1. UNCHANGED <<panelVars, loads, saves, done, expected, overtaken>> /\ UNCHANGED table
      BY <2>1 DEF editorOnly, tableVars
    <3>2. TableTypes'
      BY <1>2, <3>1 DEF StudioInv, EditorInv, EditorTypes, TableTypes, Live
    <3> QED
      BY <1>2, <3>1, <3>2, OthersWriteKeeps DEF StudioInv
  <2> QED
    BY <1>2, <2>1, StudioSteps, EditorNextKeeps, MountKeeps, UnmountKeeps DEF StudioInv
<1>3. ASSUME StudioInv, [NextStudio]_studioVars
      PROVE  KeysInv'
  BY <1>3, StudioSteps, KeyScreenKeeps, EnterKeeps, LeaveKeeps, KeysRest DEF StudioInv
<1> QED
  BY <1>1, <1>2, <1>3 DEF StudioInv

\* The grid that the table editor shows is the page its pager names and holds
\* the writes of the panel, for every table, page length, number of loads and
\* writes under way, and every operator (TableEditor.tsx, load, doDelete and
\* onSubmit).
THEOREM GridAlwaysTruthful == SpecStudio => []GridTruthful
<1>1. StudioInv => GridTruthful
  BY GridFollows DEF StudioInv
<1> QED
  BY <1>1, StudioInductive, PTL DEF SpecStudio

\* The secret of a new key that was left alone is shown or on its way to be,
\* and a key reported revoked is not shown as active by a list that no other
\* overtook, for every set of projects, keys and requests under way
\* (ApiKeys.tsx, create and revoke).
THEOREM KeysAlwaysTruthful == SpecStudio => []KeysTruthful
<1>1. StudioInv => KeysTruthful
  BY KeysFollow DEF StudioInv
<1> QED
  BY <1>1, StudioInductive, PTL DEF SpecStudio

\* A write changes the row that its operator chose and no other, and a field
\* that was left alone keeps what it held, unless the form cannot carry it or
\* somebody else wrote to the row (TableEditor.tsx and lib.ts, save).
THEOREM SavesAlwaysFaithful == SpecStudio => SavesAreFaithful
<1>1. ASSUME StudioInv, [NextStudio]_studioVars
      PROVE  \A s \in Saves : SaveFaithful(s)
  <2> SUFFICES ASSUME NEW s \in Saves, saves[s].phase = "sent", saves'[s].phase = "done"
               PROVE  SaveFaithful(s)
    BY DEF SaveFaithful
  <2>1. EditorNext \/ Mount \/ Unmount \/ UNCHANGED saves
    BY <1>1, StudioSteps DEF editorOnly
  <2>2. Execute(s)
    BY <1>1, <2>1, OthersFaithful DEF StudioInv
  <2> QED
    BY <1>1, <2>2, ExecuteFaithful DEF StudioInv
<1>2. StudioInv /\ [NextStudio]_studioVars =>
        [\A s \in Saves :
           saves[s].phase = "sent" /\ saves'[s].phase = "done" =>
             /\ \A id \in Ids \ {saves[s].chosen} :
                  id \in Live <=> id \in DOMAIN table' /\ (id \in Live => table'[id] = table[id])
             /\ saves[s].kind = "update" /\ saves[s].text = toInputString(saves[s].was)
                  /\ saves[s].chosen \in Live =>
                \/ table'[saves[s].chosen] = saves[s].was
                \/ saves[s].was \in Fragile
                \/ table[saves[s].chosen] # saves[s].was]_editorVars
  BY <1>1 DEF SaveFaithful
<1> QED
  BY <1>2, StudioInductive, PTL DEF SpecStudio, SavesAreFaithful

-----------------------------------------------------------------------------
(* The client's session, and the factors of the auth service.               *)

USE MfaAssumption, ClientAssumption

-----------------------------------------------------------------------------
(***************************************************************************)
(* The inductive invariant of the factors.                                 *)
(***************************************************************************)
FactorRow == [state : {"none", "unverified", "verified", "gone"},
              owner : Accounts \cup {NoOne}, stale : Nat]
ChallengeRow == [state : {"none", "open", "verified", "gone"},
                 factor : Factors \cup {NoOne}, expires : Nat]
CallRecord ==
  [phase : {"free", "sent", "user", "found", "marking", "marked"},
   op : {"none", "enroll", "challenge", "verify", "unenroll"},
   user : Accounts \cup {NoOne}, factor : Factors \cup {NoOne},
   challenge : Challenges \cup {NoOne}, code : Int, pending : BOOLEAN]

\* A call names what its operation takes, and a caller once it has one.
Named(q) ==
  /\ q.phase # "free" => q.op # "none"
  /\ q.op \in {"challenge", "verify", "unenroll"} => q.factor \in Factors
  /\ q.op = "verify" /\ q.phase # "marked" => q.challenge \in Challenges
  /\ q.phase = "user" => q.user \in Accounts

Call == {q \in CallRecord : Named(q)}

Tables ==
  /\ accounts \subseteq Accounts /\ now \in 0..MaxTime
  /\ factor \in [Factors -> FactorRow] /\ challenge \in [Challenges -> ChallengeRow]
  /\ accepted \in [Challenges -> Nat]

\* A call that has found its factor is its owner's, and the status it read
\* is not contradicted: a factor that was verified never is unverified again.
Found(q) ==
  q.phase \in {"found", "marking", "marked"} =>
    /\ q.user \in Accounts /\ q.factor \in Factors
    /\ factor[q.factor].state # "none" /\ factor[q.factor].owner = q.user
    /\ ~q.pending => factor[q.factor].state # "unverified"

\* A call that marks has a challenge of its factor, or has had one accepted.
Proven(q) ==
  /\ q.phase = "marking" =>
       /\ q.challenge \in Challenges
       /\ challenge[q.challenge].state # "none" /\ challenge[q.challenge].factor = q.factor
  /\ q.phase = "marked" =>
       \E c \in Challenges : accepted[c] > 0 /\ challenge[c].factor = q.factor

CallsSound == slot \in [Slots -> Call] /\ \A s \in Slots : Found(slot[s]) /\ Proven(slot[s])

MarksIt(s, c) == slot[s].phase = "marking" /\ slot[s].challenge = c

\* A challenge once accepted is not open, and whoever marks it beside or
\* after another has checked it beside another.
SpentSound(c) ==
  /\ accepted[c] > 0 => challenge[c].state \notin {"none", "open"}
  /\ accepted[c] > 1 => c \in overlapped
  /\ \A s \in Slots : MarksIt(s, c) =>
       /\ accepted[c] > 0 => c \in overlapped
       /\ \A o \in Slots \ {s} : MarksIt(o, c) => c \in overlapped

MfaInv ==
  /\ Tables /\ CallsSound
  /\ \A c \in Challenges : SpentSound(c)
  /\ VerifiedByChallenge /\ ~misled

(***************************************************************************)
(* The inductive invariant of the tabs: a session that is held, stored or  *)
(* left comes of a sign-in that is done, so none comes again.              *)
(***************************************************************************)
SignInRow == [state : {"none", "sent", "done"}, tab : Tabs \cup {NoOne},
              account : Accounts \cup {NoOne}]

Done(n) == n # None => signIn[n].state = "done"

TabsInv ==
  /\ currentToken \in [Tabs -> Sessions \cup {None}]
  /\ storage \in Sessions \cup {None}
  /\ hash = [t \in Tabs |-> None]
  /\ left \in [Tabs -> SUBSET Sessions]
  /\ signIn \in [Sessions -> SignInRow]
  /\ \A n \in Sessions : signIn[n].state = "sent" => signIn[n].tab \in Tabs
  /\ Done(storage)
  /\ \A t \in Tabs : Done(currentToken[t]) /\ \A n \in left[t] : Done(n)
  /\ SignedOutStaysOut

IInv == MfaInv /\ TabsInv

-----------------------------------------------------------------------------
(***************************************************************************)
(* The initial state.                                                      *)
(***************************************************************************)

\* A free slot holds nothing that could be wrong.
LEMMA FreeIsSound == Free \in Call /\ Found(Free) /\ Proven(Free)
BY DEF Free, Call, CallRecord, Named, Found, Proven

\* No factor, no session and no sign-in to begin with.
LEMMA InitIInv == Init => IInv
<1> SUFFICES ASSUME Init PROVE IInv
  OBVIOUS
<1> USE DEF Init, InitMfa
<1>1. Tables
  BY DEF Tables, FactorRow, ChallengeRow, NoFactor, NoChallenge
<1>2. CallsSound
  BY FreeIsSound DEF CallsSound
<1>3. \A c \in Challenges : SpentSound(c)
  BY DEF SpentSound, MarksIt, Free
<1>4. VerifiedByChallenge /\ ~misled
  BY DEF VerifiedByChallenge, NoFactor
<1>5. TabsInv
  BY DEF TabsInv, SignInRow, NoSignIn, Done, SignedOutStaysOut
<1> QED
  BY <1>1, <1>2, <1>3, <1>4, <1>5 DEF IInv, MfaInv

-----------------------------------------------------------------------------
(***************************************************************************)
(* Factors and challenges.                                                 *)
(***************************************************************************)

\* What every statement does to the rows: they are inserted once and never
\* come back to a state they have left.
Grows ==
  /\ \A f \in Factors :
       factor[f].state # "none" =>
         /\ factor'[f].state # "none" /\ factor'[f].owner = factor[f].owner
         /\ factor[f].state # "unverified" => factor'[f].state # "unverified"
  /\ \A c \in Challenges :
       challenge[c].state # "none" =>
         /\ challenge'[c].state # "none" /\ challenge'[c].factor = challenge[c].factor
         /\ challenge[c].state # "open" => challenge'[c].state # "open"
  /\ \A c \in Challenges : accepted'[c] >= accepted[c]

\* A call whose rows grow stays sound.
LEMMA CallStays ==
  ASSUME Tables, Tables', Grows, \A c \in Challenges : SpentSound(c),
         NEW q, Found(q), Proven(q)
  PROVE  Found(q)' /\ Proven(q)'
<1>1. Found(q)'
  BY DEF Found, Grows
<1>2. ASSUME NEW c \in Challenges, accepted[c] > 0
      PROVE  accepted'[c] > 0
  BY <1>2 DEF Grows, Tables
<1>3. CASE q.phase = "marking"
  BY <1>1, <1>3 DEF Proven, Grows
<1>4. CASE q.phase = "marked"
  <2>1. PICK c \in Challenges : accepted[c] > 0 /\ challenge[c].factor = q.factor
    BY <1>4 DEF Proven
  <2> QED
    BY <1>1, <1>2, <1>4, <2>1 DEF Proven, Grows, SpentSound
<1> QED
  BY <1>1, <1>3, <1>4 DEF Proven

\* A factor that was verified has its accepted challenge still.
LEMMA VerifiedStays ==
  ASSUME MfaInv, Grows, Tables', NEW f \in Factors, factor[f].state = "verified"
  PROVE  \E c \in Challenges : accepted'[c] > 0 /\ challenge'[c].factor = f
<1>1. PICK c \in Challenges : accepted[c] > 0 /\ challenge[c].factor = f
  BY DEF MfaInv, VerifiedByChallenge
<1>2. accepted'[c] > 0
  BY <1>1 DEF MfaInv, Tables, Grows
<1>3. challenge'[c].factor = f
  BY <1>1 DEF MfaInv, SpentSound, Grows
<1> QED
  BY <1>2, <1>3

\* A step that marks nothing: the slots it changes are sound again, and no
\* factor becomes verified.
LEMMA MfaStep ==
  ASSUME MfaInv, Grows, Tables', slot' \in [Slots -> Call],
         \A s \in Slots : \/ slot'[s] = slot[s]
                          \/ slot'[s].phase \notin {"marking", "marked"} /\ Found(slot[s])',
         \A f \in Factors : factor'[f].state = "verified" => factor[f].state = "verified",
         UNCHANGED <<accepted, overlapped, misled>>
  PROVE  MfaInv'
<1> USE DEF MfaInv
<1>1. CallsSound'
  <2>1. \A s \in Slots : Found(slot[s])' /\ Proven(slot[s])'
    <3> TAKE s \in Slots
    <3>1. CASE slot'[s] = slot[s]
      <4> PICK q : q = slot[s]
        OBVIOUS
      <4>1. Found(q)' /\ Proven(q)'
        BY CallStays DEF CallsSound
      <4> QED
        BY <3>1, <4>1 DEF Found, Proven
    <3>2. CASE slot'[s].phase \notin {"marking", "marked"} /\ Found(slot[s])'
      BY <3>2 DEF Proven
    <3> QED
      BY <3>1, <3>2
  <2> QED
    BY <2>1 DEF CallsSound
<1>2. \A c \in Challenges : SpentSound(c)'
  <2> TAKE c \in Challenges
  <2>1. \A s \in Slots : MarksIt(s, c)' => MarksIt(s, c)
    BY DEF MarksIt
  <2>2. SpentSound(c)
    OBVIOUS
  <2> QED
    BY <2>1, <2>2 DEF SpentSound, Grows, Tables, ChallengeRow
<1>3. VerifiedByChallenge'
  BY VerifiedStays DEF VerifiedByChallenge
<1> QED
  BY <1>1, <1>2, <1>3

\* The same for one call.
LEMMA SlotStep ==
  ASSUME MfaInv, Grows, Tables', NEW s \in Slots, NEW q \in Call,
         slot' = [slot EXCEPT ![s] = q],
         q.phase \notin {"marking", "marked"}, Found(q)',
         \A f \in Factors : factor'[f].state = "verified" => factor[f].state = "verified",
         UNCHANGED <<accepted, overlapped, misled>>
  PROVE  MfaInv'
<1>1. slot \in [Slots -> Call]
  BY DEF MfaInv, CallsSound
<1>2. slot' \in [Slots -> Call] /\ slot'[s] = q
      /\ \A o \in Slots \ {s} : slot'[o] = slot[o]
  BY <1>1
<1>3. Found(slot[s])'
  BY <1>2 DEF Found
<1> QED
  BY <1>2, <1>3, MfaStep

\* Statements that change no row let them grow.
LEMMA RowsKept ==
  ASSUME Tables, UNCHANGED <<accounts, factor, challenge, now, accepted>>
  PROVE  /\ Grows /\ Tables'
         /\ \A f \in Factors : factor'[f].state = "verified" => factor[f].state = "verified"
BY DEF Tables, Grows

\* A factor and its challenges go, those of other factors stay.
LEMMA FactorsGo ==
  ASSUME Tables, NEW F, DeleteFactors(F),
         accounts' \subseteq accounts, UNCHANGED <<now, accepted>>
  PROVE  /\ Grows /\ Tables'
         /\ \A f \in Factors : factor'[f].state = "verified" => factor[f].state = "verified"
<1>1. \A f \in Factors : /\ factor'[f] \in FactorRow /\ factor'[f].owner = factor[f].owner
                         /\ factor'[f].state \in {factor[f].state, "gone"}
  <2> TAKE f \in Factors
  <2>1. factor[f] \in FactorRow
    BY DEF Tables
  <2>2. CASE f \in F
    <3>1. factor'[f] = [factor[f] EXCEPT !.state = "gone"]
      BY <2>2 DEF DeleteFactors
    <3> QED
      BY <2>1, <3>1 DEF FactorRow
  <2>3. CASE f \notin F
    BY <2>1, <2>3 DEF DeleteFactors
  <2> QED
    BY <2>2, <2>3
<1>2. \A c \in Challenges :
        /\ challenge'[c] \in ChallengeRow /\ challenge'[c].factor = challenge[c].factor
        /\ challenge'[c].state \in {challenge[c].state, "gone"}
  <2> TAKE c \in Challenges
  <2>1. challenge[c] \in ChallengeRow
    BY DEF Tables
  <2>2. CASE challenge[c].factor \in F /\ Lives(c)
    <3>1. challenge'[c] = [challenge[c] EXCEPT !.state = "gone"]
      BY <2>2 DEF DeleteFactors
    <3> QED
      BY <2>1, <3>1 DEF ChallengeRow
  <2>3. CASE ~(challenge[c].factor \in F /\ Lives(c))
    BY <2>1, <2>3 DEF DeleteFactors
  <2> QED
    BY <2>2, <2>3
<1>3. factor' \in [Factors -> FactorRow] /\ challenge' \in [Challenges -> ChallengeRow]
  BY <1>1, <1>2 DEF DeleteFactors
<1> QED
  BY <1>1, <1>2, <1>3 DEF Tables, Grows

\* The nightly clean-up takes factors and challenges that are over.
LEMMA CleanUpGoes ==
  ASSUME Tables, CleanUp
  PROVE  /\ Grows /\ Tables'
         /\ \A f \in Factors : factor'[f].state = "verified" => factor[f].state = "verified"
<1>1. \A f \in Factors : /\ factor'[f] \in FactorRow /\ factor'[f].owner = factor[f].owner
                         /\ factor'[f].state \in {factor[f].state, "gone"}
  <2> TAKE f \in Factors
  <2>1. factor[f] \in FactorRow
    BY DEF Tables
  <2>2. CASE f \in StaleFactors
    <3>1. factor'[f] = [factor[f] EXCEPT !.state = "gone"]
      BY <2>2 DEF CleanUp
    <3> QED
      BY <2>1, <3>1 DEF FactorRow
  <2>3. CASE f \notin StaleFactors
    BY <2>1, <2>3 DEF CleanUp
  <2> QED
    BY <2>2, <2>3
<1>2. \A c \in Challenges :
        /\ challenge'[c] \in ChallengeRow /\ challenge'[c].factor = challenge[c].factor
        /\ challenge'[c].state \in {challenge[c].state, "gone"}
  <2> TAKE c \in Challenges
  <2> DEFINE over == Lives(c) /\ (c \in SpentChallenges \/ challenge[c].factor \in StaleFactors)
  <2>1. challenge[c] \in ChallengeRow
    BY DEF Tables
  <2>2. CASE over
    <3>1. challenge'[c] = [challenge[c] EXCEPT !.state = "gone"]
      BY <2>2 DEF CleanUp
    <3> QED
      BY <2>1, <3>1 DEF ChallengeRow
  <2>3. CASE ~over
    BY <2>1, <2>3 DEF CleanUp
  <2> QED
    BY <2>2, <2>3
<1>3. factor' \in [Factors -> FactorRow] /\ challenge' \in [Challenges -> ChallengeRow]
  BY <1>1, <1>2 DEF CleanUp
<1> QED
  BY <1>1, <1>2, <1>3 DEF Tables, Grows, CleanUp

-----------------------------------------------------------------------------
(***************************************************************************)
(* One lemma for each statement of the factor calls.                       *)
(***************************************************************************)

\* A call comes in with what the client sent.
LEMMA ReceiveKeeps ==
  ASSUME MfaInv, NEW s \in Slots, NEW op \in {"enroll", "challenge", "verify", "unenroll"},
         NEW user \in Accounts \cup {NoOne}, NEW f \in Factors \cup {NoOne},
         NEW c \in Challenges \cup {NoOne}, NEW code \in Int,
         op # "enroll" => f \in Factors, op = "verify" => c \in Challenges,
         Receive(s, op, user, f, c, code)
  PROVE  MfaInv'
<1> DEFINE q == [Free EXCEPT !.phase = "sent", !.op = op, !.user = user,
                             !.factor = f, !.challenge = c, !.code = code]
<1>1. q \in Call /\ q.phase = "sent"
  BY DEF Free, Call, CallRecord, Named
<1>2. slot' = [slot EXCEPT ![s] = q]
  BY DEF Receive
<1> HIDE DEF q
<1>3. Found(q)'
  BY <1>1 DEF Found
<1> QED
  BY <1>1, <1>2, <1>3, RowsKept, SlotStep DEF Receive, MfaInv

\* The call is over, whatever its answer: the rows stay.
LEMMA AnswersKeep ==
  ASSUME MfaInv, NEW s \in Slots, Answer(s),
         UNCHANGED <<accounts, factor, challenge, now, accepted, overlapped, misled>>
  PROVE  MfaInv'
<1>1. Free \in Call /\ Free.phase = "free" /\ Found(Free)'
  BY FreeIsSound DEF Free, Found
<1> QED
  BY <1>1, RowsKept, SlotStep DEF Answer, MfaInv

\* findById, and findMfaFactorById with the check of the owner.
LEMMA LookUpsKeep ==
  ASSUME MfaInv, NEW s \in Slots, authenticate(s) \/ FindFactor(s)
  PROVE  MfaInv'
<1>1. slot[s] \in Call /\ slot[s] \in CallRecord /\ Named(slot[s])
  BY DEF MfaInv, CallsSound, Call
<1>2. CASE authenticate(s)
  <2>1. slot[s].phase = "sent" /\ slot[s].user \in Accounts
    BY <1>2 DEF authenticate, MfaInv, Tables
  <2>2. PICK q : q = [slot[s] EXCEPT !.phase = "user"]
    OBVIOUS
  <2>3. q \in Call /\ q.phase = "user"
    BY <1>1, <2>1, <2>2 DEF Call, CallRecord, Named
  <2>4. slot' = [slot EXCEPT ![s] = q]
    BY <1>2, <2>2 DEF authenticate
  <2>5. Found(q)'
    BY <2>3 DEF Found
  <2> QED
    BY <1>2, <2>3, <2>4, <2>5, RowsKept, SlotStep DEF authenticate, MfaInv
<1>3. CASE FindFactor(s) /\ Owns(s)
  <2>0. Stored(slot[s].factor) /\ factor[slot[s].factor].owner = slot[s].user
    BY <1>3 DEF Owns
  <2>1. slot[s].factor \in Factors /\ slot[s].user \in Accounts
    BY <1>1, <1>3 DEF FindFactor, CallRecord, Named
  <2>2. PICK pending \in BOOLEAN : pending <=> factor[slot[s].factor].state = "unverified"
    OBVIOUS
  <2>3. PICK q : q = [slot[s] EXCEPT !.phase = "found", !.pending = pending]
    OBVIOUS
  <2>4. /\ q \in Call /\ q.phase = "found" /\ (q.pending <=> pending)
        /\ q.factor = slot[s].factor /\ q.user = slot[s].user
    BY <1>1, <1>3, <2>3 DEF FindFactor, Call, CallRecord, Named
  <2>5. slot' = [slot EXCEPT ![s] = q]
    BY <1>1, <1>3, <2>2, <2>3 DEF FindFactor, MfaInv, CallsSound, CallRecord
  <2>6. factor' = factor
    BY <1>3 DEF FindFactor
  <2>7. Found(q)'
    BY <2>0, <2>1, <2>2, <2>4, <2>6 DEF Found, Stored
  <2> QED
    BY <1>3, <2>4, <2>5, <2>7, RowsKept, SlotStep DEF FindFactor, MfaInv
<1>4. CASE FindFactor(s) /\ ~Owns(s)
  BY <1>4, AnswersKeep DEF FindFactor
<1> QED
  BY <1>2, <1>3, <1>4

\* The INSERT of a factor, under an id that no row has had.
LEMMA EnrollKeeps ==
  ASSUME MfaInv, NEW s \in Slots, NEW f \in Factors, handleMfaEnroll(s, f)
  PROVE  MfaInv'
<1>0. Free \in Call /\ Free.phase = "free" /\ Found(Free)'
  BY FreeIsSound DEF Free, Found
<1>1. CASE slot[s].user \in accounts
  <2> DEFINE new == [state |-> "unverified", owner |-> slot[s].user, stale |-> now + FactorAge]
  <2>1. new \in FactorRow /\ new.state = "unverified"
    BY <1>1 DEF FactorRow, MfaInv, Tables
  <2>2. factor' = [factor EXCEPT ![f] = new] /\ factor[f].state = "none"
    BY <1>1 DEF handleMfaEnroll, NoFactor
  <2> HIDE DEF new
  <2>3. UNCHANGED <<accounts, challenge, now, accepted, overlapped, misled>>
    BY DEF handleMfaEnroll
  <2>4. /\ Grows /\ Tables'
        /\ \A g \in Factors : factor'[g].state = "verified" => factor[g].state = "verified"
    BY <2>1, <2>2, <2>3 DEF Grows, Tables, MfaInv
  <2> QED
    BY <1>0, <2>3, <2>4, SlotStep DEF handleMfaEnroll, Answer
<1>2. CASE slot[s].user \notin accounts
  BY <1>2, AnswersKeep DEF handleMfaEnroll
<1> QED
  BY <1>1, <1>2

\* The INSERT of a challenge, under an id that no row has had.
LEMMA ChallengeKeeps ==
  ASSUME MfaInv, NEW s \in Slots, NEW c \in Challenges, handleMfaChallenge(s, c)
  PROVE  MfaInv'
<1>0. Free \in Call /\ Free.phase = "free" /\ Found(Free)'
  BY FreeIsSound DEF Free, Found
<1>1. CASE Stored(slot[s].factor)
  <2> DEFINE new == [state |-> "open", factor |-> slot[s].factor, expires |-> now + ChallengeTTL]
  <2>1. new \in ChallengeRow /\ new.state = "open"
    BY DEF ChallengeRow, MfaInv, Tables, CallsSound, Call, CallRecord
  <2>2. challenge' = [challenge EXCEPT ![c] = new] /\ challenge[c].state = "none"
    BY <1>1 DEF handleMfaChallenge, NoChallenge
  <2> HIDE DEF new
  <2>3. UNCHANGED <<accounts, factor, now, accepted, overlapped, misled>>
    BY DEF handleMfaChallenge
  <2>4. Grows /\ Tables'
    BY <2>1, <2>2, <2>3 DEF Grows, Tables, MfaInv
  <2> QED
    BY <1>0, <2>3, <2>4, SlotStep DEF handleMfaChallenge, Answer
<1>2. CASE ~Stored(slot[s].factor)
  BY <1>2, AnswersKeep DEF handleMfaChallenge
<1> QED
  BY <1>1, <1>2

\* The DELETE of a factor with its challenges.
LEMMA UnenrollKeeps ==
  ASSUME MfaInv, NEW s \in Slots, handleMfaUnenroll(s)
  PROVE  MfaInv'
<1>1. Free \in Call /\ Free.phase = "free" /\ Found(Free)'
  BY FreeIsSound DEF Free, Found
<1>2. /\ Grows /\ Tables'
      /\ \A f \in Factors : factor'[f].state = "verified" => factor[f].state = "verified"
  BY FactorsGo DEF handleMfaUnenroll, MfaInv
<1> QED
  BY <1>1, <1>2, SlotStep DEF handleMfaUnenroll, Answer

\* The admin service, the clean-up job and the clock leave the calls alone.
LEMMA OthersKeep ==
  ASSUME MfaInv,
         \/ \E a \in Accounts : handleResetMfa(a) \/ handleDeleteAuthUser(a)
         \/ CleanUp \/ Tick
  PROVE  MfaInv'
<1>1. slot' = slot /\ UNCHANGED <<accepted, overlapped, misled>>
  BY DEF handleResetMfa, handleDeleteAuthUser, CleanUp, Tick
<1>2. ASSUME Grows, Tables',
             \A f \in Factors : factor'[f].state = "verified" => factor[f].state = "verified"
      PROVE  MfaInv'
  BY <1>1, <1>2, MfaStep DEF MfaInv, CallsSound
<1>3. ASSUME NEW a \in Accounts, handleResetMfa(a) \/ handleDeleteAuthUser(a)
      PROVE  MfaInv'
  <2>1. /\ DeleteFactors(OwnedBy(a))
        /\ accounts' \subseteq accounts /\ UNCHANGED <<now, accepted>>
    BY <1>3 DEF handleResetMfa, handleDeleteAuthUser
  <2> QED
    BY <1>2, <2>1, FactorsGo DEF MfaInv
<1>4. CASE CleanUp
  BY <1>2, <1>4, CleanUpGoes DEF MfaInv
<1>5. CASE Tick
  <2>1. now' \in 0..MaxTime /\ UNCHANGED <<accounts, factor, challenge, accepted>>
    BY <1>5 DEF Tick, MfaInv, Tables
  <2>2. Grows /\ Tables'
    BY <2>1 DEF Grows, Tables, MfaInv
  <2> QED
    BY <1>2, <2>1, <2>2
<1> QED
  BY <1>3, <1>4, <1>5

\* findMfaChallengeById and the checks after it: a challenge is open when a
\* call starts to mark it, so it has not been accepted; if another call is
\* marking it, it is overlapped.
LEMMA CheckCodeKeeps ==
  ASSUME MfaInv, NEW s \in Slots, CheckCode(s)
  PROVE  MfaInv'
<1> USE DEF MfaInv
<1>1. slot[s] \in Call /\ slot[s] \in CallRecord /\ Named(slot[s]) /\ Found(slot[s])
  BY DEF CallsSound, Call
<1>2. CASE ~(ChallengeStands(s) /\ verifyTotp(slot[s].code))
  BY <1>2, AnswersKeep DEF CheckCode
<1>3. CASE ChallengeStands(s) /\ verifyTotp(slot[s].code)
  <2>1. PICK q : q = [slot[s] EXCEPT !.phase = "marking"]
    OBVIOUS
  <2>2. /\ q \in Call /\ q.phase = "marking" /\ q.challenge = slot[s].challenge
        /\ q.factor = slot[s].factor /\ q.user = slot[s].user /\ (q.pending <=> slot[s].pending)
    BY <1>1, <2>1 DEF CheckCode, At, Call, CallRecord, Named
  <2>3. slot' = [slot EXCEPT ![s] = q]
    BY <1>3, <2>1 DEF CheckCode
  <2>4. UNCHANGED <<accounts, factor, challenge, now, accepted, misled>>
    BY DEF CheckCode
  <2>5. slot[s].challenge \in Challenges /\ challenge[slot[s].challenge].state = "open"
        /\ challenge[slot[s].challenge].factor = slot[s].factor
    BY <1>1, <1>3 DEF ChallengeStands, CheckCode, At, Named
  <2>6. Grows /\ Tables'
    BY <2>4, RowsKept
  <2>7. slot \in [Slots -> Call] /\ slot' \in [Slots -> Call] /\ slot'[s] = q
        /\ \A o \in Slots \ {s} : slot'[o] = slot[o]
    BY <2>2, <2>3 DEF CallsSound
  <2>8. CallsSound'
    <3>1. Found(q)'
      BY <1>1, <2>2, <2>4 DEF Found, CheckCode, At
    <3>2. Proven(q)'
      BY <2>2, <2>4, <2>5 DEF Proven
    <3>3. ASSUME NEW o \in Slots \ {s}
          PROVE  Found(slot[o])' /\ Proven(slot[o])'
      BY <2>4, <2>7 DEF CallsSound, Found, Proven
    <3> QED
      BY <2>7, <3>1, <3>2, <3>3 DEF CallsSound, Found, Proven
  <2>9. \A c \in Challenges : SpentSound(c)'
    <3> TAKE c \in Challenges
    <3>1. SpentSound(c) /\ accepted[c] \in Nat
      BY DEF Tables
    <3>2. \A o \in Slots \ {s} : MarksIt(o, c)' <=> MarksIt(o, c)
      BY <2>7 DEF MarksIt
    <3>3. MarksIt(s, c)' <=> c = slot[s].challenge
      BY <2>2, <2>7 DEF MarksIt
    <3>4. overlapped \subseteq overlapped'
      BY <1>3 DEF CheckCode
    <3>5. ASSUME c = slot[s].challenge, NEW o \in Slots \ {s}, MarksIt(o, c)
          PROVE  c \in overlapped'
      BY <1>3, <3>5 DEF CheckCode, BeingMarked, MarksIt
    <3>6. c = slot[s].challenge => ~(accepted[c] > 0)
      BY <2>5, <3>1 DEF SpentSound
    <3> QED
      BY <2>4, <3>1, <3>2, <3>3, <3>4, <3>5, <3>6 DEF SpentSound
  <2>10. VerifiedByChallenge'
    BY <2>4, <2>6, VerifiedStays DEF VerifiedByChallenge
  <2> QED
    BY <2>4, <2>6, <2>8, <2>9, <2>10
<1> QED
  BY <1>2, <1>3

\* The first UPDATE of a verification: whoever marks a challenge that was
\* accepted before, or that another still marks, has been overlapped.
LEMMA MarkChallengeKeeps ==
  ASSUME MfaInv, NEW s \in Slots, markMfaChallengeVerified(s)
  PROVE  MfaInv'
<1> USE DEF MfaInv
<1> DEFINE c0 == slot[s].challenge
<1>1. /\ slot[s] \in Call /\ slot[s] \in CallRecord /\ Named(slot[s])
      /\ Found(slot[s]) /\ Proven(slot[s])
  BY DEF CallsSound, Call
<1>2. slot[s].phase = "marking" /\ c0 \in Challenges /\ challenge[c0].state # "none"
      /\ challenge[c0].factor = slot[s].factor
  BY <1>1 DEF markMfaChallengeVerified, Proven
<1>3. UNCHANGED <<accounts, factor, now, overlapped>>
  BY DEF markMfaChallengeVerified
<1>4. /\ challenge' \in [Challenges -> ChallengeRow] /\ challenge'[c0].state \notin {"none", "open"}
      /\ \A c \in Challenges : challenge'[c].factor = challenge[c].factor
      /\ \A c \in Challenges \ {c0} : challenge'[c] = challenge[c]
  <2>1. challenge \in [Challenges -> ChallengeRow]
    BY DEF Tables
  <2>2. CASE challenge[c0].state = "open"
    <3>1. challenge' = [challenge EXCEPT ![c0].state = "verified"]
      BY <2>2 DEF markMfaChallengeVerified
    <3> QED
      BY <1>2, <2>1, <3>1 DEF ChallengeRow
  <2>3. CASE challenge[c0].state # "open"
    BY <1>2, <2>1, <2>3 DEF markMfaChallengeVerified
  <2> QED
    BY <2>2, <2>3
<1>5. accepted' \in [Challenges -> Nat] /\ accepted'[c0] = accepted[c0] + 1
      /\ \A c \in Challenges \ {c0} : accepted'[c] = accepted[c]
  BY <1>2 DEF markMfaChallengeVerified, Tables
<1>6. Grows /\ Tables'
  BY <1>2, <1>3, <1>4, <1>5 DEF Grows, Tables
<1>7. PICK q : q = [slot[s] EXCEPT !.phase = "marked", !.challenge = NoOne, !.code = 0]
  OBVIOUS
<1>8. /\ q \in Call /\ q.phase = "marked"
      /\ q.factor = slot[s].factor /\ q.user = slot[s].user /\ (q.pending <=> slot[s].pending)
  <2>1. q \in CallRecord /\ q.phase = "marked" /\ q.op = slot[s].op
    <3> PICK p : p = slot[s]
      OBVIOUS
    <3>1. p \in CallRecord
      BY <1>1
    <3>2. /\ [p EXCEPT !.phase = "marked"] \in CallRecord
          /\ \A r \in CallRecord : [r EXCEPT !.challenge = NoOne] \in CallRecord
          /\ \A r \in CallRecord, k \in Int : [r EXCEPT !.code = k] \in CallRecord
      BY <3>1 DEF CallRecord
    <3>3. q = [[[p EXCEPT !.phase = "marked"] EXCEPT !.challenge = NoOne] EXCEPT !.code = 0]
      BY <1>7, <3>1 DEF CallRecord
    <3>4. q.phase = "marked" /\ q.op = slot[s].op
      BY <1>7, <3>1 DEF CallRecord
    <3>5. 0 \in Int
      OBVIOUS
    <3> QED
      BY <3>2, <3>3, <3>4, <3>5
  <2>2. q.factor = slot[s].factor /\ q.user = slot[s].user /\ (q.pending <=> slot[s].pending)
    BY <1>1, <1>7 DEF CallRecord
  <2>3. Named(q)
    BY <1>1, <1>2, <2>1, <2>2 DEF Named
  <2> QED
    BY <2>1, <2>2, <2>3 DEF Call
<1>9. PICK r \in {q, Free} : slot' = [slot EXCEPT ![s] = r]
  <2>1. CASE slot[s].pending
    <3>1. slot' = [slot EXCEPT ![s] = q]
      BY <1>7, <2>1 DEF markMfaChallengeVerified
    <3> QED
      BY <3>1
  <2>2. CASE ~slot[s].pending
    BY <2>2 DEF markMfaChallengeVerified, Answer
  <2> QED
    BY <2>1, <2>2
<1>10. r \in Call /\ r.phase \in {"marked", "free"} /\ Found(r)' /\ Proven(r)'
  <2>1. Found(q)'
    BY <1>1, <1>2, <1>3, <1>8 DEF Found
  <2>2. accepted'[c0] > 0 /\ challenge'[c0].factor = q.factor
    BY <1>2, <1>4, <1>5, <1>8 DEF Tables
  <2> HIDE DEF c0
  <2>3. Proven(q)'
    BY <1>2, <1>8, <2>2 DEF Proven
  <2>4. Free \in Call /\ Free.phase = "free" /\ Found(Free)' /\ Proven(Free)'
    BY FreeIsSound DEF Free, Found, Proven
  <2> QED
    BY <1>8, <1>9, <2>1, <2>3, <2>4
<1> HIDE DEF c0
<1>11. slot \in [Slots -> Call] /\ slot' \in [Slots -> Call] /\ slot'[s] = r
       /\ \A o \in Slots \ {s} : slot'[o] = slot[o]
  BY <1>9, <1>10 DEF CallsSound
<1>12. CallsSound'
  <2>1. ASSUME NEW o \in Slots \ {s}
        PROVE  Found(slot[o])' /\ Proven(slot[o])'
    <3> PICK p : p = slot[o]
      OBVIOUS
    <3>1. Found(p)' /\ Proven(p)'
      BY <1>6, CallStays DEF CallsSound
    <3> QED
      BY <1>11, <3>1 DEF Found, Proven
  <2>2. Found(slot[s])' /\ Proven(slot[s])'
    BY <1>10, <1>11 DEF Found, Proven
  <2> QED
    BY <1>11, <2>1, <2>2 DEF CallsSound
<1>13. \A c \in Challenges : SpentSound(c)'
  <2> TAKE c \in Challenges
  <2>1. SpentSound(c) /\ accepted[c] \in Nat
    BY DEF Tables
  <2>2. \A o \in Slots : MarksIt(o, c)' => o # s /\ MarksIt(o, c)
    BY <1>10, <1>11 DEF MarksIt
  <2>3. CASE c = c0
    <3>1. MarksIt(s, c)
      BY <1>2, <2>3 DEF MarksIt, c0
    <3>2. accepted[c] > 0 => c \in overlapped
      BY <2>1, <3>1 DEF SpentSound
    <3>3. \A o \in Slots : MarksIt(o, c)' => c \in overlapped
      BY <2>1, <2>2, <3>1 DEF SpentSound
    <3> QED
      BY <1>3, <1>4, <1>5, <2>1, <2>3, <3>2, <3>3 DEF SpentSound
  <2>4. CASE c # c0
    BY <1>3, <1>4, <1>5, <2>1, <2>2, <2>4 DEF SpentSound
  <2> QED
    BY <2>3, <2>4
<1>14. VerifiedByChallenge'
  BY <1>3, <1>6, VerifiedStays DEF VerifiedByChallenge
<1>15. ~misled'
  BY <1>1, <1>2, <1>3 DEF markMfaChallengeVerified, Misleads, Found
<1> QED
  BY <1>6, <1>12, <1>13, <1>14, <1>15

\* The second UPDATE: the factor is verified by the challenge just accepted,
\* and the caller is told so rightly.
LEMMA MarkFactorKeeps ==
  ASSUME MfaInv, NEW s \in Slots, markMfaFactorVerified(s)
  PROVE  MfaInv'
<1> USE DEF MfaInv
<1> DEFINE f0 == slot[s].factor
<1>1. slot \in [Slots -> Call] /\ Found(slot[s]) /\ Proven(slot[s])
  BY DEF CallsSound
<1>2. f0 \in Factors /\ factor[f0].state # "none"
      /\ \E c \in Challenges : accepted[c] > 0 /\ challenge[c].factor = f0
  BY <1>1 DEF markMfaFactorVerified, Found, Proven
<1>3. UNCHANGED <<accounts, challenge, now, accepted, overlapped>>
  BY DEF markMfaFactorVerified
<1>4. /\ factor' \in [Factors -> FactorRow] /\ factor'[f0].state \notin {"none", "unverified"}
      /\ \A f \in Factors : factor'[f].owner = factor[f].owner
      /\ \A f \in Factors \ {f0} : factor'[f] = factor[f]
  <2>1. factor \in [Factors -> FactorRow]
    BY DEF Tables
  <2>2. CASE factor[f0].state = "unverified"
    <3>1. factor' = [factor EXCEPT ![f0].state = "verified", ![f0].stale = 0]
      BY <2>2 DEF markMfaFactorVerified
    <3> QED
      BY <1>2, <2>1, <3>1 DEF FactorRow
  <2>3. CASE factor[f0].state # "unverified"
    BY <1>2, <2>1, <2>3 DEF markMfaFactorVerified
  <2> QED
    BY <2>2, <2>3
<1>5. Grows /\ Tables'
  BY <1>2, <1>3, <1>4 DEF Grows, Tables
<1>6. slot' \in [Slots -> Call] /\ slot'[s] = Free
      /\ \A o \in Slots \ {s} : slot'[o] = slot[o]
  BY <1>1, FreeIsSound DEF markMfaFactorVerified, Answer
<1>7. CallsSound'
  <2>1. ASSUME NEW o \in Slots \ {s}
        PROVE  Found(slot[o])' /\ Proven(slot[o])'
    <3> PICK p : p = slot[o]
      OBVIOUS
    <3>1. Found(p)' /\ Proven(p)'
      BY <1>5, CallStays DEF CallsSound
    <3> QED
      BY <1>6, <3>1 DEF Found, Proven
  <2>2. Found(slot[s])' /\ Proven(slot[s])'
    BY <1>6 DEF Found, Proven, Free
  <2> QED
    BY <1>6, <2>1, <2>2 DEF CallsSound
<1>8. \A c \in Challenges : SpentSound(c)'
  <2> TAKE c \in Challenges
  <2>1. SpentSound(c)
    OBVIOUS
  <2>2. \A o \in Slots : MarksIt(o, c)' => MarksIt(o, c)
    BY <1>6 DEF MarksIt, Free
  <2> QED
    BY <1>3, <2>1, <2>2 DEF SpentSound
<1> HIDE DEF f0
<1>9. VerifiedByChallenge'
  <2> SUFFICES ASSUME NEW f \in Factors, factor'[f].state = "verified"
               PROVE  \E c \in Challenges : accepted'[c] > 0 /\ challenge'[c].factor = f
    BY DEF VerifiedByChallenge
  <2>1. CASE f = f0
    BY <1>2, <1>3, <2>1
  <2>2. CASE f # f0
    BY <1>4, <1>5, <2>2, VerifiedStays
  <2> QED
    BY <2>1, <2>2
<1>10. ~misled'
  BY <1>4 DEF markMfaFactorVerified, Misleads, f0
<1> QED
  BY <1>5, <1>7, <1>8, <1>9, <1>10

\* Every step of the auth service keeps the invariant.
LEMMA NextMfaKeeps ==
  ASSUME MfaInv, NextMfa
  PROVE  MfaInv'
<1>1. ASSUME NEW s \in Slots,
             \/ authenticate(s) \/ Unauthorized(s) \/ FindFactor(s)
             \/ \E f \in Factors : handleMfaEnroll(s, f)
             \/ \E c \in Challenges : handleMfaChallenge(s, c)
             \/ handleMfaUnenroll(s) \/ CheckCode(s) \/ StatementFails(s)
             \/ markMfaChallengeVerified(s) \/ markMfaFactorVerified(s)
      PROVE  MfaInv'
  <2>1. Unauthorized(s) \/ StatementFails(s) => MfaInv'
    BY AnswersKeep DEF Unauthorized, StatementFails
  <2>2. authenticate(s) \/ FindFactor(s) => MfaInv'
    BY LookUpsKeep
  <2>3. \A f \in Factors : handleMfaEnroll(s, f) => MfaInv'
    BY EnrollKeeps
  <2>4. \A c \in Challenges : handleMfaChallenge(s, c) => MfaInv'
    BY ChallengeKeeps
  <2>5. handleMfaUnenroll(s) => MfaInv'
    BY UnenrollKeeps
  <2>6. CheckCode(s) => MfaInv'
    BY CheckCodeKeeps
  <2>7. markMfaChallengeVerified(s) => MfaInv'
    BY MarkChallengeKeeps
  <2>8. markMfaFactorVerified(s) => MfaInv'
    BY MarkFactorKeeps
  <2> QED
    BY <1>1, <2>1, <2>2, <2>3, <2>4, <2>5, <2>6, <2>7, <2>8
<1>2. CASE \/ \E a \in Accounts : handleResetMfa(a) \/ handleDeleteAuthUser(a)
           \/ CleanUp \/ Tick
  BY <1>2, OthersKeep
<1> QED
  BY <1>1, <1>2 DEF NextMfa

-----------------------------------------------------------------------------
(***************************************************************************)
(* The tabs.                                                               *)
(***************************************************************************)

\* What a step does to the sign-ins: none that is done comes undone.
SignInsGo ==
  /\ signIn' \in [Sessions -> SignInRow]
  /\ \A n \in Sessions :
       /\ signIn'[n].state = "sent" => signIn'[n].tab \in Tabs
       /\ signIn[n].state = "done" => signIn'[n].state = "done"

\* setSession and a page load: the tab takes a session that is done and that
\* no tab has left.
LEMMA SessionTaken ==
  ASSUME TabsInv, SignInsGo, NEW t \in Tabs, NEW n \in Sessions \cup {None},
         currentToken' = [currentToken EXCEPT ![t] = n], storage' = n,
         hash' = hash, left' = left, Done(n)', \A u \in Tabs : n \notin left[u]
  PROVE  TabsInv'
<1>1. /\ currentToken \in [Tabs -> Sessions \cup {None}] /\ left \in [Tabs -> SUBSET Sessions]
      /\ currentToken' \in [Tabs -> Sessions \cup {None}]
      /\ \A u \in Tabs : currentToken'[u] = n \/ currentToken'[u] = currentToken[u]
  BY DEF TabsInv
<1>2. \A m \in Sessions \cup {None} : Done(m) => Done(m)'
  BY DEF Done, SignInsGo
<1>3. \A u \in Tabs : Done(currentToken[u])' /\ \A m \in left'[u] : Done(m)'
  <2> TAKE u \in Tabs
  <2>1. CASE currentToken'[u] = n
    BY <1>1, <1>2, <2>1 DEF TabsInv, Done
  <2>2. CASE currentToken'[u] = currentToken[u]
    BY <1>1, <1>2, <2>2 DEF TabsInv, Done
  <2> QED
    BY <1>1, <2>1, <2>2
<1>4. SignedOutStaysOut'
  BY <1>1 DEF SignedOutStaysOut, TabsInv
<1> QED
  BY <1>1, <1>3, <1>4 DEF TabsInv, SignInsGo, Done

\* Steps that only touch sign-ins, or nothing of a session at all.
LEMMA SessionsKept ==
  ASSUME TabsInv, SignInsGo, UNCHANGED <<currentToken, storage, hash, left>>
  PROVE  TabsInv'
BY DEF TabsInv, SignInsGo, Done, SignedOutStaysOut

\* Where the sign-ins stay, they go nowhere they should not.
LEMMA SignInsKept ==
  ASSUME TabsInv, UNCHANGED signIn
  PROVE  SignInsGo
BY DEF TabsInv, SignInsGo

\* A page that goes away drops its sign-ins.
LEMMA DroppedGo ==
  ASSUME TabsInv, NEW t \in Tabs
  PROVE  /\ Dropped(t) \in [Sessions -> SignInRow]
         /\ \A n \in Sessions :
              /\ Dropped(t)[n].state = "sent" => signIn[n].tab \in Tabs /\ Dropped(t)[n].tab = signIn[n].tab
              /\ signIn[n].state = "done" => Dropped(t)[n].state = "done"
<1> PICK d : d = Dropped(t)
  OBVIOUS
<1>1. \A n \in Sessions :
        /\ d[n] \in SignInRow /\ d[n].tab = signIn[n].tab
        /\ d[n].state = signIn[n].state \/ d[n].state = "done"
  <2> TAKE n \in Sessions
  <2>1. signIn[n] \in SignInRow
    BY DEF TabsInv
  <2>2. CASE signIn[n].state = "sent" /\ signIn[n].tab = t
    <3>1. d[n] = [signIn[n] EXCEPT !.state = "done"]
      BY <2>2 DEF Dropped
    <3> QED
      BY <2>1, <3>1 DEF SignInRow
  <2>3. CASE ~(signIn[n].state = "sent" /\ signIn[n].tab = t)
    BY <2>1, <2>3 DEF Dropped
  <2> QED
    BY <2>2, <2>3
<1>2. d \in [Sessions -> SignInRow]
  BY <1>1 DEF Dropped
<1> QED
  BY <1>1, <1>2 DEF TabsInv

\* The answer of a sign-in: its session is new to every tab.
LEMMA SignedInKeeps ==
  ASSUME TabsInv, NEW n \in Sessions, SignedIn(n)
  PROVE  TabsInv'
<1> DEFINE t == signIn[n].tab
<1>1. t \in Tabs /\ signIn[n].state = "sent" /\ n # None
  BY DEF SignedIn, TabsInv, None, Sessions
<1>2. /\ currentToken' = [currentToken EXCEPT ![t] = n] /\ storage' = n
      /\ hash' = hash /\ left' = left
  BY DEF SignedIn, setSession, Persisted
<1>3. signIn' \in [Sessions -> SignInRow] /\ signIn'[n].state = "done"
      /\ \A m \in Sessions \ {n} : signIn'[m] = signIn[m]
  BY DEF SignedIn, TabsInv, SignInRow
<1>4. SignInsGo /\ Done(n)'
  BY <1>3 DEF SignInsGo, Done, TabsInv
<1>5. \A u \in Tabs : n \notin left[u]
  BY <1>1 DEF TabsInv, Done
<1> HIDE DEF t
<1> QED
  BY <1>1, <1>2, <1>4, <1>5, SessionTaken

\* signOut: the session it leaves is in the memory of no tab that left it,
\* and the storage is empty.
LEMMA SignOutKeeps ==
  ASSUME TabsInv, NEW t \in Tabs, signOut(t)
  PROVE  TabsInv'
<1>1. /\ currentToken' = [currentToken EXCEPT ![t] = None] /\ storage' = None
      /\ hash' = hash /\ signIn' = signIn
      /\ left' = [left EXCEPT ![t] = @ \cup ({currentToken[t]} \ {None})]
  BY DEF signOut, setSession, Persisted
<1>2. /\ currentToken \in [Tabs -> Sessions \cup {None}] /\ left \in [Tabs -> SUBSET Sessions]
      /\ None \notin Sessions
  BY DEF TabsInv, None, Sessions
<1>3. /\ currentToken' \in [Tabs -> Sessions \cup {None}] /\ currentToken'[t] = None
      /\ left' \in [Tabs -> SUBSET Sessions]
      /\ left'[t] = left[t] \cup ({currentToken[t]} \ {None})
      /\ \A u \in Tabs \ {t} : currentToken'[u] = currentToken[u] /\ left'[u] = left[u]
  BY <1>1, <1>2
<1>4. \A u \in Tabs : Done(currentToken[u])' /\ \A m \in left'[u] : Done(m)'
  BY <1>1, <1>2, <1>3 DEF TabsInv, Done
<1>5. SignedOutStaysOut'
  BY <1>1, <1>2, <1>3 DEF SignedOutStaysOut, TabsInv
<1> QED
  BY <1>1, <1>3, <1>4, <1>5 DEF TabsInv, Done

\* A page that loads again takes what is stored.
LEMMA ReloadKeeps ==
  ASSUME TabsInv, NEW t \in Tabs, Reload(t)
  PROVE  TabsInv'
<1>1. hash[t] = None
  BY DEF TabsInv
<1>2. /\ currentToken' = [currentToken EXCEPT ![t] = storage] /\ storage' = storage
      /\ hash' = [hash EXCEPT ![t] = None] /\ left' = left /\ signIn' = Dropped(t)
  BY <1>1 DEF Reload, Load, CleanHash
<1>3. SignInsGo
  BY <1>2, DroppedGo DEF SignInsGo
<1>4. hash' = hash /\ storage \in Sessions \cup {None}
      /\ \A u \in Tabs : storage \notin left[u]
  BY <1>2 DEF TabsInv, SignedOutStaysOut
<1>5. Done(storage)'
  BY <1>2, <1>3 DEF TabsInv, Done, SignInsGo
<1>6. PICK n : n = storage
  OBVIOUS
<1>7. Done(n)'
  BY <1>2, <1>5, <1>6 DEF Done
<1> QED
  BY <1>2, <1>3, <1>4, <1>6, <1>7, SessionTaken

\* A page whose URL carries a session takes it, and it is a new one.
LEMMA LandKeeps ==
  ASSUME TabsInv, NEW n \in Sessions, NEW t \in Tabs, NEW a \in Accounts, Land(n, t, a)
  PROVE  TabsInv'
<1>1. n # None /\ signIn[n].state = "none"
  <2>1. n \in Int /\ n # None
    BY DEF None, Sessions
  <2>2. signIn[n] = NoSignIn
    BY <2>1 DEF Land, Fresh
  <2> QED
    BY <2>1, <2>2 DEF NoSignIn
<1>2. /\ currentToken' = [currentToken EXCEPT ![t] = n] /\ storage' = n
      /\ hash' = [hash EXCEPT ![t] = None] /\ left' = left
  BY <1>1 DEF Land, Load, CleanHash
<1> DEFINE new == [state |-> "done", tab |-> t, account |-> a]
<1>3. new \in SignInRow /\ new.state = "done"
  BY DEF SignInRow
<1>4. signIn' = [Dropped(t) EXCEPT ![n] = new]
  BY DEF Land
<1> HIDE DEF new
<1>5. signIn' \in [Sessions -> SignInRow] /\ signIn'[n] = new
      /\ \A m \in Sessions \ {n} : signIn'[m] = Dropped(t)[m]
  BY <1>3, <1>4, DroppedGo
<1>6. SignInsGo /\ Done(n)'
  BY <1>1, <1>3, <1>5, DroppedGo DEF SignInsGo, Done
<1>7. hash' = hash /\ \A u \in Tabs : n \notin left[u]
  BY <1>1, <1>2 DEF TabsInv, Done
<1> QED
  BY <1>2, <1>6, <1>7, SessionTaken

\* A sign-in is sent, or fails.
LEMMA PostsKeep ==
  ASSUME TabsInv, NEW n \in Sessions,
         \/ SignInFails(n)
         \/ \E t \in Tabs, a \in Accounts : post(n, t, a)
  PROVE  TabsInv'
<1>1. UNCHANGED <<currentToken, storage, hash, left>>
  BY DEF SignInFails, post, tabVars
<1>2. CASE SignInFails(n)
  <2>1. signIn' \in [Sessions -> SignInRow] /\ signIn'[n].state = "done"
        /\ \A m \in Sessions \ {n} : signIn'[m] = signIn[m]
    BY <1>2 DEF SignInFails, TabsInv, SignInRow
  <2> QED
    BY <1>1, <2>1, SessionsKept DEF SignInsGo, TabsInv
<1>3. ASSUME NEW t \in Tabs, NEW a \in Accounts, post(n, t, a)
      PROVE  TabsInv'
  <2>1. signIn[n].state = "none"
    <3>1. signIn[n] = NoSignIn
      BY <1>3 DEF post, Fresh, Sessions
    <3> QED
      BY <3>1 DEF NoSignIn
  <2> DEFINE new == [state |-> "sent", tab |-> t, account |-> a]
  <2>2. new \in SignInRow /\ new.state = "sent" /\ new.tab = t
    BY DEF SignInRow
  <2>3. signIn' = [signIn EXCEPT ![n] = new]
    BY <1>3 DEF post
  <2> HIDE DEF new
  <2>4. SignInsGo
    BY <2>1, <2>2, <2>3 DEF SignInsGo, TabsInv
  <2> QED
    BY <1>1, <2>4, SessionsKept
<1> QED
  BY <1>2, <1>3

-----------------------------------------------------------------------------
(***************************************************************************)
(* Every step.                                                             *)
(***************************************************************************)

\* The auth service's tables and calls do not change by themselves.
LEMMA MfaStutters ==
  ASSUME MfaInv, UNCHANGED mfaVars
  PROVE  MfaInv'
<1>1. UNCHANGED <<accounts, factor, challenge, slot, now, accepted, overlapped, misled>>
  BY DEF mfaVars
<1>2. slot' \in [Slots -> Call]
  BY <1>1 DEF MfaInv, CallsSound
<1> QED
  BY <1>1, <1>2, RowsKept, MfaStep DEF MfaInv

\* MfaClient.request: the call is made with the account of the tab's session.
LEMMA RequestsKeep ==
  ASSUME IInv, NEW t \in Tabs, NEW s \in Slots, Request(t, s)
  PROVE  IInv'
<1>0. UNCHANGED <<currentToken, storage, hash, left, signIn>>
  BY DEF Request, request, tabVars
<1>1. TabsInv'
  BY <1>0, SignInsKept, SessionsKept DEF IInv
<1>2. AccountOf(currentToken[t]) \in Accounts \cup {NoOne}
  <2>1. currentToken[t] \in Sessions \cup {None} /\ signIn \in [Sessions -> SignInRow]
    BY DEF IInv, TabsInv
  <2> QED
    BY <2>1 DEF AccountOf, SignInRow
<1>3. ASSUME NEW op \in {"enroll", "challenge", "verify", "unenroll"},
             NEW f \in Factors \cup {NoOne}, NEW c \in Challenges \cup {NoOne}, NEW code \in Int,
             op # "enroll" => f \in Factors, op = "verify" => c \in Challenges,
             request(t, s, op, f, c, code)
      PROVE  MfaInv'
  BY <1>2, <1>3, ReceiveKeeps DEF request, IInv
<1>4. \A age \in 0..Window+1 : now - age \in Int
  BY DEF IInv, MfaInv, Tables
<1>5. request(t, s, "enroll", NoOne, NoOne, 0) => MfaInv'
  <2>1. 0 \in Int
    OBVIOUS
  <2> QED
    BY <1>3, <2>1
<1>6. ASSUME NEW f \in Factors, NEW op \in {"challenge", "unenroll"}, request(t, s, op, f, NoOne, 0)
      PROVE  MfaInv'
  BY <1>3, <1>6
<1>7. ASSUME NEW f \in Factors, NEW c \in Challenges, NEW age \in 0..Window+1,
             request(t, s, "verify", f, c, now - age)
      PROVE  MfaInv'
  <2>1. now - age \in Int
    BY <1>4
  <2> QED
    BY <1>3, <1>7, <2>1
<1>8. MfaInv'
  BY <1>5, <1>6, <1>7 DEF Request
<1> QED
  BY <1>1, <1>8 DEF IInv

\* Every step of the tabs keeps the invariant.
LEMMA ClientNextKeeps ==
  ASSUME IInv, ClientNext
  PROVE  IInv'
<1>1. ASSUME NEW t \in Tabs, NEW s \in Slots, Request(t, s)
      PROVE  IInv'
  BY <1>1, RequestsKeep
<1>2. ASSUME UNCHANGED mfaVars, TabsInv'
      PROVE  IInv'
  BY <1>2, MfaStutters DEF IInv
<1>3. ASSUME NEW t \in Tabs,
             \/ Emit(t) \/ EmissionEnds(t)
             \/ \E l \in Listeners :
                  onAuthStateChange(t, l) \/ InitialSession(t, l) \/ unsubscribe(t, l)
      PROVE  IInv'
  <2>1. UNCHANGED mfaVars /\ UNCHANGED <<currentToken, storage, hash, left, signIn>>
    BY <1>3 DEF Emit, EmissionEnds, onAuthStateChange, InitialSession, unsubscribe
  <2> QED
    BY <1>2, <2>1, SignInsKept, SessionsKept DEF IInv
<1>4. ASSUME NEW t \in Tabs, signOut(t) \/ Reload(t)
      PROVE  IInv'
  <2>1. UNCHANGED mfaVars
    BY <1>4 DEF signOut, Reload
  <2> QED
    BY <1>2, <1>4, <2>1, SignOutKeeps, ReloadKeeps DEF IInv
<1>5. ASSUME NEW t \in Tabs, NEW n \in Sessions, NEW a \in Accounts, Land(n, t, a)
      PROVE  IInv'
  <2>1. UNCHANGED mfaVars
    BY <1>5 DEF Land
  <2> QED
    BY <1>2, <1>5, <2>1, LandKeeps DEF IInv
<1>6. ASSUME NEW n \in Sessions,
             \/ SignInFails(n)
             \/ \E t \in Tabs, a \in Accounts : post(n, t, a)
      PROVE  IInv'
  <2>1. UNCHANGED mfaVars
    BY <1>6 DEF SignInFails, post
  <2> QED
    BY <1>2, <1>6, <2>1, PostsKeep DEF IInv
<1>7. ASSUME NEW n \in Sessions, SignedIn(n)
      PROVE  IInv'
  <2>1. UNCHANGED mfaVars
    BY <1>7 DEF SignedIn
  <2> QED
    BY <1>2, <1>7, <2>1, SignedInKeeps DEF IInv
<1> QED
  BY <1>1, <1>3, <1>4, <1>5, <1>6, <1>7 DEF ClientNext

\* Every step keeps the invariant.
LEMMA NextIInv == IInv /\ [Next]_vars => IInv'
<1> SUFFICES ASSUME IInv, [Next]_vars
             PROVE  IInv'
  OBVIOUS
<1>1. CASE ClientNext
  BY <1>1, ClientNextKeeps
<1>2. CASE NextMfa /\ UNCHANGED <<tabVars, signIn, budget>>
  <2>1. UNCHANGED <<currentToken, storage, hash, left, signIn>>
    BY <1>2 DEF tabVars
  <2> QED
    BY <1>2, <2>1, NextMfaKeeps, SignInsKept, SessionsKept DEF IInv
<1>3. CASE UNCHANGED vars
  <2>1. UNCHANGED mfaVars /\ UNCHANGED <<currentToken, storage, hash, left, signIn>>
    BY <1>3 DEF vars, tabVars
  <2> QED
    BY <2>1, MfaStutters, SignInsKept, SessionsKept DEF IInv
<1> QED
  BY <1>1, <1>2, <1>3 DEF Next

\* The tabs and the auth service never leave the invariant.
THEOREM SpecIInv == Spec => []IInv
BY InitIInv, NextIInv, PTL DEF Spec

\* A challenge is spent by one verification unless two checked it at once, a
\* factor is verified by way of a challenge of its own, and 'verified' is never
\* said of a factor that is not (handleMfaVerify), for any number of accounts,
\* factors, challenges and calls at once and whatever drift and age are set.
THEOREM VerificationAlwaysSound == Spec => []VerificationSound
<1>1. IInv => VerificationSound
  BY DEF IInv, MfaInv, Tables, FactorRow, ChallengeRow, CallsSound, Call, CallRecord,
         VerificationSound, TypeOKMfa, ChallengeSpentOnce, SpentSound, VerifiedAnswersHold
<1> QED
  BY <1>1, SpecIInv, PTL

\* A session that a tab signed out of is not brought back by a reload, another
\* tab or a URL (setSession, detectSessionInUrl), for any number of tabs,
\* listeners and sign-ins.
THEOREM SignedOutAlwaysStaysOut == Spec => []SignedOutStaysOut
<1>1. IInv => SignedOutStaysOut
  BY DEF IInv, TabsInv
<1> QED
  BY <1>1, SpecIInv, PTL

-----------------------------------------------------------------------------
(***************************************************************************)
(* The listeners of a tab where no callback has changed the session: one   *)
(* loop runs at most, of the session the tab has, and who has heard of     *)
(* anything but that session is still to be called.                        *)
(***************************************************************************)
Frame == [session : Sessions \cup {None}, seen : SUBSET Listeners, called : BOOLEAN]
Word == Sessions \cup {None, Untold}

Heard(t, l) == told[t][l] \in {Untold, currentToken[t]}

TabAgrees(t) ==
  \/ Quiet(t) /\ \A i \in DOMAIN listeners[t] : Heard(t, listeners[t][i])
  \/ /\ Len(stack[t]) = 1 /\ stack[t][1].session = currentToken[t]
     /\ \A i \in DOMAIN listeners[t] :
          listeners[t][i] \in stack[t][1].seen => Heard(t, listeners[t][i])

ListenersInv ==
  /\ listeners \in [Tabs -> Seq(Listeners)] /\ initial \in [Tabs -> SUBSET Listeners]
  /\ stack \in [Tabs -> Seq(Frame)] /\ told \in [Tabs -> [Listeners -> Word]]
  /\ \A t \in Tabs \ reentered : TabAgrees(t)

\* No listeners to begin with.
LEMMA InitListeners == Init => ListenersInv
BY DEF Init, ListenersInv, TabAgrees, Quiet, Word, Frame

\* A step of one tab, whatever it does there.
OnlyIn(t) ==
  /\ listeners' \in [Tabs -> Seq(Listeners)] /\ initial' \in [Tabs -> SUBSET Listeners]
  /\ stack' \in [Tabs -> Seq(Frame)] /\ told' \in [Tabs -> [Listeners -> Word]]
  /\ \A o \in Tabs \ {t} :
       /\ listeners'[o] = listeners[o] /\ stack'[o] = stack[o] /\ told'[o] = told[o]
       /\ currentToken'[o] = currentToken[o]
  /\ reentered \subseteq reentered' \cup {t}

\* It is nothing to another tab, and keeps the invariant if its tab agrees.
LEMMA OneTab ==
  ASSUME ListenersInv, NEW t \in Tabs, OnlyIn(t), t \notin reentered' => TabAgrees(t)'
  PROVE  ListenersInv'
<1>1. ASSUME NEW o \in Tabs, o # t, o \notin reentered' PROVE TabAgrees(o)'
  <2>1. TabAgrees(o)
    BY <1>1 DEF OnlyIn, ListenersInv
  <2>2. /\ listeners'[o] = listeners[o] /\ stack'[o] = stack[o] /\ told'[o] = told[o]
        /\ currentToken'[o] = currentToken[o]
    BY <1>1 DEF OnlyIn
  <2> QED
    BY <2>1, <2>2 DEF TabAgrees, Quiet, Heard
<1> QED
  BY <1>1 DEF ListenersInv, OnlyIn

\* Frames, when the loops under way begin, go on, or see a callback afresh.
LEMMA FramesTyped ==
  ASSUME NEW frames \in Seq(Frame)
  PROVE  /\ \A n \in Sessions \cup {None} :
              /\ Emission(n) \o frames \in Seq(Frame)
              /\ Len(Emission(n) \o frames) = Len(frames) + 1
              /\ (Emission(n) \o frames)[1].session = n
              /\ (Emission(n) \o frames)[1].seen = {}
         /\ \A l \in Listeners :
              /\ Unvisited(frames, l) \in Seq(Frame)
              /\ Len(Unvisited(frames, l)) = Len(frames)
              /\ \A i \in DOMAIN frames :
                   /\ Unvisited(frames, l)[i].session = frames[i].session
                   /\ Unvisited(frames, l)[i].seen = frames[i].seen \ {l}
<1>1. ASSUME NEW n \in Sessions \cup {None}
      PROVE  /\ Emission(n) \o frames \in Seq(Frame)
             /\ Len(Emission(n) \o frames) = Len(frames) + 1
             /\ (Emission(n) \o frames)[1].session = n
             /\ (Emission(n) \o frames)[1].seen = {}
  <2>1. Told(n) \in Frame
    BY DEF Told, Frame
  <2>2. <<Told(n)>> \in Seq(Frame) /\ Len(<<Told(n)>>) = 1 /\ <<Told(n)>>[1] = Told(n)
    BY <2>1
  <2>3. /\ Emission(n) \o frames \in Seq(Frame)
        /\ Len(Emission(n) \o frames) = Len(frames) + 1
        /\ (Emission(n) \o frames)[1] = Told(n)
    BY <2>2 DEF Emission
  <2> QED
    BY <2>3 DEF Told
<1>2. ASSUME NEW l \in Listeners
      PROVE  /\ Unvisited(frames, l) \in Seq(Frame)
             /\ Len(Unvisited(frames, l)) = Len(frames)
             /\ \A i \in DOMAIN frames :
                  /\ Unvisited(frames, l)[i].session = frames[i].session
                  /\ Unvisited(frames, l)[i].seen = frames[i].seen \ {l}
  <2>1. DOMAIN frames = 1..Len(frames) /\ Len(frames) \in Nat
    OBVIOUS
  <2>2. \A f \in Frame : /\ [f EXCEPT !.seen = @ \ {l}] \in Frame
                         /\ [f EXCEPT !.seen = @ \ {l}].session = f.session
                         /\ [f EXCEPT !.seen = @ \ {l}].seen = f.seen \ {l}
    BY DEF Frame
  <2>3. \A i \in DOMAIN frames : frames[i] \in Frame
    OBVIOUS
  <2>4. Unvisited(frames, l) \in [1..Len(frames) -> Frame]
    BY <2>1, <2>2, <2>3 DEF Unvisited
  <2>5. \A i \in DOMAIN frames :
          /\ Unvisited(frames, l)[i].session = frames[i].session
          /\ Unvisited(frames, l)[i].seen = frames[i].seen \ {l}
    BY <2>2, <2>3 DEF Unvisited
  <2>6. Unvisited(frames, l) \in Seq(Frame) /\ Len(Unvisited(frames, l)) = Len(frames)
    BY <2>1, <2>4
  <2> QED
    BY <2>5, <2>6
<1> QED
  BY <1>1, <1>2

\* What is left of a list without one of its places.
LEMMA RemovedTyped ==
  ASSUME NEW ls \in Seq(Listeners), NEW i \in DOMAIN ls
  PROVE  /\ RemoveAt(ls, i) \in Seq(Listeners)
         /\ \A k \in DOMAIN RemoveAt(ls, i) : \E j \in DOMAIN ls : RemoveAt(ls, i)[k] = ls[j]
<1>1. Len(ls) \in Nat /\ i \in 1..Len(ls) /\ DOMAIN ls = 1..Len(ls)
  OBVIOUS
<1> DEFINE a == SubSeq(ls, 1, i - 1)
           b == SubSeq(ls, i + 1, Len(ls))
<1>2. a \in Seq(Listeners) /\ Len(a) = i - 1 /\ \A k \in 1..(i - 1) : a[k] = ls[k]
  BY <1>1
<1>3. /\ b \in Seq(Listeners) /\ Len(b) = Len(ls) - i
      /\ \A k \in 1..(Len(ls) - i) : b[k] = ls[i + k]
  BY <1>1
<1> HIDE DEF a, b
<1>4. /\ a \o b \in Seq(Listeners) /\ Len(a \o b) = Len(ls) - 1
      /\ DOMAIN (a \o b) = 1..(Len(ls) - 1)
  <2>1. (i - 1) + (Len(ls) - i) = Len(ls) - 1
    BY <1>1
  <2>2. a \o b \in Seq(Listeners) /\ Len(a \o b) = Len(a) + Len(b)
    <3>1. \A x, y \in Seq(Listeners) :
            x \o y \in Seq(Listeners) /\ Len(x \o y) = Len(x) + Len(y)
      OBVIOUS
    <3>2. a \in Seq(Listeners) /\ b \in Seq(Listeners)
      BY <1>2, <1>3
    <3> QED
      BY <3>1, <3>2
  <2>3. Len(a \o b) = Len(ls) - 1
    BY <1>2, <1>3, <2>1, <2>2
  <2> QED
    BY <2>2, <2>3
<1>5. ASSUME NEW k \in 1..(Len(ls) - 1)
      PROVE  \E j \in DOMAIN ls : (a \o b)[k] = ls[j]
  <2>0. k \in Int /\ i - 1 \in Int
    BY <1>1
  <2>1. CASE k <= i - 1
    <3>1. (a \o b)[k] = a[k] /\ k \in 1..(i - 1)
      BY <1>1, <1>2, <1>3, <2>1
    <3> QED
      BY <1>1, <1>2, <3>1
  <2>2. CASE k > i - 1
    <3>1. (a \o b)[k] = b[k - (i - 1)] /\ k - (i - 1) \in 1..(Len(ls) - i)
      BY <1>1, <1>2, <1>3, <2>2
    <3>2. i + (k - (i - 1)) \in DOMAIN ls
      BY <1>1, <3>1
    <3> QED
      BY <1>3, <3>1, <3>2
  <2>3. k <= i - 1 \/ k > i - 1
    BY <2>0
  <2> QED
    BY <2>1, <2>2, <2>3
<1>6. RemoveAt(ls, i) = a \o b
  BY DEF RemoveAt, a, b
<1> QED
  BY <1>4, <1>5, <1>6

\* The types of the listeners, and of one tab.
LEMMA TabTyped ==
  ASSUME ListenersInv, TabsInv, NEW t \in Tabs
  PROVE  /\ listeners \in [Tabs -> Seq(Listeners)] /\ initial \in [Tabs -> SUBSET Listeners]
         /\ stack \in [Tabs -> Seq(Frame)] /\ told \in [Tabs -> [Listeners -> Word]]
         /\ currentToken \in [Tabs -> Sessions \cup {None}]
         /\ listeners[t] \in Seq(Listeners)
         /\ \A i \in DOMAIN listeners[t] : listeners[t][i] \in Listeners
         /\ stack[t] \in Seq(Frame) /\ told[t] \in [Listeners -> Word]
         /\ currentToken[t] \in Word
         /\ t \notin reentered => TabAgrees(t)
BY DEF ListenersInv, TabsInv, Word

\* In a quiet tab that agrees, whoever has heard has heard of its session.
LEMMA QuietAgrees ==
  ASSUME NEW t \in Tabs, TabAgrees(t), Quiet(t)
  PROVE  \A i \in DOMAIN listeners[t] : Heard(t, listeners[t][i])
<1>1. Len(stack[t]) # 1
  BY DEF Quiet
<1> QED
  BY <1>1 DEF TabAgrees

\* The loop calls the next callback.
LEMMA EmitAgrees ==
  ASSUME ListenersInv, TabsInv, NEW t \in Tabs, Emit(t)
  PROVE  ListenersInv'
<1>1. PICK i \in DOMAIN listeners[t] :
        /\ ~Quiet(t)
        /\ stack' = [stack EXCEPT ![t][1].seen = @ \cup {listeners[t][i]}, ![t][1].called = TRUE]
        /\ told' = [told EXCEPT ![t][listeners[t][i]] = stack[t][1].session]
        /\ UNCHANGED <<currentToken, listeners, initial, reentered>>
  BY DEF Emit
<1>2. PICK l \in Listeners : l = listeners[t][i]
  BY TabTyped
<1>3. stack[t] \in Seq(Frame) /\ Len(stack[t]) >= 1 /\ stack[t][1] \in Frame
  BY <1>1, TabTyped DEF Quiet
<1> DEFINE once == [stack[t][1] EXCEPT !.seen = @ \cup {l}]
           first == [once EXCEPT !.called = TRUE]
           frames == [stack[t] EXCEPT ![1] = first]
           words == [told[t] EXCEPT ![l] = stack[t][1].session]
<1>4. first \in Frame /\ first.seen = stack[t][1].seen \cup {l}
      /\ first.session = stack[t][1].session
  BY <1>3 DEF Frame
<1>5. stack' = [stack EXCEPT ![t] = frames]
  <2>1. 1 \in DOMAIN stack[t] /\ stack \in [Tabs -> Seq(Frame)]
    BY <1>3, TabTyped
  <2>2. stack' = [stack EXCEPT ![t] = [stack[t] EXCEPT ![1] = once, ![1] = [once EXCEPT !.called = TRUE]]]
    BY <1>1, <1>2, <1>3, <2>1
  <2> QED
    BY <2>1, <2>2
<1> HIDE DEF first
<1>6. frames \in Seq(Frame) /\ frames[1] = first /\ Len(frames) = Len(stack[t])
  BY <1>3, <1>4
<1>7. words \in [Listeners -> Word] /\ told' = [told EXCEPT ![t] = words]
  <2>1. stack[t][1].session \in Word
    BY <1>3 DEF Frame, Word
  <2>2. told[t] \in [Listeners -> Word]
    BY TabTyped
  <2> QED
    BY <1>1, <1>2, <2>1, <2>2 DEF ListenersInv
<1>8. \A k \in Listeners : words[k] = IF k = l THEN stack[t][1].session ELSE told[t][k]
  BY TabTyped
<1> HIDE DEF frames, words
<1>9. stack'[t] = frames /\ told'[t] = words
  BY <1>5, <1>7, TabTyped
<1>10. OnlyIn(t)
  <2>1. \A o \in Tabs \ {t} : stack'[o] = stack[o] /\ told'[o] = told[o]
    BY <1>5, <1>7, TabTyped
  <2>2. stack' \in [Tabs -> Seq(Frame)] /\ told' \in [Tabs -> [Listeners -> Word]]
    BY <1>5, <1>6, <1>7, TabTyped
  <2>3. listeners' \in [Tabs -> Seq(Listeners)] /\ initial' \in [Tabs -> SUBSET Listeners]
    BY <1>1, TabTyped
  <2> QED
    BY <1>1, <2>1, <2>2, <2>3 DEF OnlyIn
<1>11. ASSUME t \notin reentered PROVE TabAgrees(t)'
  <2>1. /\ Len(stack[t]) = 1 /\ stack[t][1].session = currentToken[t]
        /\ \A k \in DOMAIN listeners[t] :
             listeners[t][k] \in stack[t][1].seen => Heard(t, listeners[t][k])
    BY <1>1, <1>11, TabTyped DEF TabAgrees
  <2>2. \A k \in DOMAIN listeners[t] : listeners[t][k] \in Listeners
    BY TabTyped
  <2>3. \A k \in DOMAIN listeners[t] : listeners[t][k] \in frames[1].seen =>
          words[listeners[t][k]] \in {Untold, currentToken[t]}
    BY <1>4, <1>6, <1>8, <2>1, <2>2 DEF Heard
  <2>4. Len(frames) = 1 /\ frames[1].session = currentToken[t]
    BY <1>4, <1>6, <2>1
  <2> QED
    BY <1>1, <1>9, <2>3, <2>4 DEF TabAgrees, Heard
<1> QED
  BY <1>1, <1>10, <1>11, OneTab

\* A loop ends when every callback has been called.
LEMMA LoopEndsAgrees ==
  ASSUME ListenersInv, TabsInv, NEW t \in Tabs, EmissionEnds(t)
  PROVE  ListenersInv'
<1>1. /\ ~Quiet(t) /\ \A i \in DOMAIN listeners[t] : listeners[t][i] \in stack[t][1].seen
      /\ stack' = [stack EXCEPT ![t] = Tail(stack[t])]
      /\ UNCHANGED <<currentToken, listeners, initial, told, reentered>>
  BY DEF EmissionEnds, ToSet
<1>2. stack[t] \in Seq(Frame) /\ stack[t] # <<>>
  BY <1>1, TabTyped DEF Quiet
<1>3. Tail(stack[t]) \in Seq(Frame) /\ Len(Tail(stack[t])) = Len(stack[t]) - 1
  BY <1>2
<1>4. OnlyIn(t) /\ stack'[t] = Tail(stack[t])
  BY <1>1, <1>3, TabTyped DEF OnlyIn
<1>5. ASSUME t \notin reentered PROVE TabAgrees(t)'
  <2>1. /\ Len(stack[t]) = 1
        /\ \A i \in DOMAIN listeners[t] : Heard(t, listeners[t][i])
    BY <1>1, <1>5, TabTyped DEF TabAgrees
  <2>2. Len(stack'[t]) = 0 /\ stack'[t] \in Seq(Frame)
    BY <1>3, <1>4, <2>1
  <2>3. stack'[t] = <<>>
    BY <2>2
  <2> QED
    BY <1>1, <2>1, <2>3 DEF TabAgrees, Quiet, Heard
<1> QED
  BY <1>1, <1>4, <1>5, OneTab

\* A callback is subscribed: it has heard of nothing.
LEMMA SubscribeAgrees ==
  ASSUME ListenersInv, TabsInv, NEW t \in Tabs, NEW l \in Listeners, onAuthStateChange(t, l)
  PROVE  ListenersInv'
<1> DEFINE ls == Append(listeners[t], l)
           frames == Unvisited(stack[t], l)
           words == [told[t] EXCEPT ![l] = Untold]
<1>1. /\ listeners' = [listeners EXCEPT ![t] = ls]
      /\ initial' = [initial EXCEPT ![t] = initial[t] \cup {l}]
      /\ stack' = [stack EXCEPT ![t] = frames]
      /\ UNCHANGED <<currentToken, reentered>>
  BY DEF onAuthStateChange
<1>2. told' = [told EXCEPT ![t] = words]
  BY DEF onAuthStateChange, ListenersInv
<1>3. ls \in Seq(Listeners) /\ words \in [Listeners -> Word]
  BY TabTyped DEF Word
<1>4. \A k \in Listeners : words[k] = IF k = l THEN Untold ELSE told[t][k]
  BY TabTyped
<1>5. \A i \in DOMAIN ls : ls[i] = l \/ \E j \in DOMAIN listeners[t] : ls[i] = listeners[t][j]
  BY TabTyped
<1>6. stack[t] \in Seq(Frame)
  BY TabTyped
<1>7. /\ frames \in Seq(Frame) /\ Len(frames) = Len(stack[t])
      /\ \A i \in DOMAIN stack[t] : /\ frames[i].session = stack[t][i].session
                                    /\ frames[i].seen = stack[t][i].seen \ {l}
  BY <1>6, FramesTyped
<1> HIDE DEF ls, frames, words
<1>8. OnlyIn(t)
  BY <1>1, <1>2, <1>3, <1>7, TabTyped DEF OnlyIn
<1>9. listeners'[t] = ls /\ stack'[t] = frames /\ told'[t] = words
  BY <1>1, <1>2, TabTyped
<1>10. ASSUME t \notin reentered PROVE TabAgrees(t)'
  <2>1. \A j \in DOMAIN listeners[t] : listeners[t][j] \in Listeners
    BY TabTyped
  <2>2. CASE Quiet(t)
    <3>1. Len(frames) = 0 /\ frames \in Seq(Frame)
      BY <1>7, <2>2 DEF Quiet
    <3>2. frames = <<>>
      BY <3>1
    <3>3. \A j \in DOMAIN listeners[t] : Heard(t, listeners[t][j])
      BY <1>10, <2>2, TabTyped, QuietAgrees
    <3>4. \A i \in DOMAIN ls : words[ls[i]] \in {Untold, currentToken[t]}
      BY <1>4, <1>5, <2>1, <3>3 DEF Heard
    <3> QED
      BY <1>1, <1>9, <3>2, <3>4 DEF TabAgrees, Quiet, Heard
  <2>3. CASE ~Quiet(t)
    <3>1. /\ Len(stack[t]) = 1 /\ stack[t][1].session = currentToken[t]
          /\ \A j \in DOMAIN listeners[t] :
               listeners[t][j] \in stack[t][1].seen => Heard(t, listeners[t][j])
      BY <1>10, <2>3, TabTyped DEF TabAgrees
    <3>2. 1 \in DOMAIN stack[t]
      BY <1>6, <3>1
    <3>3. /\ Len(frames) = 1 /\ frames[1].session = currentToken[t]
          /\ frames[1].seen = stack[t][1].seen \ {l}
      BY <1>7, <3>1, <3>2
    <3>4. \A i \in DOMAIN ls : ls[i] \in frames[1].seen =>
            words[ls[i]] \in {Untold, currentToken[t]}
      BY <1>4, <1>5, <2>1, <3>1, <3>3 DEF Heard
    <3> QED
      BY <1>1, <1>9, <3>3, <3>4 DEF TabAgrees, Heard
  <2> QED
    BY <2>2, <2>3
<1> QED
  BY <1>1, <1>8, <1>10, OneTab

\* A callback is told of the session its tab has.
LEMMA InitialAgrees ==
  ASSUME ListenersInv, TabsInv, NEW t \in Tabs, NEW l \in Listeners, InitialSession(t, l)
  PROVE  ListenersInv'
<1> DEFINE words == [told[t] EXCEPT ![l] = currentToken[t]]
<1>1. /\ Quiet(t)
      /\ initial' = [initial EXCEPT ![t] = initial[t] \ {l}]
      /\ UNCHANGED <<currentToken, listeners, stack, reentered>>
  BY DEF InitialSession
<1>2. told' = [told EXCEPT ![t] = words]
  BY DEF InitialSession, ListenersInv
<1>3. words \in [Listeners -> Word]
  BY TabTyped
<1>4. \A k \in Listeners : words[k] = IF k = l THEN currentToken[t] ELSE told[t][k]
  BY TabTyped
<1> HIDE DEF words
<1>5. OnlyIn(t) /\ told'[t] = words
  BY <1>1, <1>2, <1>3, TabTyped DEF OnlyIn
<1>6. ASSUME t \notin reentered PROVE TabAgrees(t)'
  <2>1. \A i \in DOMAIN listeners[t] : listeners[t][i] \in Listeners
    BY TabTyped
  <2>2. \A i \in DOMAIN listeners[t] : Heard(t, listeners[t][i])
    BY <1>1, <1>6, TabTyped, QuietAgrees
  <2>3. \A i \in DOMAIN listeners[t] : words[listeners[t][i]] \in {Untold, currentToken[t]}
    BY <1>4, <2>1, <2>2 DEF Heard
  <2> QED
    BY <1>1, <1>5, <2>3 DEF TabAgrees, Quiet, Heard
<1> QED
  BY <1>1, <1>5, <1>6, OneTab

\* A callback is deleted: those that stay have heard what they had heard.
LEMMA UnsubscribeAgrees ==
  ASSUME ListenersInv, TabsInv, NEW t \in Tabs, NEW l \in Listeners, unsubscribe(t, l)
  PROVE  ListenersInv'
<1>1. PICK i \in DOMAIN listeners[t] :
        listeners' = [listeners EXCEPT ![t] = RemoveAt(listeners[t], i)]
  BY DEF unsubscribe
<1>2. UNCHANGED <<currentToken, initial, stack, told, reentered>>
  BY DEF unsubscribe
<1>3. listeners[t] \in Seq(Listeners)
  BY TabTyped
<1>4. /\ RemoveAt(listeners[t], i) \in Seq(Listeners)
      /\ \A k \in DOMAIN RemoveAt(listeners[t], i) :
           \E j \in DOMAIN listeners[t] : RemoveAt(listeners[t], i)[k] = listeners[t][j]
  BY <1>3, RemovedTyped
<1>5. PICK ls \in Seq(Listeners) :
        /\ ls = RemoveAt(listeners[t], i)
        /\ \A k \in DOMAIN ls : \E j \in DOMAIN listeners[t] : ls[k] = listeners[t][j]
  BY <1>4
<1>6. listeners' = [listeners EXCEPT ![t] = ls]
  BY <1>1, <1>5
<1>7. OnlyIn(t) /\ listeners'[t] = ls
  BY <1>2, <1>6, TabTyped DEF OnlyIn
<1>8. ASSUME t \notin reentered PROVE TabAgrees(t)'
  <2>1. TabAgrees(t)
    BY <1>8, TabTyped
  <2>2. CASE Quiet(t) /\ \A j \in DOMAIN listeners[t] : Heard(t, listeners[t][j])
    <3>1. \A k \in DOMAIN ls : Heard(t, ls[k])
      BY <1>5, <2>2
    <3> QED
      BY <1>2, <1>7, <2>2, <3>1 DEF TabAgrees, Quiet, Heard
  <2>3. CASE /\ Len(stack[t]) = 1 /\ stack[t][1].session = currentToken[t]
             /\ \A j \in DOMAIN listeners[t] :
                  listeners[t][j] \in stack[t][1].seen => Heard(t, listeners[t][j])
    <3>1. \A k \in DOMAIN ls : ls[k] \in stack[t][1].seen => Heard(t, ls[k])
      BY <1>5, <2>3
    <3> QED
      BY <1>2, <1>7, <2>3, <3>1 DEF TabAgrees, Heard
  <2> QED
    BY <2>1, <2>2, <2>3 DEF TabAgrees
<1> QED
  BY <1>2, <1>7, <1>8, OneTab

\* A new session, or none: a new loop begins.
LEMMA SetAgrees ==
  ASSUME ListenersInv, TabsInv, NEW t \in Tabs, NEW n \in Sessions \cup {None},
         setSession(t, n), UNCHANGED <<listeners, initial, told>>,
         reentered' = IF Quiet(t) THEN reentered ELSE reentered \cup {t}
  PROVE  ListenersInv'
<1> DEFINE frames == Emission(n) \o stack[t]
<1>1. /\ currentToken' = [currentToken EXCEPT ![t] = n]
      /\ stack' = [stack EXCEPT ![t] = frames]
  BY DEF setSession
<1>2. stack[t] \in Seq(Frame)
  BY TabTyped
<1>3. /\ frames \in Seq(Frame) /\ Len(frames) = Len(stack[t]) + 1
      /\ frames[1].session = n /\ frames[1].seen = {}
  BY <1>2, FramesTyped
<1> HIDE DEF frames
<1>4. OnlyIn(t) /\ stack'[t] = frames /\ currentToken'[t] = n
  BY <1>1, <1>3, TabTyped DEF OnlyIn
<1>5. ASSUME t \notin reentered' PROVE TabAgrees(t)'
  <2>1. stack[t] = <<>>
    BY <1>5 DEF Quiet
  <2>2. Len(frames) = 1
    BY <1>3, <2>1
  <2> QED
    BY <1>3, <1>4, <2>2 DEF TabAgrees
<1> QED
  BY <1>4, <1>5, OneTab

\* A page loads: nobody listens yet.
LEMMA LoadAgrees ==
  ASSUME ListenersInv, TabsInv, NEW t \in Tabs, NEW url, Load(t, url)
  PROVE  ListenersInv'
<1>1. OnlyIn(t)
  BY TabTyped DEF Load, OnlyIn, Word
<1>2. listeners'[t] = <<>> /\ stack'[t] = <<>>
  BY TabTyped DEF Load
<1>3. TabAgrees(t)'
  BY <1>2 DEF TabAgrees, Quiet
<1> QED
  BY <1>1, <1>3, OneTab

\* Every step keeps the agreement of the listeners.
LEMMA NextListeners ==
  ASSUME IInv, ListenersInv, [Next]_vars
  PROVE  ListenersInv'
<1>0. TabsInv
  BY DEF IInv
<1>1. ASSUME UNCHANGED <<currentToken, listeners, initial, stack, told, reentered>>
      PROVE  ListenersInv'
  BY <1>1 DEF ListenersInv, TabAgrees, Quiet, Heard
<1>2. ASSUME NEW t \in Tabs, signOut(t)
      PROVE  ListenersInv'
  <2>1. None \in Sessions \cup {None}
    OBVIOUS
  <2> QED
    BY <1>0, <1>2, <2>1, SetAgrees DEF signOut
<1>3. ASSUME NEW n \in Sessions, SignedIn(n)
      PROVE  ListenersInv'
  <2>1. signIn[n].tab \in Tabs
    BY <1>0, <1>3 DEF TabsInv, SignedIn
  <2>2. /\ Quiet(signIn[n].tab) /\ setSession(signIn[n].tab, n)
        /\ UNCHANGED <<listeners, initial, told, reentered>>
    BY <1>3 DEF SignedIn
  <2> QED
    BY <1>0, <2>1, <2>2, SetAgrees
<1>4. ASSUME NEW t \in Tabs,
             \/ Reload(t)
             \/ \E n \in Sessions, a \in Accounts : Land(n, t, a)
      PROVE  ListenersInv'
  BY <1>0, <1>4, LoadAgrees DEF Reload, Land
<1>5. ASSUME NEW t \in Tabs,
             \/ \E s \in Slots : Request(t, s)
             \/ \E n \in Sessions, a \in Accounts : post(n, t, a)
      PROVE  ListenersInv'
  <2>1. UNCHANGED tabVars
    BY <1>5 DEF Request, request, post
  <2> QED
    BY <1>1, <2>1 DEF tabVars
<1>6. ASSUME NEW n \in Sessions, SignInFails(n)
      PROVE  ListenersInv'
  BY <1>1, <1>6 DEF SignInFails, tabVars
<1>7. CASE ClientNext
  BY <1>0, <1>2, <1>3, <1>4, <1>5, <1>6, <1>7, EmitAgrees, LoopEndsAgrees, SubscribeAgrees,
     InitialAgrees, UnsubscribeAgrees DEF ClientNext
<1>8. CASE UNCHANGED vars \/ (NextMfa /\ UNCHANGED <<tabVars, signIn, budget>>)
  BY <1>1, <1>8 DEF vars, tabVars
<1> QED
  BY <1>7, <1>8 DEF Next

\* Once its tab is quiet, a listener has last heard of the session the tab has
\* (setSession, onAuthStateChange), where no callback changed the session while
\* it was being told of one, for any number of tabs, listeners and sign-ins and
\* however callbacks come and go while the loops run.
THEOREM ListenersAlwaysAgree == Spec => []ListenersAgree
<1>1. IInv /\ ListenersInv /\ [Next]_vars => ListenersInv'
  BY NextListeners
<1>2. ListenersInv => ListenersAgree
  <2> SUFFICES ASSUME ListenersInv, NEW t \in Tabs \ reentered, Quiet(t),
                      NEW l \in ToSet(listeners[t]), told[t][l] # Untold
               PROVE  told[t][l] = currentToken[t]
    BY DEF ListenersAgree
  <2>1. PICK i \in DOMAIN listeners[t] : l = listeners[t][i]
    BY DEF ToSet
  <2>2. Heard(t, listeners[t][i])
    BY QuietAgrees DEF ListenersInv
  <2> QED
    BY <2>1, <2>2 DEF Heard
<1> QED
  BY <1>1, <1>2, InitListeners, SpecIInv, PTL DEF Spec

-----------------------------------------------------------------------------
\* A step that changes what becomes of a factor.
LEMMA FactorChanges ==
  ASSUME IInv, Next, NEW f \in Factors,
         factor[f].owner # NoOne, factor'[f].state # factor[f].state
  PROVE  \/ \A s \in Slots : slot'[s] = slot[s]
         \/ \E s \in Slots : /\ slot'[s] # slot[s]
                             /\ slot[s].user = factor[f].owner
                             /\ slot[s].factor = f
<1>1. \A s \in Slots : slot[s] \in Call /\ Found(slot[s])
  BY DEF IInv, MfaInv, CallsSound
<1>2. slot \in [Slots -> Call] /\ factor \in [Factors -> FactorRow]
  BY DEF IInv, MfaInv, CallsSound, Tables
<1>3. ASSUME NEW s \in Slots, Answer(s), slot[s].phase \in {"found", "marked"},
             slot[s].factor = f
      PROVE  /\ slot'[s] # slot[s] /\ slot[s].user = factor[f].owner
             /\ slot[s].factor = f
  <2>1. slot'[s] = Free /\ Free.phase = "free"
    BY <1>2, <1>3 DEF Answer, Free
  <2> QED
    BY <1>1, <1>3, <2>1 DEF Found
<1>4. factor' # factor
  OBVIOUS
<1>5. ~ClientNext
  <2>1. ASSUME NEW t \in Tabs,
               \/ Emit(t) \/ EmissionEnds(t) \/ signOut(t) \/ Reload(t)
               \/ \E l \in Listeners :
                    onAuthStateChange(t, l) \/ InitialSession(t, l) \/ unsubscribe(t, l)
        PROVE  factor' = factor
    BY <2>1 DEF Emit, EmissionEnds, onAuthStateChange, InitialSession, unsubscribe,
                signOut, Reload, mfaVars
  <2>2. ASSUME NEW t \in Tabs, NEW s \in Slots, Request(t, s)
        PROVE  factor' = factor
    BY <2>2 DEF Request, request, Receive
  <2>3. ASSUME NEW n \in Sessions,
               \/ SignedIn(n) \/ SignInFails(n)
               \/ \E t \in Tabs, a \in Accounts : post(n, t, a) \/ Land(n, t, a)
        PROVE  factor' = factor
    BY <2>3 DEF post, Land, SignedIn, SignInFails, mfaVars
  <2> QED
    BY <1>4, <2>1, <2>2, <2>3 DEF ClientNext
<1>6. NextMfa
  BY <1>5 DEF Next
<1>7. ASSUME NEW s \in Slots,
             \/ authenticate(s) \/ Unauthorized(s) \/ FindFactor(s)
             \/ \E c \in Challenges : handleMfaChallenge(s, c)
             \/ CheckCode(s) \/ StatementFails(s) \/ markMfaChallengeVerified(s)
      PROVE  factor' = factor
  BY <1>7 DEF authenticate, Unauthorized, FindFactor, handleMfaChallenge, CheckCode,
              StatementFails, markMfaChallengeVerified
<1>8. ASSUME NEW s \in Slots, NEW g \in Factors, handleMfaEnroll(s, g)
      PROVE  FALSE
  <2>1. g # f
    BY <1>8 DEF handleMfaEnroll, NoFactor
  <2> QED
    BY <1>2, <1>8, <2>1 DEF handleMfaEnroll
<1>9. ASSUME NEW s \in Slots, handleMfaUnenroll(s)
      PROVE  slot'[s] # slot[s] /\ slot[s].user = factor[f].owner /\ slot[s].factor = f
  <2>1. f \in {slot[s].factor}
    BY <1>9 DEF handleMfaUnenroll, DeleteFactors
  <2> QED
    BY <1>3, <1>9, <2>1 DEF handleMfaUnenroll, At
<1>10. ASSUME NEW s \in Slots, markMfaFactorVerified(s)
       PROVE  slot'[s] # slot[s] /\ slot[s].user = factor[f].owner /\ slot[s].factor = f
  <2>1. slot[s].factor = f
    BY <1>2, <1>10 DEF markMfaFactorVerified
  <2> QED
    BY <1>3, <1>10, <2>1 DEF markMfaFactorVerified
<1>11. CASE \/ \E a \in Accounts : handleResetMfa(a) \/ handleDeleteAuthUser(a)
            \/ CleanUp \/ Tick
  BY <1>11 DEF handleResetMfa, handleDeleteAuthUser, CleanUp, Tick
<1> QED
  BY <1>4, <1>6, <1>7, <1>8, <1>9, <1>10, <1>11 DEF NextMfa

\* A tab that changed accounts between two calls touches nobody else's factor
\* (handleMfaVerify and its siblings, which compare the owner): what becomes of a factor is changed by a call sent with a
\* session of its owner, the admin service or the clean-up alone, for any number
\* of tabs, accounts and calls at once.
THEOREM FactorsAlwaysStayWithOwner == Spec => FactorsStayWithOwner
<1>1. IInv /\ [Next]_vars =>
        [\A f \in Factors :
           factor[f].owner # NoOne /\ factor'[f].state # factor[f].state =>
             \/ \A s \in Slots : slot'[s] = slot[s]
             \/ \E s \in Slots : /\ slot'[s] # slot[s]
                                  /\ slot[s].user = factor[f].owner
                                  /\ slot[s].factor = f]_vars
  BY FactorChanges
<1> QED
  BY <1>1, SpecIInv, PTL DEF Spec, FactorsStayWithOwner
=============================================================================
