---------------------------- MODULE TableEditor ----------------------------
(***************************************************************************)
(* The rows panel of the Studio's table editor                             *)
(* (studio/src/screens/TableEditor.tsx) over the admin service.  A React   *)
(* component: a step of it is an event or the continuation of a promise,   *)
(* and every state it sets is set before the next one.  Reads and writes   *)
(* of the service are threads.                                             *)
(***************************************************************************)
EXTENDS AdminTables

CONSTANTS Loads,     \* reads under way at once
          Saves,     \* inserts, updates and deletes under way at once
          Nobody     \* no load or save

ASSUME EditorAssumption ==
  /\ Loads \subseteq Nat /\ 1 \in Loads /\ Saves \subseteq Nat \ {Nobody}

VARIABLES
  mounted,   \* the panel is on the screen
  offset,    \* useState of RowsPanel, and below
  data,      \* what the last load showed, or NoData
  loading,
  error,     \* an error banner is up
  form,      \* the row form, or NoForm
  loads,     \* [Loads -> read under way]
  saves,     \* [Saves -> write under way]
  acts,      \* actions the operator has left: a bound
  done,      \* history: writes of this panel that were carried out
  expected,  \* history: the writes done when the last of them was reported
  overtaken  \* history: the last load was started while one was to be shown

panelVars == <<mounted, offset, data, loading, error, form>>
editorVars == <<tableVars, panelVars, loads, saves, acts, done, expected, overtaken>>

NoData == [rows |-> <<>>, count |-> 0, offset |-> 0, asOf |-> 0, reload |-> FALSE]
NoForm == [kind |-> "none", id |-> 0, was |-> Null, text |-> "", saving |-> Nobody]
NoLoad == [phase |-> "none", offset |-> 0, active |-> FALSE, reload |-> FALSE,
           rows |-> <<>>, count |-> 0, asOf |-> 0]
NoSave == [phase |-> "none", kind |-> "none", id |-> 0, chosen |-> 0, was |-> Null,
           text |-> "", offset |-> 0, mine |-> FALSE]
FreeSave(s) == saves[s] = NoSave /\ \A k \in Saves : saves[k] = NoSave => s <= k

InitEditor ==
  /\ InitTable
  /\ mounted = FALSE
  /\ offset = 0 /\ data = NoData
  /\ loading = TRUE /\ error = FALSE
  /\ form = NoForm
  /\ loads = [l \in Loads |-> NoLoad]
  /\ saves = [s \in Saves |-> NoSave]
  /\ done = 0 /\ expected = 0 /\ overtaken = FALSE

----------------------------------------------------------------------------
(* Loading.                                                                *)

UnderWay == {l \in Loads : loads[l].phase # "none"}

\* The cleanup of the effect: the load it started will not be shown.  The
\* load started by a save or a delete has no cleanup.
KeepAll(l) == loads[l]                                                \* mutant
Cleanup(l) == [loads[l] EXCEPT !.active = @ /\ loads[l].reload]

Sent(off, reload) == [NoLoad EXCEPT !.phase = "sent", !.offset = off,
                                    !.active = TRUE, !.reload = reload]

FreeLoad(l) == loads[l] = NoLoad /\ \A k \in Loads : loads[k] = NoLoad => l <= k

\* load(), from the effect: on mounting and whenever the offset changes.
EffectLoad(l, off) ==
  /\ FreeLoad(l)
  /\ loads' = [k \in Loads |-> IF k = l THEN Sent(off, FALSE) ELSE Cleanup(k)]
  /\ loading' = TRUE /\ error' = FALSE
  /\ overtaken' = \E k \in Loads : Cleanup(k).active

\* load(), from a closure made when the panel showed the offset `off`.
LoadAfterWrite(l, off) ==
  /\ FreeLoad(l)
  /\ loads' = [loads EXCEPT ![l] = Sent(off, TRUE)]
  /\ loading' = TRUE /\ error' = FALSE
  /\ overtaken' = \E k \in Loads : loads[k].active

\* handleSelectTable: the rows and their count are two statements on two
\* connections, in either order.
SelectRows(l) ==
  /\ loads[l].phase \in {"sent", "count"}
  /\ loads' = [loads EXCEPT ![l].rows = selectTable(loads[l].offset),
                            ![l].asOf = done,
                            ![l].phase = IF @ = "sent" THEN "rows" ELSE "both"]
  /\ UNCHANGED <<tableVars, panelVars, saves, acts, done, expected, overtaken>>

CountRows(l) ==
  /\ loads[l].phase \in {"sent", "rows"}
  /\ loads' = [loads EXCEPT ![l].count = Cardinality(Live),
                            ![l].phase = IF @ = "sent" THEN "count" ELSE "both"]
  /\ UNCHANGED <<tableVars, panelVars, saves, acts, done, expected, overtaken>>

\* The answer: shown if the load is still active.
ShowsIfCurrent(l) == loads[l].active /\ loads[l].offset = offset       \* mutant
Shows(l) == loads[l].active

ShowRows(l) ==
  LET ld == loads[l] IN
  /\ ld.phase = "both"
  /\ loads' = [loads EXCEPT ![l] = NoLoad]
  /\ IF Shows(l)
       THEN /\ data' = [rows |-> ld.rows, count |-> ld.count, offset |-> ld.offset,
                        asOf |-> ld.asOf, reload |-> ld.reload]
            /\ loading' = FALSE
       ELSE UNCHANGED <<data, loading>>
  /\ UNCHANGED <<tableVars, mounted, offset, error, form, saves, acts, done, expected, overtaken>>

LoadFails(l) ==
  /\ loads[l].phase # "none"
  /\ loads' = [loads EXCEPT ![l] = NoLoad]
  /\ IF loads[l].active
       THEN error' = TRUE /\ loading' = FALSE
       ELSE UNCHANGED <<error, loading>>
  /\ UNCHANGED <<tableVars, mounted, offset, data, form, saves, acts, done, expected, overtaken>>

----------------------------------------------------------------------------
(* What the operator does.  The grid and its pager are there once loading   *)
(* is over and rows were found; the form covers them while it is open.      *)

Act == acts > 0 /\ acts' = acts - 1
GridShown == mounted /\ ~loading /\ data.rows # <<>>
Reachable == GridShown /\ form = NoForm

TurnTo(l, off) ==
  /\ Act
  /\ EffectLoad(l, off)
  /\ offset' = off
  /\ UNCHANGED <<tableVars, mounted, data, form, saves, done, expected>>

NextPage(l) == Reachable /\ offset + Page < data.count /\ TurnTo(l, offset + Page)
PrevPage(l) == Reachable /\ offset # 0 /\ TurnTo(l, IF offset > Page THEN offset - Page ELSE 0)

\* toInputString and coerceInput, with what a text column makes of a number.
toInputString(v) == IF v = Null THEN "" ELSE v
coerceInput(t) == CASE t = "" -> Null [] t = "007" -> "7" [] OTHER -> t
Fragile == {v \in Vals : coerceInput(toInputString(v)) # v}

Becomes(f) ==
  /\ form' = f
  /\ UNCHANGED <<tableVars, mounted, offset, data, loading, error, loads, saves, done, expected, overtaken>>
Open(f) == Act /\ Becomes(f)

Edit(i) ==
  /\ Reachable /\ i \in DOMAIN data.rows
  /\ LET row == data.rows[i] IN
     Open([NoForm EXCEPT !.kind = "update", !.id = row.id, !.was = row.val,
                         !.text = toInputString(row.val)])

\* The button stays when there are no rows, and while they are loading.
Add(id) ==
  /\ mounted /\ form = NoForm
  /\ Open([NoForm EXCEPT !.kind = "insert", !.id = id])

Type(t) ==
  /\ form.kind # "none" /\ form.saving = Nobody /\ form.text # t
  /\ Becomes([form EXCEPT !.text = t]) /\ acts' = acts

\* Escape and the backdrop close the form even while it saves.
Close == form.kind # "none" /\ Becomes(NoForm) /\ acts' = acts

buildWhereByPosition(f) == IF data.rows = <<>> THEN f.id ELSE data.rows[1].id   \* mutant
buildWhereFromRow(f) == f.id

\* save() and onSubmit, up to the await; the closure keeps this offset.
Save(s) ==
  /\ form.kind # "none" /\ form.saving = Nobody
  /\ FreeSave(s)
  /\ Act
  /\ saves' = [saves EXCEPT ![s] =
       [phase |-> "sent", kind |-> form.kind, was |-> form.was, text |-> form.text,
        id |-> IF form.kind = "update" THEN buildWhereFromRow(form) ELSE form.id,
        chosen |-> form.id, offset |-> offset, mine |-> TRUE]]
  /\ form' = [form EXCEPT !.saving = s]
  /\ UNCHANGED <<tableVars, mounted, offset, data, loading, error, loads, done, expected, overtaken>>

\* doDelete, up to its await: nothing keeps the operator from the next click.
Delete(s, i) ==
  /\ Reachable /\ i \in DOMAIN data.rows
  /\ FreeSave(s)
  /\ Act
  /\ saves' = [saves EXCEPT ![s] =
       [NoSave EXCEPT !.phase = "sent", !.kind = "delete", !.id = data.rows[i].id,
                      !.chosen = data.rows[i].id, !.offset = offset, !.mine = TRUE]]
  /\ UNCHANGED <<tableVars, panelVars, loads, done, expected, overtaken>>

----------------------------------------------------------------------------
(* The writes.                                                             *)

Outcome(sv) ==
  CASE sv.kind = "insert" -> insertRow(sv.id, coerceInput(sv.text))
    [] sv.kind = "update" -> updateRows(sv.id, coerceInput(sv.text))
    [] sv.kind = "delete" -> deleteRows(sv.id)

\* The service carries the statement out.  A key that exists is an error.
Execute(s) ==
  /\ saves[s].phase = "sent"
  /\ saves[s].kind = "insert" => saves[s].id \notin Live
  /\ table' = Outcome(saves[s])
  /\ saves' = [saves EXCEPT ![s].phase = "done"]
  /\ done' = done + 1
  /\ UNCHANGED <<writes, panelVars, loads, acts, expected, overtaken>>

\* The promise resolves: the toast, the form away, and a load.  A panel that
\* has left the screen sets nothing.
Resolve(s, l) ==
  LET sv == saves[s] IN
  /\ sv.phase = "done"
  /\ saves' = [saves EXCEPT ![s] = NoSave]
  /\ IF sv.mine
       THEN /\ LoadAfterWrite(l, sv.offset)
            /\ form' = IF sv.kind = "delete" THEN form ELSE NoForm
            /\ expected' = done
       ELSE UNCHANGED <<loads, loading, error, overtaken, form, expected>>
  /\ UNCHANGED <<tableVars, mounted, offset, data, acts, done>>

\* It rejects, whether or not the service had done what it was asked.
Reject(s) ==
  LET sv == saves[s] IN
  /\ sv.phase # "none"
  /\ saves' = [saves EXCEPT ![s] = NoSave]
  /\ IF sv.mine
       THEN /\ error' = (error \/ sv.kind = "delete")
            /\ form' = IF form.saving = s THEN [form EXCEPT !.saving = Nobody] ELSE form
       ELSE UNCHANGED <<error, form>>
  /\ UNCHANGED <<tableVars, mounted, offset, data, loading, loads, acts, done,
                 expected, overtaken>>

----------------------------------------------------------------------------
(* The panel comes and goes, with the screen or with the selected table.    *)

Mount ==
  /\ ~mounted /\ mounted' = TRUE
  /\ EffectLoad(1, 0)
  /\ UNCHANGED <<tableVars, offset, data, form, saves, acts, done, expected>>

\* What is under way goes on; its results find nothing to be shown in.
Unmount ==
  /\ mounted /\ mounted' = FALSE
  /\ offset' = 0 /\ data' = NoData /\ loading' = TRUE /\ error' = FALSE /\ form' = NoForm
  /\ loads' = [l \in Loads |-> NoLoad]
  /\ saves' = [s \in Saves |-> [saves[s] EXCEPT !.mine = FALSE]]
  /\ expected' = 0
  /\ UNCHANGED <<tableVars, acts, done, overtaken>>

OperatorActs ==
  \/ \E l \in Loads : NextPage(l) \/ PrevPage(l)
  \/ \E i \in 1..Page : Edit(i) \/ \E s \in Saves : Delete(s, i)
  \/ \E id \in Ids : Add(id)
  \/ \E t \in Vals \ {Null} : Type(t)
  \/ Close
  \/ \E s \in Saves : Save(s)

EditorNext ==
  \/ OperatorActs
  \/ \E l \in Loads : SelectRows(l) \/ CountRows(l) \/ ShowRows(l) \/ LoadFails(l)
  \/ \E s \in Saves : Execute(s) \/ Reject(s) \/ \E l \in Loads : Resolve(s, l)
  \/ \E id \in Ids, v \in Vals :
       OthersWrite(id, v) /\ UNCHANGED <<panelVars, loads, saves, acts, done, expected, overtaken>>

\* The service answers what it is asked, or the browser gives up on it.
Answered(l) == SelectRows(l) \/ CountRows(l) \/ ShowRows(l) \/ LoadFails(l)

----------------------------------------------------------------------------
(* Properties.                                                             *)

\* The state of RowsPanel and RowForm has its types.
TypeOKEditor ==
  /\ Live \subseteq Ids /\ \A id \in Live : table[id] \in Vals
  /\ \A l \in Loads : loads[l].phase \in {"none", "sent", "rows", "count", "both"}
  /\ \A s \in Saves : saves[s].phase \in {"none", "sent", "done"}
  /\ form.kind \in {"none", "insert", "update"}
  /\ form.saving \in Saves \cup {Nobody}

Settled == mounted /\ ~loading /\ ~error

\* The rows on the screen are those of the page that the pager names, however
\* the answers of earlier pages arrive; except those that a save or a delete
\* fetched for the page it was started on.
GridIsPage == Settled => data.offset = offset \/ data.reload

\* Once nothing is being loaded, the grid was read after every write of this
\* panel that was reported done, unless loads of two writes overlapped.
OwnWritesShown ==
  Settled /\ UnderWay = {} => data.asOf >= expected \/ overtaken

\* A write changes no row but the one its operator chose on the grid, and a
\* save whose field was left alone leaves in the column what was there when
\* the form was opened; unless the text is one that the form cannot carry, or
\* somebody else wrote to the row since.
SavesAreFaithful ==
  [][\A s \in Saves :
       saves[s].phase = "sent" /\ saves'[s].phase = "done" =>
         /\ \A id \in Ids \ {saves[s].chosen} :
              id \in Live <=> id \in DOMAIN table' /\ (id \in Live => table'[id] = table[id])
         /\ saves[s].kind = "update" /\ saves[s].text = toInputString(saves[s].was)
              /\ saves[s].chosen \in Live =>
            \/ table'[saves[s].chosen] = saves[s].was
            \/ saves[s].was \in Fragile
            \/ table[saves[s].chosen] # saves[s].was]_editorVars
=============================================================================
