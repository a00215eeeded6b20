----------------------------- MODULE KeyScreen -----------------------------
(***************************************************************************)
(* The Studio's screen of projects and API keys                            *)
(* (studio/src/screens/ApiKeys.tsx): the list of projects and, for the one *)
(* selected, ProjectDetail with its keys.  The list is replaced by a       *)
(* spinner while it loads, which unmounts ProjectDetail and forgets its    *)
(* state; the detail shows a skeleton, or an error, in place of everything *)
(* else it has to show, the secret of a new key included.                  *)
(*                                                                         *)
(* The admin service is reduced to the rows its handlers leave; module     *)
(* ApiKeys has them in detail.  Usage counts are left out.  The screen     *)
(* takes lists for arrays, as studio/src/api.ts declares them and its      *)
(* tests answer; the service of this repository wraps them in objects, on  *)
(* which the screen throws.  `answers` tells the two apart.                *)
(***************************************************************************)
EXTENDS Naturals, FiniteSets

CONSTANTS Projects, Keys,
          Slots,     \* requests of each kind under way at once
          Nothing    \* no project, no key

VARIABLES
  answers,   \* "array" or "object": what the service makes of a list
  projects,  \* keys.projects
  key,       \* [Keys -> row of keys.api_keys]
  shown,     \* the screen is up
  known,     \* useState of ApiKeys: the projects, {} before the first list
  selected,
  listing,
  panel,     \* useState of ProjectDetail
  lists,     \* [Slots -> read of the projects]
  details,   \* [Slots -> read of a project's keys]
  ops,       \* [Slots -> write]
  acts,      \* actions the operator has left, in the whole Studio: a bound
  secret,    \* history: [Keys -> what became of the secret on the screen]
  crowded,   \* history: keys whose creation was not left alone
  reported   \* history: keys whose revocation the panel learnt to be done

screenVars == <<shown, known, selected, listing, panel>>
keyVars == <<answers, projects, key, screenVars, lists, details, ops, acts, secret,
             crowded, reported>>

NoKeyRow == [state |-> "none", project |-> Nothing]
NoPanel == [up |-> FALSE, loading |-> TRUE, error |-> FALSE, active |-> {},
            revealed |-> Nothing, overtaken |-> FALSE]
NoList == [phase |-> "none", projects |-> {}]
NoDetail == [phase |-> "none", active |-> {}, reload |-> FALSE]
NoOp == [phase |-> "none", kind |-> "none", project |-> Nothing, key |-> Nothing,
         mine |-> FALSE, here |-> FALSE]

InitKeyScreen ==
  /\ projects = Projects
  /\ key = [k \in Keys |-> NoKeyRow]
  /\ shown = FALSE /\ known = {} /\ selected = Nothing /\ listing = TRUE
  /\ panel = NoPanel
  /\ lists = [s \in Slots |-> NoList]
  /\ details = [s \in Slots |-> NoDetail]
  /\ ops = [s \in Slots |-> NoOp]
  /\ secret = [k \in Keys |-> "none"]
  /\ crowded = {}
  /\ reported = {}

ActiveKeys(p) == {k \in Keys : key[k].state = "active" /\ key[k].project = p}
FreeSlot(f, s, none) == f[s] = none /\ \A k \in Slots : f[k] = none => s <= k

\* Creations whose secret has not been seen yet.
Creating == {ops[s].key : s \in {s \in Slots : ops[s].kind = "create"}}
Unseen == Creating \cup {k \in Keys : secret[k] = "held"}

----------------------------------------------------------------------------
(* ProjectDetail mounts and unmounts.                                       *)

\* What is lost with the panel: what it was about to reveal.
Forget(k) == IF k # Nothing /\ secret[k] = "held"
               THEN [secret EXCEPT ![k] = "lost"] ELSE secret

\* A panel for project p with its load sent; none where the list has no p.
Mounted(p, list) ==
  IF p \in list
    THEN /\ panel' = [NoPanel EXCEPT !.up = TRUE]
         /\ details' = [s \in Slots |-> IF s = 1 THEN [NoDetail EXCEPT !.phase = "sent"]
                                                 ELSE NoDetail]
    ELSE /\ panel' = NoPanel
         /\ details' = [s \in Slots |-> NoDetail]

Away(of) == [s \in Slots |-> [of[s] EXCEPT !.here = FALSE]]

\* load() of ApiKeys: the spinner takes the place of the panel.
ListAgain(s) ==
  /\ FreeSlot(lists, s, NoList)
  /\ lists' = [lists EXCEPT ![s] = [NoList EXCEPT !.phase = "sent"]]
  /\ listing' = TRUE
  /\ panel' = NoPanel
  /\ details' = [d \in Slots |-> NoDetail]

\* load() of ProjectDetail, after a write: nothing cancels it.
LoadAgain(d, p) ==
  /\ FreeSlot(details, d, NoDetail)
  /\ details' = [details EXCEPT ![d] = [NoDetail EXCEPT !.phase = "sent", !.reload = TRUE]]
  /\ panel' = [p EXCEPT !.loading = TRUE, !.error = FALSE,
                        !.overtaken = \E o \in Slots : details[o] # NoDetail]

Enter ==
  /\ ~shown /\ shown' = TRUE
  /\ lists' = [lists EXCEPT ![1] = [NoList EXCEPT !.phase = "sent"]]
  /\ UNCHANGED <<answers, projects, key, known, selected, listing, panel, details, ops, acts,
                 secret, crowded, reported>>

Leave ==
  /\ shown /\ shown' = FALSE
  /\ known' = {} /\ selected' = Nothing /\ listing' = TRUE /\ panel' = NoPanel
  /\ lists' = [s \in Slots |-> NoList]
  /\ details' = [s \in Slots |-> NoDetail]
  /\ ops' = [s \in Slots |-> [ops[s] EXCEPT !.mine = FALSE, !.here = FALSE]]
  /\ secret' = Forget(panel.revealed)
  /\ crowded' = crowded \cup Unseen
  /\ UNCHANGED <<answers, projects, key, acts, reported>>

\* The list is not an array: .map is not a function, nothing catches it, and
\* the whole page goes blank.
Crash(s) == answers = "object" /\ lists[s].phase = "read" /\ Leave

----------------------------------------------------------------------------
(* Reads.                                                                  *)

ReadProjects(s) ==
  /\ lists[s].phase = "sent"
  /\ lists' = [lists EXCEPT ![s] = [phase |-> "read", projects |-> projects]]
  /\ UNCHANGED <<answers, projects, key, screenVars, details, ops, acts, secret, crowded, reported>>

First(list) == IF list = {} THEN Nothing ELSE CHOOSE p \in list : TRUE

\* A panel that is up is given another object for its project: its effect
\* drops the load it had sent and sends one more, if there is a project.
EffectAgain(list) ==
  LET kept == [s \in Slots |-> IF details[s].reload THEN details[s] ELSE NoDetail] IN
  IF selected \in list
    THEN \E d \in Slots :
           /\ FreeSlot(kept, d, NoDetail)
           /\ details' = [kept EXCEPT ![d] = [NoDetail EXCEPT !.phase = "sent"]]
           /\ panel' = [panel EXCEPT !.loading = TRUE, !.error = FALSE,
                                     !.overtaken = kept # [s \in Slots |-> NoDetail]]
    ELSE details' = kept /\ UNCHANGED panel

\* setProjects, setSelected and the end of the spinner, which mounts a panel
\* for the selected project.
ShowProjects(s) ==
  LET list == lists[s].projects
      sel == IF selected # Nothing THEN selected ELSE First(list) IN
  /\ lists[s].phase = "read" /\ answers = "array"
  /\ lists' = [lists EXCEPT ![s] = NoList]
  /\ known' = list /\ selected' = sel
  /\ listing' = FALSE
  /\ IF panel.up
       THEN EffectAgain(list) /\ UNCHANGED ops
       ELSE Mounted(sel, list) /\ ops' = Away(ops)
  /\ crowded' = IF panel.up /\ sel \notin list THEN crowded \cup Unseen ELSE crowded
  /\ UNCHANGED <<answers, projects, key, shown, acts, secret, reported>>

ListFails(s) ==
  /\ lists[s] # NoList
  /\ lists' = [lists EXCEPT ![s] = NoList]
  /\ listing' = FALSE
  /\ IF panel.up THEN UNCHANGED <<panel, details, ops>>
     ELSE Mounted(selected, known) /\ ops' = Away(ops)
  /\ UNCHANGED <<answers, projects, key, shown, known, selected, acts, secret, crowded, reported>>

ReadKeys(d) ==
  /\ details[d].phase = "sent"
  /\ details' = [details EXCEPT ![d].phase = "read", ![d].active = ActiveKeys(selected)]
  /\ UNCHANGED <<answers, projects, key, screenVars, lists, ops, acts, secret, crowded, reported>>

\* The keys are shown, and with them a secret that was waiting.
ShowKeys(d) ==
  /\ details[d].phase = "read"
  /\ details' = [details EXCEPT ![d] = NoDetail]
  /\ panel' = [panel EXCEPT !.active = details[d].active, !.loading = FALSE]
  /\ secret' = IF panel.revealed # Nothing /\ ~panel.error /\ selected \in known
                 THEN [secret EXCEPT ![panel.revealed] = "seen"] ELSE secret
  /\ UNCHANGED <<answers, projects, key, shown, known, selected, listing, lists, ops, acts,
                 crowded, reported>>

\* The error takes the place of the whole panel, and offers no second try.
KeysFail(d) ==
  /\ details[d] # NoDetail
  /\ details' = [details EXCEPT ![d] = NoDetail]
  /\ panel' = [panel EXCEPT !.error = TRUE, !.loading = FALSE]
  /\ crowded' = crowded \cup Unseen
  /\ UNCHANGED <<answers, projects, key, shown, known, selected, listing, lists, ops, acts,
                 secret, reported>>

----------------------------------------------------------------------------
(* What the operator does.  A form that is being submitted, and the secret  *)
(* once it shows, cover the screen.                                        *)

PanelShown == panel.up /\ selected \in known /\ ~panel.loading /\ ~panel.error
SecretShows == PanelShown /\ panel.revealed # Nothing
Busy == \E s \in Slots : ops[s].kind \in {"create", "add"} /\ ops[s].here
Clickable == shown /\ ~listing /\ ~Busy /\ ~SecretShows

Act == acts > 0 /\ acts' = acts - 1

Select(p) ==
  /\ Act /\ Clickable
  /\ p \in known /\ p # selected
  /\ selected' = p
  /\ Mounted(p, known)
  /\ ops' = Away(ops)
  /\ secret' = Forget(panel.revealed)
  /\ crowded' = crowded \cup Unseen
  /\ UNCHANGED <<answers, projects, key, shown, known, listing, lists, reported>>

\* A write is sent; another one under way means that neither is alone.
Submit(s, op) ==
  /\ Act /\ Clickable
  /\ FreeSlot(ops, s, NoOp)
  /\ ops' = [ops EXCEPT ![s] = op]
  /\ crowded' = IF \E o \in Slots : ops[o] # NoOp
                  THEN crowded \cup Unseen \cup ({op.key} \cap Keys) ELSE crowded
  /\ UNCHANGED <<answers, projects, key, screenVars, lists, details, secret, reported>>

Written(kind, p, k) ==
  [phase |-> "sent", kind |-> kind, project |-> p, key |-> k, mine |-> TRUE, here |-> TRUE]

create(s, k) ==
  /\ PanelShown
  /\ key[k] = NoKeyRow /\ k \notin Creating
  /\ Submit(s, Written("create", selected, k))

revoke(s, k) == PanelShown /\ k \in panel.active /\ Submit(s, Written("revoke", selected, k))
addProject(s, p) == p \notin projects /\ Submit(s, Written("add", p, Nothing))
removeProject(s, p) == p \in known /\ Submit(s, Written("remove", p, Nothing))

Done ==
  /\ Act /\ SecretShows
  /\ panel' = [panel EXCEPT !.revealed = Nothing]
  /\ UNCHANGED <<answers, projects, key, shown, known, selected, listing, lists, details, ops,
                 secret, crowded, reported>>

----------------------------------------------------------------------------
(* Writes.                                                                 *)

\* The admin service: a key needs its project, a project takes its keys along.
Write(s) ==
  LET op == ops[s] IN
  /\ op.phase = "sent"
  /\ CASE op.kind = "create" ->
            /\ op.project \in projects
            /\ key' = [key EXCEPT ![op.key] = [state |-> "active", project |-> op.project]]
            /\ UNCHANGED projects
       [] op.kind = "revoke" ->
            /\ key[op.key].state = "active"
            /\ key' = [key EXCEPT ![op.key].state = "revoked"]
            /\ UNCHANGED projects
       [] op.kind = "add" -> projects' = projects \cup {op.project} /\ UNCHANGED key
       [] op.kind = "remove" ->
            /\ projects' = projects \ {op.project}
            /\ key' = [k \in Keys |-> IF key[k].project = op.project
                         THEN [key[k] EXCEPT !.state = "gone"] ELSE key[k]]
  /\ ops' = [ops EXCEPT ![s].phase = "done"]
  /\ UNCHANGED <<answers, screenVars, lists, details, acts, secret, crowded, reported>>

RevealNothing(k) == panel                                             \* mutant
Reveal(k) == [panel EXCEPT !.revealed = k]

\* create() goes on: the secret and, behind a skeleton, the keys again.
Created(s, d) ==
  LET k == ops[s].key IN
  /\ ops[s].phase = "done" /\ ops[s].kind = "create"
  /\ ops' = [ops EXCEPT ![s] = NoOp]
  /\ IF ops[s].here
       THEN /\ LoadAgain(d, Reveal(k))
            /\ secret' = [secret EXCEPT ![k] = "held"]
       ELSE /\ secret' = [secret EXCEPT ![k] = "lost"]
            /\ UNCHANGED <<panel, details>>
  /\ UNCHANGED <<answers, projects, key, shown, known, selected, listing, lists, acts, crowded, reported>>

Revoked(s, d) ==
  /\ ops[s].phase = "done" /\ ops[s].kind = "revoke"
  /\ ops' = [ops EXCEPT ![s] = NoOp]
  /\ IF ops[s].here
       THEN LoadAgain(d, panel) /\ reported' = reported \cup {ops[s].key}
       ELSE UNCHANGED <<panel, details, reported>>
  /\ UNCHANGED <<answers, projects, key, shown, known, selected, listing, lists, acts, secret, crowded>>

\* addProject and removeProject go on: the selection, and the list again.
ProjectsChanged(s, l) ==
  LET op == ops[s] IN
  /\ op.phase = "done" /\ op.kind \in {"add", "remove"}
  /\ IF op.mine
       THEN /\ selected' = CASE op.kind = "add" -> op.project
                             [] op.kind = "remove" /\ selected = op.project -> Nothing
                             [] OTHER -> selected
            /\ ListAgain(l)
            /\ ops' = Away([ops EXCEPT ![s] = NoOp])
            /\ secret' = Forget(panel.revealed)
            /\ crowded' = crowded \cup Unseen
       ELSE /\ ops' = [ops EXCEPT ![s] = NoOp]
            /\ UNCHANGED <<selected, lists, listing, panel, details, secret, crowded>>
  /\ UNCHANGED <<answers, projects, key, shown, known, acts, reported>>

\* It rejects, whether or not the service had done what it was asked.
Rejected(s) ==
  /\ ops[s] # NoOp
  /\ ops' = [ops EXCEPT ![s] = NoOp]
  /\ UNCHANGED <<answers, projects, key, screenVars, lists, details, acts, secret, crowded, reported>>

KeyScreenNext ==
  \/ \E s \in Slots :
       \/ ReadProjects(s) \/ ShowProjects(s) \/ ListFails(s)
       \/ ReadKeys(s) \/ ShowKeys(s) \/ KeysFail(s)
       \/ Write(s) \/ Rejected(s)
       \/ \E k \in Keys : create(s, k) \/ revoke(s, k)
       \/ \E p \in Projects : addProject(s, p) \/ removeProject(s, p)
       \/ \E o \in Slots : Created(s, o) \/ Revoked(s, o) \/ ProjectsChanged(s, o)
  \/ \E p \in Projects : Select(p)
  \/ Done

----------------------------------------------------------------------------
(* Properties.                                                             *)

\* The state of ApiKeys and ProjectDetail has its types.
TypeOKKeyScreen ==
  /\ projects \subseteq Projects /\ known \subseteq Projects
  /\ selected \in Projects \cup {Nothing}
  /\ panel.revealed \in Keys \cup {Nothing} /\ panel.active \subseteq Keys
  /\ \A k \in Keys : key[k].state \in {"none", "active", "revoked", "gone"}
  /\ \A s \in Slots : ops[s].phase \in {"none", "sent", "done"}

\* The secret of a key that was created while nothing else of the screen was
\* under way, the operator stayed and the keys could be read is not lost.
SecretsKept == \A k \in Keys : secret[k] = "lost" => k \in crowded

\* A secret that is to be shown is either on the screen or behind a load that
\* will bring it there, or its load failed.
SecretsWait ==
  \A k \in Keys : secret[k] = "held" =>
    panel.revealed = k /\ (k \in crowded \/ \E d \in Slots : details[d] # NoDetail)

\* Once nothing is being loaded, no key is shown as active whose revocation the
\* panel learnt to be done, unless the loads of two writes overlapped.
RevocationsShown ==
  PanelShown /\ (\A d \in Slots : details[d] = NoDetail) =>
    panel.overtaken \/ panel.active \cap reported = {}

KeysTruthful ==
  TypeOKKeyScreen /\ SecretsKept /\ SecretsWait /\ RevocationsShown
=============================================================================
