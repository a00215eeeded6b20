------------------------------- MODULE Studio -------------------------------
(***************************************************************************)
(* The admin Studio (studio/src/App.tsx) with two of its screens: the      *)
(* table editor and the screen of API keys.  One screen is on at a time;   *)
(* to go to another unmounts it, while what it asked of the admin service  *)
(* goes on.  The other screens keep nothing between two answers and are    *)
(* one value of `screen` here.                                             *)
(***************************************************************************)
EXTENDS TableEditor

CONSTANTS Projects, Keys, Requests, Nothing,
          Settings  \* one is drawn: bounds on the operator's actions and the
                    \* writes of others, and what the service makes of a list

\* The constants of KeyScreen, which this module instantiates.
ASSUME ScreenAssumption ==
  /\ Requests \subseteq Nat /\ 1 \in Requests
  /\ Nothing \notin Projects \cup Keys

VARIABLES answers, projects, key, shown, known, selected, listing, panel, lists, details,
          ops, secret, crowded, reported,  \* of KeyScreen
          screen                           \* useState of App

K == INSTANCE KeyScreen
  WITH Projects <- Projects, Keys <- Keys, Slots <- Requests, Nothing <- Nothing,
       acts <- acts

editorOnly == <<tableVars, panelVars, loads, saves, done, expected, overtaken>>
keysOnly == <<answers, projects, key, shown, known, selected, listing, panel,
              lists, details, ops, secret, crowded, reported>>
studioVars == <<editorOnly, keysOnly, acts, screen>>

InitStudio ==
  /\ InitEditor /\ K!InitKeyScreen /\ screen = "other"
  /\ \E b \in Settings : acts = b.acts /\ writes = b.writes /\ answers = b.answers

\* go(), or the hash of the page: React unmounts one screen and mounts the next.
Go(to) ==
  /\ screen # "crashed" /\ to # screen /\ screen' = to
  /\ CASE screen = "tables" -> Unmount
       [] to = "tables" -> Mount
       [] OTHER -> UNCHANGED editorOnly /\ acts' = acts
  /\ CASE screen = "apikeys" -> K!Leave
       [] to = "apikeys" -> K!Enter
       [] OTHER -> UNCHANGED keysOnly /\ acts' = acts

\* A screen throws while it renders: React unmounts the root.
Crash ==
  /\ \E s \in Requests : K!Crash(s)
  /\ screen' = "crashed"
  /\ UNCHANGED editorOnly

\* The operator loads the page again, at another address.
ReloadPage == screen = "crashed" /\ screen' = "other" /\ UNCHANGED <<editorOnly, keysOnly, acts>>

EditorStep == EditorNext /\ UNCHANGED <<keysOnly, screen>>
KeysStep == K!KeyScreenNext /\ UNCHANGED <<editorOnly, screen>>

NextStudio ==
  \/ \E to \in {"other", "tables", "apikeys"} : Go(to)
  \/ Crash
  \/ ReloadPage
  \/ EditorStep
  \/ KeysStep

\* Every request of a screen is answered or given up in the end.
ServiceAnswers ==
  \/ /\ \E l \in Loads : Answered(l)
     /\ UNCHANGED <<keysOnly, screen>>
  \/ /\ \E s \in Requests : \/ K!ReadProjects(s) \/ K!ShowProjects(s) \/ K!ListFails(s)
                         \/ K!ReadKeys(s) \/ K!ShowKeys(s) \/ K!KeysFail(s)
     /\ UNCHANGED <<editorOnly, screen>>
  \/ Crash

SpecStudio == InitStudio /\ [][NextStudio]_studioVars /\ WF_studioVars(ServiceAnswers)

----------------------------------------------------------------------------
(* Properties.                                                             *)

\* What the screen shows: the grid is the page its pager names and holds the
\* panel's own writes (TableEditor.tsx load, doDelete and onSubmit).
GridTruthful == TypeOKEditor /\ GridIsPage /\ OwnWritesShown

\* The secret of a new key reaches its operator, and a revoked key leaves the
\* list of active ones (ApiKeys.tsx create and revoke).
KeysTruthful == K!KeysTruthful

\* An operator who stays on a screen does not look at a spinner forever,
\* whatever was cancelled, overtaken or failed on the way (TableEditor.tsx and
\* ApiKeys.tsx, load).
Waiting ==
  \/ mounted /\ loading
  \/ shown /\ listing
  \/ panel.up /\ selected \in known /\ panel.loading
LoadingEnds == []<>(~Waiting) \/ []<><<screen' # screen>>_studioVars
=============================================================================
