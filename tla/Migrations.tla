----------------------------- MODULE Migrations -----------------------------
(***************************************************************************)
(* The commands of laetoli-data that change the database: migrate          *)
(* (cli/src/commands.ts over lib/migrate-plan.ts and lib/db.ts), backup    *)
(* and restore.  Several terminals may run them at once.                   *)
(*                                                                         *)
(* Migration files are numbered in the order of their names.  The contents *)
(* of a file are a text and its line ends; its effects on the schema, the  *)
(* objects it creates, are known by the text.  A migration outside         *)
(* Repeatable fails where its objects exist already.                       *)
(***************************************************************************)
EXTENDS Integers, FiniteSetsExt

CONSTANTS Terminals,
          Names, Texts,
          Checkouts,    \* migrations there may be at first
          Repeatable,   \* migrations written to be applied again
          Bounds,       \* Bounds[k]: bound on events of kind k
          None

ASSUME NamesAssumption ==
  Names \subseteq Nat /\ Repeatable \subseteq Names /\ Checkouts \subseteq SUBSET Names
\* A checkout has migrations, and a last one.
ASSUME CheckoutsAssumption ==
  \A there \in Checkouts : \E last \in there : \A n \in there : n <= last
ASSUME TextsAssumption == Texts # {}

\* What a file holds, what a table records of every migration, and what
\* pg_dump writes: a dump cut short is not whole.
Contents == [text : Texts, crlf : BOOLEAN]
Recordings == [Names -> Texts \cup {None}]
Dump == [whole : BOOLEAN, table : BOOLEAN, ledger : Recordings, objects : Recordings]
ASSUME NoneAssumption == None \notin Texts \cup Contents \cup Dump

ASSUME BoundsAssumption == Bounds \in [{"edit", "fault", "restore"} -> Nat]

VARIABLES
  disk,     \* disk[n]: contents of db/migrations, None where there is no file
  table,    \* public._laetoli_migrations exists
  ledger,   \* ledger[n]: the checksum it records, or None
  objects,  \* objects[n]: text whose effects the schema has, or None
  dump,     \* the file in backups/
  run,      \* run[t]: the command in terminal t
  left,     \* left[k]: events of kind k still to come, at most
  unrecorded, \* history: objects that came by other ways than migrate
  stale,      \* stale[t]: migrations others recorded since t read the table
  spoiled     \* a restore was of a dump cut short or without the table, or
              \* overlapped with another command

db == <<table, ledger, objects>>
history == <<unrecorded, stale, spoiled>>
vars == <<disk, db, dump, run, left, history>>

Nothing == [n \in Names |-> None]

Idle == [pc |-> "idle", files |-> Nothing, known |-> {}, pending |-> {}, applied |-> {}]
At(t, pc) == run[t].pc = pc

Present == {n \in Names : disk[n] # None}

\* The database has nothing yet, or what db/init includes of db/migrations,
\* which is not recorded, or the last migration from an earlier checkout.
Init ==
  /\ \E there \in Checkouts : LET text == CHOOSE x \in Texts : TRUE IN
       disk = [n \in Names |-> IF n \in there THEN [text |-> text, crlf |-> FALSE] ELSE None]
  /\ \E kind \in {"empty", "booted", "older"} :
       LET has == IF kind = "empty" THEN {}
                  ELSE IF kind = "booted" THEN Present \cap Repeatable
                  ELSE {Max(Present)}
       IN /\ objects = [n \in Names |-> IF n \in has THEN disk[n].text ELSE None]
          /\ table = (kind = "older")
          /\ ledger = IF kind = "older" THEN objects ELSE Nothing
          /\ unrecorded = IF kind = "booted" THEN has ELSE {}
  /\ dump = None
  /\ run = [t \in Terminals |-> Idle]
  /\ left = Bounds
  /\ stale = [t \in Terminals |-> {}]
  /\ spoiled = FALSE

Event(k) == left[k] > 0 /\ left' = [left EXCEPT ![k] = @ - 1]

Exit(t) == run' = [run EXCEPT ![t] = Idle]

\* A connection is refused or lost, a statement fails: exit code 1.
Fails(t) == Event("fault") /\ Exit(t)

-----------------------------------------------------------------------------
(* laetoli-data migrate [--status]                                         *)

\* Line ends do not count.
checksum(contents) == contents.text

\* Mutant: a file that was edited is applied again.
PlanEdited(files, applied) ==
  [pending |-> {n \in Names : files[n] # None /\ applied[n] # checksum(files[n])}, changed |-> {}]

\* Mutant: only the files after the last one applied are pending.
PlanAfterLast(files, applied) ==
  [pending |-> {n \in Names : files[n] # None /\ \A k \in Names : applied[k] # None => k < n},
   changed |-> {n \in Names : files[n] # None /\ applied[n] \notin {None, checksum(files[n])}}]

\* `missing` is only shown.
planMigrations(files, applied) ==
  LET onDisk == {n \in Names : files[n] # None}
  IN [pending |-> {n \in onDisk : applied[n] = None},
      changed |-> {n \in onDisk : applied[n] # None /\ applied[n] # checksum(files[n])}]

cmdMigrate(t) ==
  /\ At(t, "idle")
  /\ run' = [run EXCEPT ![t] = [Idle EXCEPT !.pc = "ensure", !.files = disk]]
  /\ UNCHANGED <<disk, db, dump, left, history>>

ensureTrackingTable(t) ==
  /\ At(t, "ensure")
  /\ \/ /\ run' = [run EXCEPT ![t].pc = "read"]
        /\ table' = TRUE /\ UNCHANGED left
     \/ Fails(t) /\ UNCHANGED table
  /\ UNCHANGED <<disk, ledger, objects, dump, history>>

\* --status creates the table, too; what it prints is left out.
statusOnly(t) ==
  /\ At(t, "idle")
  /\ table' = TRUE
  /\ UNCHANGED <<disk, ledger, objects, dump, run, left, history>>

\* The table is read, and the plan made: edited files and an empty plan end the
\* command.
appliedMigrations(t) ==
  /\ At(t, "read")
  /\ LET plan == planMigrations(run[t].files, ledger) IN
     \/ /\ table /\ plan.changed = {} /\ plan.pending # {}
        /\ run' = [run EXCEPT ![t].pc = "begin", ![t].pending = plan.pending,
                              ![t].known = {n \in Names : ledger[n] # None}]
        /\ UNCHANGED left
     \/ /\ ~table \/ plan.changed # {} \/ plan.pending = {}
        /\ Exit(t) /\ UNCHANGED left
     \/ Fails(t)
  /\ stale' = [stale EXCEPT ![t] = {}]
  /\ UNCHANGED <<disk, db, dump, unrecorded, spoiled>>

Current(t) == Min(run[t].pending)

InTransaction(n) == \E t \in Terminals : At(t, "commit") /\ Current(t) = n

\* BEGIN, the contents and the row: statements about the same objects wait for
\* the other transaction.  What fails is rolled back and ends the command.
applyMigration(t) ==
  /\ At(t, "begin") /\ ~InTransaction(Current(t))
  /\ \/ /\ Current(t) \in Repeatable \/ objects[Current(t)] = None
        /\ table
        /\ run' = [run EXCEPT ![t].pc = "commit"]
        /\ UNCHANGED left
     \/ /\ (Current(t) \notin Repeatable /\ objects[Current(t)] # None) \/ ~table
        /\ Exit(t) /\ UNCHANGED left
     \/ Fails(t)
  /\ UNCHANGED <<disk, db, dump, history>>

Continue(t) ==
  LET rest == run[t].pending \ {Current(t)}
  IN IF rest = {} THEN Exit(t)
     ELSE run' = [run EXCEPT ![t].pc = "begin", ![t].pending = rest,
                             ![t].applied = @ \cup {Current(t)}]

Recorded(t) ==
  /\ ledger' = [ledger EXCEPT ![Current(t)] = checksum(run[t].files[Current(t)])]
  /\ objects' = [objects EXCEPT ![Current(t)] = run[t].files[Current(t)].text]
  /\ unrecorded' = unrecorded \ {Current(t)}
  /\ stale' = [u \in Terminals |-> IF u = t THEN stale[u] ELSE stale[u] \cup {Current(t)}]

\* Mutant: the row is written by a transaction of its own, which may fail.
CommitTwice(t) ==
  /\ At(t, "commit")
  /\ \/ Recorded(t) /\ Continue(t) /\ UNCHANGED left
     \/ /\ Fails(t)
        /\ objects' = [objects EXCEPT ![Current(t)] = run[t].files[Current(t)].text]
        /\ UNCHANGED <<ledger, unrecorded, stale>>
  /\ UNCHANGED <<disk, table, dump, spoiled>>

\* COMMIT; when the connection is lost with it, either outcome is possible.
Commit(t) ==
  /\ At(t, "commit")
  /\ \/ Recorded(t) /\ Continue(t) /\ UNCHANGED left
     \/ Recorded(t) /\ Fails(t)
     \/ Fails(t) /\ UNCHANGED <<ledger, objects, unrecorded, stale>>
  /\ UNCHANGED <<disk, table, dump, spoiled>>

-----------------------------------------------------------------------------
(* laetoli-data backup, and restore FILE --force                           *)

\* pg_dump through docker; the file is written when its exit code is 0, and a
\* child that a signal killed has the code 0, too.
cmdBackup(t) ==
  /\ At(t, "idle") /\ Event("restore")
  /\ \E whole \in BOOLEAN :
       dump' = [whole |-> whole, table |-> table, ledger |-> ledger, objects |-> objects]
  /\ UNCHANGED <<disk, db, run, history>>

Busy(t) == \E u \in Terminals \ {t} : ~At(u, "idle")

\* psql commits each statement: first the objects of the dump are dropped.
\* (A migration that is open on one of them keeps the statement waiting.)
cmdRestore(t) ==
  /\ At(t, "idle") /\ dump # None /\ Event("restore")
  /\ \A u \in Terminals : ~At(u, "commit")
  /\ run' = [run EXCEPT ![t].pc = "load"]
  /\ table' = (table /\ ~dump.table)
  /\ ledger' = IF table' THEN ledger ELSE Nothing
  /\ objects' = [n \in Names |-> IF dump.objects[n] # None THEN None ELSE objects[n]]
  /\ spoiled' = (spoiled \/ Busy(t))
  /\ stale' = [stale EXCEPT ![t] = {}]
  /\ UNCHANGED <<disk, dump, unrecorded>>

\* Then they are created.  Without ON_ERROR_STOP the exit code is 0 even if a
\* statement failed, here because the objects are there again.
Load(t) ==
  /\ At(t, "load")
  /\ \E lost \in IF dump.whole THEN {{}} ELSE SUBSET Names :
       objects' = [n \in Names |-> IF objects[n] = None /\ n \notin lost
                                   THEN dump.objects[n] ELSE objects[n]]
  /\ table' = (table \/ dump.table)
  /\ ledger' = IF table \/ ~dump.whole THEN ledger ELSE dump.ledger
  /\ unrecorded' = unrecorded \cup {n \in Names : ledger'[n] = None /\ objects'[n] # None}
  /\ spoiled' = (spoiled \/ ~dump.whole \/ ~dump.table \/ table \/ Busy(t) \/ stale[t] # {})
  /\ Exit(t)
  /\ UNCHANGED <<disk, dump, left, stale>>

-----------------------------------------------------------------------------

\* A file is added, rewritten, removed, or gets other line ends.
Edit ==
  /\ Event("edit")
  /\ \E n \in Names :
       \/ \E x \in Texts : disk' = [disk EXCEPT ![n] = [text |-> x, crlf |-> FALSE]]
       \/ disk[n] # None /\ disk' = [disk EXCEPT ![n].crlf = ~@]
       \/ disk' = [disk EXCEPT ![n] = None]
  /\ UNCHANGED <<db, dump, run, history>>

Migrate(t) ==
  cmdMigrate(t) \/ ensureTrackingTable(t) \/ appliedMigrations(t) \/ applyMigration(t) \/ Commit(t)

Next ==
  \/ \E t \in Terminals : Migrate(t) \/ statusOnly(t) \/ cmdBackup(t) \/ cmdRestore(t) \/ Load(t)
  \/ Edit

Spec == Init /\ [][Next]_vars

\* The operator repeats a command that failed, until it is no longer needed.
FairSpec == Spec /\ \A t \in Terminals : WF_vars(Migrate(t)) /\ WF_vars(Load(t))

-----------------------------------------------------------------------------
(* Properties.                                                             *)

\* The table and the schema agree, between the two statements of any command
\* and whatever failed, as long as no restore went wrong: what is recorded has
\* its effects, and effects without a record came with db/init or a dump.
LedgerMatchesSchema ==
  \/ spoiled \/ \E t \in Terminals : At(t, "load")
  \/ \A n \in Names : objects[n] = ledger[n] \/ (ledger[n] = None /\ n \in unrecorded)

\* A migration is applied after all those before it that the command saw, and
\* what was recorded when the command began is not applied again.
AppliedOnceInOrder ==
  \A t \in Terminals : \A n \in run[t].applied \cup (IF At(t, "commit") THEN {Current(t)} ELSE {}) :
    /\ \A k \in Names : k < n /\ run[t].files[k] # None => k \in run[t].known \cup run[t].applied
    /\ n \notin run[t].known

\* The table lists what was done to the schema, and no command does it twice
\* or out of order (cmdMigrate, applyMigration).
LedgerTruthful == LedgerMatchesSchema /\ AppliedOnceInOrder

\* A recorded migration is replaced by an edited one only when two commands
\* read the table before either had applied it.
EditedFilesRefused ==
  [][\A n \in Names :
       ledger[n] # None /\ ledger'[n] # None /\ ledger'[n] # ledger[n] =>
         \E t \in Terminals : ~At(t, "idle") /\ (n \in stale[t] \/ At(t, "load") \/ spoiled)]_vars

\* Nothing more can be applied: a recorded file was edited, or a migration
\* cannot be repeated and has its objects already (from db/init, or left over
\* by the restore of an older dump, which drops only what it holds).
Blocked ==
  \E n \in Names :
    /\ disk[n] # None
    /\ IF ledger[n] = None THEN n \notin Repeatable /\ objects[n] # None
       ELSE ledger[n] # checksum(disk[n])

\* Unless it is blocked, migrate brings the database up to date in the end.
CatchesUp == <>[](Blocked \/ \A n \in Names : disk[n] # None => ledger[n] # None)
=============================================================================
