--------------------------- MODULE MigrationsProofs ---------------------------
(***************************************************************************)
(* Proofs about the commands that change the database, for every set of    *)
(* migrations and contents, any number of terminals and any number of      *)
(* edits, faults and restores: the table lists what was done to the        *)
(* schema, once and in order, and an edited file is refused.               *)
(***************************************************************************)
EXTENDS Migrations, WellFoundedInduction, TLAPS

USE NamesAssumption, CheckoutsAssumption, TextsAssumption, NoneAssumption

-----------------------------------------------------------------------------
(***************************************************************************)
(* The inductive invariant.                                                *)
(***************************************************************************)
Pcs == {"idle", "ensure", "read", "begin", "commit", "load"}
Files == Contents \cup {None}
Command == [pc : Pcs, files : [Names -> Files], known : SUBSET Names,
            pending : SUBSET Names, applied : SUBSET Names]

\* Files, tables, dumps and commands have their types.
TypeOK ==
  /\ disk \in [Names -> Files]
  /\ table \in BOOLEAN /\ ledger \in Recordings /\ objects \in Recordings
  /\ dump \in Dump \cup {None}
  /\ run \in [Terminals -> Command]
  /\ stale \in [Terminals -> SUBSET Names]
  /\ unrecorded \subseteq Names /\ spoiled \in BOOLEAN

Applying(t) == run[t].pc \in {"begin", "commit"}

\* What a command that applies migrations has before it and behind it.
InOrder(q) ==
  /\ q.pc \notin {"begin", "commit"} => q.applied = {}
  /\ q.pc \in {"begin", "commit"} =>
       /\ q.pending # {} /\ \A n \in q.pending : q.files[n] # None
       /\ q.pending \cap (q.known \cup q.applied) = {} /\ q.known \cap q.applied = {}
       /\ \A n \in Names : q.files[n] # None => n \in q.known \cup q.applied \cup q.pending
       /\ \A n \in q.applied : \A k \in q.pending : n < k

\* It has read of every migration that is recorded, or recorded it itself, or
\* others have meanwhile.
Seen(t) ==
  Applying(t) => \A n \in Names : ledger[n] # None =>
    spoiled \/ n \in run[t].known \cup run[t].applied \cup stale[t]

Loads == \E t \in Terminals : At(t, "load")

\* A whole dump with the table has what its table lists, unless the restore it
\* was taken in is going wrong.
DumpMatches ==
  \/ spoiled \/ (Loads /\ table) \/ dump = None \/ ~dump.whole \/ ~dump.table
  \/ \A n \in Names : dump.ledger[n] # None => dump.objects[n] = dump.ledger[n]

\* An undisturbed restore has dropped what it is about to create.
Dropped(t) ==
  At(t, "load") =>
    /\ dump \in Dump
    /\ ~spoiled /\ ~table /\ dump.table /\ stale[t] = {} =>
         \A n \in Names : dump.objects[n] # None => objects[n] = None

IInv == /\ TypeOK
        /\ \A t \in Terminals : InOrder(run[t]) /\ Seen(t) /\ Dropped(t)
        /\ DumpMatches
        /\ LedgerMatchesSchema

-----------------------------------------------------------------------------
\* A set of numbers of migrations has a first one.
LEMMA First ==
  ASSUME NEW S \in SUBSET Names, S # {}
  PROVE  Min(S) \in S /\ \A n \in S : Min(S) <= n
<1> DEFINE R == {ss \in Nat \X Nat : ss[1] < ss[2]}
<1>1. OpToRel(<, Nat) = R
  BY Zenon DEF OpToRel
<1>2. IsWellFoundedOn(R, Nat)
  BY <1>1, NatLessThanWellFounded
<1> HIDE DEF R
<1>3. \E n \in S : \A k \in S : ~(<<k, n>> \in R)
  BY <1>2, WFMin
<1>4. PICK n \in S : \A k \in S : ~(<<k, n>> \in R)
  BY <1>3
<1>5. \A k \in S : n <= k
  <2> SUFFICES ASSUME NEW k \in S
               PROVE  n <= k
    OBVIOUS
  <2>1. k \in Nat /\ n \in Nat
    OBVIOUS
  <2>2. k < n => <<k, n>> \in R
    BY <2>1 DEF R
  <2> QED
    BY <1>4, <2>1, <2>2
<1> QED
  BY <1>5 DEF Min

\* A checkout has a last migration.
LEMMA Last ==
  ASSUME NEW S \in Checkouts
  PROVE  Max(S) \in S
<1>1. \E n \in S : \A k \in S : n >= k
  OBVIOUS
<1> QED
  BY <1>1 DEF Max

-----------------------------------------------------------------------------
(***************************************************************************)
(* Every step keeps the invariant.                                         *)
(***************************************************************************)
LEMMA IdleInOrder ==
  Idle \in Command /\ Idle.pc = "idle" /\ Idle.applied = {} /\ InOrder(Idle)
<1>1. Nothing \in [Names -> Files]
  BY DEF Nothing, Files
<1> QED
  BY <1>1 DEF Idle, Command, Pcs, InOrder

\* A command changes its own terminal's state only.
LEMMA RunChanges ==
  ASSUME TypeOK, NEW t \in Terminals, NEW q \in Command, run' = [run EXCEPT ![t] = q]
  PROVE  /\ run' \in [Terminals -> Command] /\ run'[t] = q
         /\ \A u \in Terminals \ {t} : run'[u] = run[u]
  BY DEF TypeOK

\* A step of one command that changes neither what is recorded, nor the
\* schema, nor the dump.
LEMMA Quiet ==
  ASSUME IInv, NEW t \in Terminals, ~At(t, "load"),
         UNCHANGED <<disk, ledger, objects, dump, unrecorded, spoiled>>,
         table' \in BOOLEAN, table => table',
         NEW q \in Command, run' = [run EXCEPT ![t] = q], q.pc # "load", InOrder(q),
         stale' \in [Terminals -> SUBSET Names],
         \A u \in Terminals \ {t} : stale'[u] = stale[u],
         q.pc \in {"begin", "commit"} =>
           \A n \in Names : ledger[n] # None => spoiled \/ n \in q.known \cup q.applied \cup stale'[t]
  PROVE  IInv'
<1>1. /\ run' \in [Terminals -> Command] /\ run'[t] = q
      /\ \A u \in Terminals \ {t} : run'[u] = run[u]
  BY RunChanges DEF IInv
<1>2. TypeOK'
  BY <1>1 DEF IInv, TypeOK
<1>3. \A u \in Terminals : At(u, "load")' <=> At(u, "load")
  BY <1>1 DEF At
<1>4. \A u \in Terminals : InOrder(run'[u])
  BY <1>1 DEF IInv
<1>5. ASSUME NEW u \in Terminals
      PROVE  Seen(u)'
  BY <1>1 DEF IInv, Seen, Applying
<1>6. ASSUME NEW u \in Terminals
      PROVE  Dropped(u)'
  <2>1. CASE u = t
    BY <1>3, <2>1 DEF Dropped
  <2>2. CASE u # t
    BY <1>3, <2>2 DEF IInv, Dropped
  <2> QED
    BY <2>1, <2>2
<1>7. DumpMatches'
  BY <1>3 DEF IInv, DumpMatches, Loads
<1>8. LedgerMatchesSchema'
  BY <1>3 DEF IInv, LedgerMatchesSchema
<1> QED
  BY <1>2, <1>4, <1>5, <1>6, <1>7, <1>8 DEF IInv

\* A command that applies nothing yet, or no more.
LEMMA Waits ==
  ASSUME IInv, NEW t \in Terminals, ~At(t, "load"),
         UNCHANGED <<disk, ledger, objects, dump, unrecorded, spoiled>>,
         table' \in BOOLEAN, table => table',
         stale' \in [Terminals -> SUBSET Names],
         \A u \in Terminals \ {t} : stale'[u] = stale[u],
         NEW q \in Command, q.pc \in {"idle", "ensure", "read"}, q.applied = {},
         run' = [run EXCEPT ![t] = q]
  PROVE  IInv'
<1>1. InOrder(q)
  BY DEF InOrder
<1> QED
  BY <1>1, Quiet

\* migrate, up to its first statement.
LEMMA cmdMigrateKeeps ==
  ASSUME IInv, NEW t \in Terminals, cmdMigrate(t)
  PROVE  IInv'
<1> DEFINE q == [Idle EXCEPT !.pc = "ensure", !.files = disk]
<1>1. q \in Command /\ q.pc = "ensure" /\ q.applied = {}
  BY IdleInOrder DEF Command, Pcs, Idle, IInv, TypeOK
<1>2. run' = [run EXCEPT ![t] = q]
  BY DEF cmdMigrate
<1> HIDE DEF q
<1>3. /\ ~At(t, "load") /\ UNCHANGED <<disk, db, dump, left, history>>
  BY DEF cmdMigrate, At
<1> QED
  BY <1>1, <1>2, <1>3, Waits DEF db, history, IInv, TypeOK

\* CREATE TABLE IF NOT EXISTS, and its failure.
LEMMA ensureKeeps ==
  ASSUME IInv, NEW t \in Terminals, ensureTrackingTable(t)
  PROVE  IInv'
<1>1. /\ ~At(t, "load") /\ run[t].pc = "ensure"
      /\ UNCHANGED <<disk, ledger, objects, dump, unrecorded, spoiled, stale>>
      /\ table' = TRUE \/ UNCHANGED table
  BY DEF ensureTrackingTable, At, history
<1>2. PICK q \in Command : /\ run' = [run EXCEPT ![t] = q] /\ q.applied = {}
                           /\ q.pc \in {"idle", "read"}
  <2>1. CASE Exit(t)
    BY <2>1, IdleInOrder DEF Exit, Idle
  <2>2. CASE run' = [run EXCEPT ![t].pc = "read"]
    <3> DEFINE q == [run[t] EXCEPT !.pc = "read"]
    <3>1. run[t] \in Command /\ run[t].applied = {}
      BY <1>1 DEF IInv, TypeOK, InOrder
    <3>2. q \in Command /\ q.applied = {} /\ q.pc = "read"
      BY <3>1 DEF Command, Pcs
    <3> QED
      BY <2>2, <3>2
  <2> QED
    BY <2>1, <2>2 DEF ensureTrackingTable, Fails
<1>3. table' \in BOOLEAN /\ (table => table') /\ stale' \in [Terminals -> SUBSET Names]
  <2>1. table \in BOOLEAN /\ stale \in [Terminals -> SUBSET Names]
    BY DEF IInv, TypeOK
  <2>2. CASE table' = TRUE
    BY <1>1, <2>1, <2>2
  <2>3. CASE UNCHANGED table
    BY <1>1, <2>1, <2>3
  <2> QED
    BY <1>1, <2>2, <2>3
<1> QED
  BY <1>1, <1>2, <1>3, Waits

\* migrate --status, which only reads.
LEMMA statusKeeps ==
  ASSUME IInv, NEW t \in Terminals, statusOnly(t)
  PROVE  IInv'
<1>1. run' = [run EXCEPT ![t] = run[t]] /\ run[t] \in Command /\ run[t].applied = {}
      /\ run[t].pc = "idle" /\ ~At(t, "load")
  BY DEF statusOnly, At, IInv, TypeOK, InOrder
<1> QED
  BY <1>1, Waits DEF statusOnly, history, IInv, TypeOK

\* The plan: what is pending is not recorded, and all else is known.
LEMMA appliedMigrationsKeeps ==
  ASSUME IInv, NEW t \in Terminals, appliedMigrations(t)
  PROVE  IInv'
<1> DEFINE plan == planMigrations(run[t].files, ledger)
           known == {n \in Names : ledger[n] # None}
<1>1. /\ run[t] \in Command /\ run[t].pc = "read" /\ run[t].applied = {} /\ ~At(t, "load")
      /\ UNCHANGED <<disk, table, ledger, objects, dump, unrecorded, spoiled>>
      /\ stale' = [stale EXCEPT ![t] = {}]
  BY DEF appliedMigrations, At, IInv, TypeOK, InOrder, db
<1>2. /\ stale' \in [Terminals -> SUBSET Names]
      /\ \A u \in Terminals \ {t} : stale'[u] = stale[u]
  BY <1>1 DEF IInv, TypeOK
<1>3. CASE Exit(t)
  BY <1>1, <1>2, <1>3, IdleInOrder, Waits DEF Exit, Idle, IInv, TypeOK
<1>4. CASE /\ plan.pending # {}
           /\ run' = [run EXCEPT ![t].pc = "begin", ![t].pending = plan.pending,
                                 ![t].known = known]
  <2> DEFINE pending == {n \in Names : run[t].files[n] # None /\ ledger[n] = None}
             q == [run[t] EXCEPT !.pc = "begin", !.pending = pending, !.known = known]
  <2>1. plan.pending = pending
    BY DEF planMigrations
  <2> HIDE DEF plan
  <2>2. /\ pending \in SUBSET Names /\ known \in SUBSET Names
        /\ \A n \in pending : run[t].files[n] # None
        /\ pending \cap known = {}
        /\ \A n \in Names : run[t].files[n] # None => n \in known \cup pending
    OBVIOUS
  <2>3. \A n \in Names : ledger[n] # None => n \in known
    OBVIOUS
  <2> HIDE DEF known, pending
  <2>4. \A f \in [Terminals -> Command] :
          [f EXCEPT ![t].pc = "begin", ![t].pending = pending, ![t].known = known]
            = [f EXCEPT ![t] = [f[t] EXCEPT !.pc = "begin", !.pending = pending, !.known = known]]
    BY DEF Command
  <2>5. run' = [run EXCEPT ![t] = q]
    BY <1>4, <2>1, <2>4 DEF IInv, TypeOK
  <2>6. /\ q \in Command /\ q.pc = "begin" /\ q.pending = pending /\ q.known = known
        /\ q.applied = {} /\ q.files = run[t].files
    BY <1>1, <2>2 DEF Command, Pcs
  <2> HIDE DEF q
  <2>7. InOrder(q)
    BY <1>4, <2>1, <2>2, <2>6 DEF InOrder
  <2> QED
    BY <1>1, <1>2, <2>3, <2>5, <2>6, <2>7, Quiet DEF IInv, TypeOK
<1> QED
  BY <1>3, <1>4 DEF appliedMigrations, Fails

\* The transaction of one file begins, with the file as it is now.
LEMMA applyMigrationKeeps ==
  ASSUME IInv, NEW t \in Terminals, applyMigration(t)
  PROVE  IInv'
<1>1. /\ run[t] \in Command /\ run[t].pc = "begin" /\ InOrder(run[t]) /\ ~At(t, "load")
      /\ UNCHANGED <<disk, table, ledger, objects, dump, unrecorded, spoiled, stale>>
      /\ Exit(t) \/ run' = [run EXCEPT ![t].pc = "commit"]
  BY DEF applyMigration, At, IInv, TypeOK, db, history, Fails
<1>2. CASE Exit(t)
  BY <1>1, <1>2, IdleInOrder, Waits DEF Exit, Idle, IInv, TypeOK
<1>3. CASE run' = [run EXCEPT ![t].pc = "commit"]
  <2> DEFINE q == [run[t] EXCEPT !.pc = "commit"]
  <2>1. run' = [run EXCEPT ![t] = q]
    BY <1>3
  <2>2. /\ q \in Command /\ q.pc = "commit" /\ q.pending = run[t].pending
        /\ q.known = run[t].known /\ q.applied = run[t].applied /\ q.files = run[t].files
    BY <1>1 DEF Command, Pcs
  <2> HIDE DEF q
  <2>3. InOrder(q)
    BY <1>1, <2>2 DEF InOrder
  <2>4. \A n \in Names : ledger[n] # None => spoiled \/ n \in q.known \cup q.applied \cup stale'[t]
    BY <1>1, <2>2 DEF IInv, Seen, Applying
  <2> QED
    BY <1>1, <2>1, <2>2, <2>3, <2>4, Quiet DEF IInv, TypeOK
<1> QED
  BY <1>1, <1>2, <1>3

\* A migration is committed: from now on it is recorded, others hear of it,
\* and the command goes on without it, if it does.
LEMMA RecordedKeeps ==
  ASSUME IInv, NEW t \in Terminals, At(t, "commit"), Recorded(t),
         UNCHANGED <<disk, table, dump, spoiled>>,
         NEW q \in Command, run' = [run EXCEPT ![t] = q], InOrder(q),
         q.pc \in {"idle", "begin"},
         q.pc = "begin" => /\ q.known = run[t].known
                           /\ q.applied = run[t].applied \cup {Current(t)}
  PROVE  IInv'
<1>1. /\ run' \in [Terminals -> Command] /\ run'[t] = q
      /\ \A u \in Terminals \ {t} : run'[u] = run[u]
  BY RunChanges DEF IInv
<1>2. PICK c \in Names : c = Current(t) /\ c \in run[t].pending /\ run[t].files[c] # None
  <2>1. run[t] \in Command /\ InOrder(run[t]) /\ run[t].pc = "commit"
    BY DEF At, IInv, TypeOK
  <2>2. run[t].pending \in SUBSET Names /\ run[t].pending # {}
    BY <2>1 DEF Command, InOrder
  <2>3. Current(t) \in run[t].pending
    BY <2>2, First DEF Current
  <2> QED
    BY <2>1, <2>2, <2>3 DEF InOrder
<1>3. PICK x \in Texts : x = run[t].files[c].text
  <2>1. run[t] \in Command
    BY DEF IInv, TypeOK
  <2>2. run[t].files[c] \in [text : Texts, crlf : BOOLEAN]
    BY <1>2, <2>1 DEF Command, Files, Contents
  <2> QED
    BY <2>2
<1>4. /\ ledger' = [ledger EXCEPT ![c] = x] /\ objects' = [objects EXCEPT ![c] = x]
      /\ unrecorded' = unrecorded \ {c}
      /\ stale' = [u \in Terminals |-> IF u = t THEN stale[u] ELSE stale[u] \cup {c}]
  BY <1>2, <1>3 DEF Recorded, checksum
<1>5. TypeOK'
  <2>1. ledger' \in Recordings /\ objects' \in Recordings
    BY <1>4 DEF IInv, TypeOK, Recordings
  <2>2. stale' \in [Terminals -> SUBSET Names]
    BY <1>4 DEF IInv, TypeOK
  <2> QED
    BY <1>1, <1>4, <2>1, <2>2 DEF IInv, TypeOK
<1>6. /\ ledger'[c] = x /\ objects'[c] = x
      /\ \A n \in Names \ {c} : ledger'[n] = ledger[n] /\ objects'[n] = objects[n]
  BY <1>4 DEF IInv, TypeOK, Recordings
<1>7. \A u \in Terminals : At(u, "load")' <=> u # t /\ At(u, "load")
  BY <1>1 DEF At
<1>8. \A u \in Terminals : InOrder(run'[u])
  BY <1>1 DEF IInv
<1>9. ASSUME NEW u \in Terminals
      PROVE  Seen(u)'
  <2>1. CASE u = t
    <3>1. Seen(t) /\ Applying(t) /\ stale'[t] = stale[t]
      BY <1>4 DEF At, Applying, IInv
    <3> QED
      BY <1>1, <1>2, <1>6, <2>1, <3>1 DEF Seen, Applying
  <2>2. CASE u # t
    <3>1. Seen(u) /\ stale'[u] = stale[u] \cup {c} /\ run'[u] = run[u]
      BY <1>1, <1>4, <2>2 DEF IInv
    <3> QED
      BY <1>6, <3>1 DEF Seen, Applying
  <2> QED
    BY <2>1, <2>2
<1>10. ASSUME NEW u \in Terminals
       PROVE  Dropped(u)'
  <2>1. u # t => stale'[u] # {}
    BY <1>4
  <2> QED
    BY <1>7, <2>1 DEF IInv, Dropped
<1>11. DumpMatches'
  BY <1>7 DEF IInv, DumpMatches, Loads, At
<1>12. LedgerMatchesSchema'
  <2>1. (\E u \in Terminals : At(u, "load")) => \E u \in Terminals : At(u, "load")'
    BY <1>7 DEF At
  <2> QED
    BY <1>4, <1>6, <2>1 DEF IInv, LedgerMatchesSchema
<1> QED
  BY <1>5, <1>8, <1>9, <1>10, <1>11, <1>12 DEF IInv

\* The transaction ends: schema and ledger change together.
LEMMA CommitKeeps ==
  ASSUME IInv, NEW t \in Terminals, Commit(t)
  PROVE  IInv'
<1>1. /\ At(t, "commit") /\ run[t].pc = "commit" /\ ~At(t, "load") /\ run[t] \in Command
      /\ InOrder(run[t]) /\ UNCHANGED <<disk, table, dump, spoiled>>
  BY DEF Commit, At, IInv, TypeOK
<1>2. CASE Recorded(t) /\ Exit(t)
  BY <1>1, <1>2, IdleInOrder, RecordedKeeps DEF Exit
<1>3. CASE Recorded(t) /\ Continue(t)
  <2> DEFINE rest == run[t].pending \ {Current(t)}
             applied == run[t].applied \cup {Current(t)}
  <2>1. CASE rest = {}
    <3>1. Exit(t)
      BY <1>3, <2>1 DEF Continue
    <3> QED
      BY <1>2, <1>3, <3>1
  <2>2. CASE rest # {}
    <3> DEFINE q == [run[t] EXCEPT !.pc = "begin", !.pending = rest, !.applied = applied]
    <3>1. \A f \in [Terminals -> Command] : \A S, c :
            [f EXCEPT ![t].pc = "begin", ![t].pending = S, ![t].applied = @ \cup {c}]
              = [f EXCEPT ![t] = [f[t] EXCEPT !.pc = "begin", !.pending = S,
                                              !.applied = f[t].applied \cup {c}]]
      BY DEF Command
    <3>2. run' = [run EXCEPT ![t] = q]
      <4>1. run' = [run EXCEPT ![t].pc = "begin", ![t].pending = rest,
                               ![t].applied = @ \cup {Current(t)}]
        BY <1>3, <2>2 DEF Continue
      <4> QED
        BY <3>1, <4>1 DEF IInv, TypeOK
    <3>3. /\ run[t].pending \in SUBSET Names /\ run[t].pending # {}
          /\ run[t].applied \in SUBSET Names
      BY <1>1 DEF Command, InOrder
    <3>4. PICK c \in run[t].pending : c = Current(t) /\ \A n \in run[t].pending : c <= n
      BY <3>3, First DEF Current
    <3>5. c \in Names /\ c \in Nat
      BY <3>3, <3>4
    <3>6. rest \in SUBSET Names /\ applied \in SUBSET Names
      BY <3>3, <3>4, <3>5
    <3>7. /\ q \in Command /\ q.pc = "begin" /\ q.pending = rest /\ q.applied = applied
          /\ q.known = run[t].known /\ q.files = run[t].files
      <4> HIDE DEF rest, applied
      <4> QED
        BY <1>1, <3>6 DEF Command, Pcs
    <3> HIDE DEF q
    <3>8. \A n \in applied : \A k \in rest : n < k
      <4>1. \A n \in run[t].applied : \A k \in run[t].pending : n < k
        BY <1>1 DEF InOrder
      <4>2. \A k \in rest : k \in Nat /\ k # c
        BY <3>3, <3>4
      <4>3. \A k \in rest : c < k
        BY <3>4, <3>5, <4>2
      <4> QED
        BY <3>4, <4>1, <4>3
    <3>9. InOrder(q)
      BY <1>1, <2>2, <3>4, <3>7, <3>8 DEF InOrder
    <3> QED
      BY <1>1, <1>3, <3>2, <3>7, <3>9, RecordedKeeps
  <2> QED
    BY <2>1, <2>2
<1>4. CASE Exit(t) /\ UNCHANGED <<ledger, objects, unrecorded, stale>>
  BY <1>1, <1>4, IdleInOrder, Waits DEF Exit, IInv, TypeOK
<1> QED
  BY <1>2, <1>3, <1>4 DEF Commit, Fails

\* A dump is taken; in the middle of a restore that goes well it has no table.
LEMMA cmdBackupKeeps ==
  ASSUME IInv, NEW t \in Terminals, cmdBackup(t)
  PROVE  IInv'
<1>1. /\ UNCHANGED <<disk, table, ledger, objects, run, unrecorded, stale, spoiled>>
  BY DEF cmdBackup, db, history
<1>2. PICK whole \in BOOLEAN :
        dump' = [whole |-> whole, table |-> table, ledger |-> ledger, objects |-> objects]
  BY DEF cmdBackup
<1>3. /\ dump' \in Dump /\ dump'.table = table /\ dump'.ledger = ledger
      /\ dump'.objects = objects
  BY <1>2 DEF Dump, IInv, TypeOK
<1>4. TypeOK'
  BY <1>1, <1>3 DEF IInv, TypeOK
<1>5. \A u \in Terminals : At(u, "load")' <=> At(u, "load")
  BY <1>1 DEF At
<1>6. LedgerMatchesSchema'
  BY <1>1, <1>5 DEF IInv, LedgerMatchesSchema
<1>7. DumpMatches'
  <2> SUFFICES ASSUME ~spoiled, table, ~\E u \in Terminals : At(u, "load")
               PROVE  \A n \in Names : ledger[n] # None => objects[n] = ledger[n]
    BY <1>1, <1>3, <1>5 DEF DumpMatches, Loads
  <2> QED
    BY DEF IInv, LedgerMatchesSchema
<1>8. ASSUME NEW u \in Terminals
      PROVE  Dropped(u)'
  <2>1. ASSUME ~table
        PROVE  dump'.table # TRUE
    BY <1>3, <2>1
  <2> QED
    BY <1>1, <1>3, <2>1 DEF Dropped
<1>9. \A u \in Terminals : InOrder(run'[u]) /\ Seen(u)'
  BY <1>1 DEF IInv, Seen, Applying
<1> QED
  BY <1>4, <1>6, <1>7, <1>8, <1>9 DEF IInv

\* A restore begins: of two at once, one has disturbed the other.
LEMMA cmdRestoreKeeps ==
  ASSUME IInv, NEW t \in Terminals, cmdRestore(t)
  PROVE  IInv'
<1> DEFINE q == [run[t] EXCEPT !.pc = "load"]
<1>1. /\ At(t, "idle") /\ run[t].pc = "idle" /\ dump \in Dump /\ run[t] \in Command
      /\ run[t].applied = {} /\ UNCHANGED <<disk, dump, unrecorded>>
      /\ run' = [run EXCEPT ![t] = q]
  BY DEF cmdRestore, At, IInv, TypeOK, InOrder
<1>2. q \in Command /\ q.pc = "load" /\ q.applied = {}
  BY <1>1 DEF Command, Pcs
<1> HIDE DEF q
<1>3. /\ run' \in [Terminals -> Command] /\ run'[t] = q
      /\ \A u \in Terminals \ {t} : run'[u] = run[u]
  BY <1>1, <1>2, RunChanges DEF IInv
<1>4. /\ table' = (table /\ ~dump.table) /\ ledger' = IF table' THEN ledger ELSE Nothing
      /\ objects' = [n \in Names |-> IF dump.objects[n] # None THEN None ELSE objects[n]]
      /\ spoiled' = (spoiled \/ Busy(t)) /\ stale' = [stale EXCEPT ![t] = {}]
  BY DEF cmdRestore
<1>5. TypeOK'
  <2>1. ledger' \in Recordings /\ objects' \in Recordings
    BY <1>4 DEF Recordings, Nothing, IInv, TypeOK
  <2>2. table' \in BOOLEAN /\ spoiled' \in BOOLEAN
    BY <1>4 DEF IInv, TypeOK, Busy
  <2>3. stale' \in [Terminals -> SUBSET Names]
    BY <1>4 DEF IInv, TypeOK
  <2> QED
    BY <1>1, <1>3, <2>1, <2>2, <2>3 DEF IInv, TypeOK
<1>6. /\ At(t, "load")'
      /\ \A u \in Terminals \ {t} : At(u, "load")' <=> At(u, "load")
      /\ \A u \in Terminals \ {t} : stale'[u] = stale[u]
  BY <1>2, <1>3, <1>4 DEF At, IInv, TypeOK
<1>7. \A n \in Names : ledger'[n] = ledger[n] \/ ledger'[n] = None
  BY <1>4 DEF Nothing
<1>8. spoiled => spoiled'
  BY <1>4
<1>9. (\E u \in Terminals \ {t} : At(u, "load")) => spoiled'
  BY <1>4 DEF At, Busy
<1>10. ASSUME NEW u \in Terminals
       PROVE  InOrder(run'[u]) /\ Seen(u)'
  <2>1. CASE u = t
    BY <1>2, <1>3, <2>1 DEF InOrder, Seen, Applying
  <2>2. CASE u # t
    BY <1>3, <1>6, <1>7, <1>8, <2>2 DEF IInv, Seen, Applying
  <2> QED
    BY <2>1, <2>2
<1>11. ASSUME NEW u \in Terminals
       PROVE  Dropped(u)'
  <2>1. CASE u = t
    <3>1. \A n \in Names : dump.objects[n] # None => objects'[n] = None
      BY <1>4
    <3> QED
      BY <1>1, <2>1, <3>1 DEF Dropped
  <2>2. CASE u # t
    BY <1>1, <1>6, <1>9, <2>2 DEF Dropped
  <2> QED
    BY <2>1, <2>2
<1>12. DumpMatches'
  <2>1. CASE spoiled'
    BY <2>1 DEF DumpMatches
  <2>2. CASE ~spoiled'
    <3>1. ~spoiled /\ ~\E u \in Terminals : At(u, "load")
      <4>1. ~At(t, "load")
        BY <1>1 DEF At
      <4> QED
        BY <1>8, <1>9, <2>2, <4>1
    <3> QED
      BY <1>1, <3>1 DEF IInv, DumpMatches, Loads
  <2> QED
    BY <2>1, <2>2
<1>13. LedgerMatchesSchema'
  BY <1>6 DEF LedgerMatchesSchema
<1> QED
  BY <1>5, <1>10, <1>11, <1>12, <1>13 DEF IInv

\* A restore ends: undisturbed, and of a whole dump with the table, it leaves
\* what the table lists.
LEMMA LoadKeeps ==
  ASSUME IInv, NEW t \in Terminals, Load(t)
  PROVE  IInv'
<1>1. /\ At(t, "load") /\ dump \in Dump /\ UNCHANGED <<disk, dump, stale>>
      /\ run' = [run EXCEPT ![t] = Idle]
  BY DEF Load, Exit, IInv, Dropped
<1>2. PICK lost \in IF dump.whole THEN {{}} ELSE SUBSET Names :
        objects' = [n \in Names |-> IF objects[n] = None /\ n \notin lost
                                    THEN dump.objects[n] ELSE objects[n]]
  BY DEF Load
<1>3. /\ table' = (table \/ dump.table)
      /\ ledger' = IF table \/ ~dump.whole THEN ledger ELSE dump.ledger
      /\ unrecorded' = unrecorded \cup {n \in Names : ledger'[n] = None /\ objects'[n] # None}
      /\ spoiled' = (spoiled \/ ~dump.whole \/ ~dump.table \/ table \/ Busy(t) \/ stale[t] # {})
  BY DEF Load
<1>4. /\ run' \in [Terminals -> Command] /\ run'[t] = Idle
      /\ \A u \in Terminals \ {t} : run'[u] = run[u]
  BY <1>1, IdleInOrder, RunChanges DEF IInv
<1>5. dump.ledger \in Recordings /\ dump.objects \in Recordings /\ dump.table \in BOOLEAN
  BY <1>1 DEF Dump
<1>6. TypeOK'
  <2>1. ledger' \in Recordings /\ objects' \in Recordings
    BY <1>2, <1>3, <1>5 DEF Recordings, IInv, TypeOK
  <2>2. table' \in BOOLEAN /\ spoiled' \in BOOLEAN
    BY <1>3, <1>5 DEF IInv, TypeOK
  <2>3. unrecorded' \subseteq Names
    BY <1>3 DEF IInv, TypeOK
  <2> QED
    BY <1>1, <1>4, <2>1, <2>2, <2>3 DEF IInv, TypeOK
<1>7. spoiled' \/ \A u \in Terminals \ {t} : run[u].pc = "idle"
  BY <1>3 DEF Busy, At
<1>8. ASSUME NEW u \in Terminals
      PROVE  InOrder(run'[u]) /\ Seen(u)' /\ Dropped(u)'
  <2>1. CASE u = t
    BY <1>4, <2>1, IdleInOrder DEF Seen, Applying, Dropped, At
  <2>2. CASE u # t
    <3>1. run'[u] = run[u] /\ InOrder(run[u])
      BY <1>4, <2>2 DEF IInv
    <3> QED
      BY <1>1, <1>7, <2>2, <3>1 DEF Seen, Applying, Dropped, At
  <2> QED
    BY <2>1, <2>2
<1>9. CASE spoiled'
  BY <1>6, <1>8, <1>9 DEF IInv, DumpMatches, LedgerMatchesSchema
<1>10. CASE ~spoiled'
  <2>1. ~spoiled /\ dump.whole /\ dump.table /\ ~table /\ stale[t] = {}
    BY <1>3, <1>10
  <2>2. \A n \in Names : dump.ledger[n] # None => dump.objects[n] = dump.ledger[n]
    BY <1>1, <2>1 DEF IInv, DumpMatches, Dump
  <2>3. \A n \in Names : dump.objects[n] # None => objects[n] = None
    BY <1>1, <2>1 DEF IInv, Dropped
  <2>4. ledger' = dump.ledger /\ lost = {}
    BY <1>3, <2>1
  <2>5. ASSUME NEW n \in Names
        PROVE  objects'[n] = ledger'[n] \/ (ledger'[n] = None /\ n \in unrecorded')
    <3>1. objects'[n] = IF objects[n] = None THEN dump.objects[n] ELSE objects[n]
      BY <1>2, <2>4
    <3>2. CASE ledger'[n] # None
      BY <2>2, <2>3, <2>4, <3>1, <3>2
    <3>3. CASE ledger'[n] = None
      BY <1>3, <3>3
    <3> QED
      BY <3>2, <3>3
  <2>6. LedgerMatchesSchema'
    BY <2>5 DEF LedgerMatchesSchema
  <2>7. DumpMatches'
    BY <1>1, <2>2 DEF DumpMatches
  <2> QED
    BY <1>6, <1>8, <2>6, <2>7 DEF IInv
<1> QED
  BY <1>9, <1>10

\* A checkout changes files, and makes stale the runs that have read them.
LEMMA EditKeeps ==
  ASSUME IInv, Edit
  PROVE  IInv'
<1>1. UNCHANGED <<table, ledger, objects, dump, run, unrecorded, stale, spoiled>>
  BY DEF Edit, db, history
<1>2. disk' \in [Names -> Files]
  <2>1. PICK n \in Names :
          \/ \E x \in Texts : disk' = [disk EXCEPT ![n] = [text |-> x, crlf |-> FALSE]]
          \/ disk[n] # None /\ disk' = [disk EXCEPT ![n].crlf = ~@]
          \/ disk' = [disk EXCEPT ![n] = None]
    BY DEF Edit
  <2>2. disk \in [Names -> Files] /\ disk[n] \in Files
    BY DEF IInv, TypeOK
  <2>3. CASE \E x \in Texts : disk' = [disk EXCEPT ![n] = [text |-> x, crlf |-> FALSE]]
    BY <2>2, <2>3 DEF Files, Contents
  <2>4. CASE disk[n] # None /\ disk' = [disk EXCEPT ![n].crlf = ~@]
    <3>1. [disk[n] EXCEPT !.crlf = ~@] \in Contents
      BY <2>2, <2>4 DEF Files, Contents
    <3> QED
      BY <2>2, <2>4, <3>1 DEF Files
  <2>5. CASE disk' = [disk EXCEPT ![n] = None]
    BY <2>2, <2>5 DEF Files
  <2> QED
    BY <2>1, <2>3, <2>4, <2>5
<1>3. TypeOK'
  BY <1>1, <1>2 DEF IInv, TypeOK
<1> QED
  BY <1>1, <1>3
  DEF IInv, Seen, Applying, Dropped, At, DumpMatches, Loads, LedgerMatchesSchema

\* An empty database, one that db/init has set up, and one of an older checkout
\* agree with their table.
THEOREM InitIInv == Init => IInv
<1> SUFFICES ASSUME Init
             PROVE  IInv
  OBVIOUS
<1>1. /\ dump = None /\ run = [t \in Terminals |-> Idle] /\ stale = [t \in Terminals |-> {}]
      /\ ~spoiled /\ spoiled \in BOOLEAN
  BY DEF Init
<1>2. PICK there \in Checkouts, text \in Texts :
        disk = [n \in Names |-> IF n \in there THEN [text |-> text, crlf |-> FALSE] ELSE None]
  <2>1. (CHOOSE x \in Texts : TRUE) \in Texts
    OBVIOUS
  <2> QED
    BY <2>1 DEF Init
<1>3. [text |-> text, crlf |-> FALSE] \in Contents
  BY DEF Contents
<1>4. disk \in [Names -> Files] /\ Present = there
  BY <1>2, <1>3 DEF Files, Present
<1>5. \A n \in Present : disk[n].text \in Texts
  BY <1>2, <1>4
<1>6. PICK kind \in {"empty", "booted", "older"}, has \in SUBSET Present :
        /\ objects = [n \in Names |-> IF n \in has THEN disk[n].text ELSE None]
        /\ table = (kind = "older")
        /\ ledger = IF kind = "older" THEN objects ELSE Nothing
        /\ unrecorded = IF kind = "booted" THEN has ELSE {}
        /\ kind = "empty" => has = {}
  <2>1. PICK kind \in {"empty", "booted", "older"} :
          LET has == IF kind = "empty" THEN {}
                     ELSE IF kind = "booted" THEN Present \cap Repeatable
                     ELSE {Max(Present)}
          IN /\ objects = [n \in Names |-> IF n \in has THEN disk[n].text ELSE None]
             /\ table = (kind = "older")
             /\ ledger = IF kind = "older" THEN objects ELSE Nothing
             /\ unrecorded = IF kind = "booted" THEN has ELSE {}
    BY DEF Init
  <2>2. Max(Present) \in Present
    BY <1>4, Last
  <2>3. PICK has \in SUBSET Present : /\ has = IF kind = "empty" THEN {}
                                             ELSE IF kind = "booted" THEN Present \cap Repeatable
                                             ELSE {Max(Present)}
    BY <2>2
  <2>4. objects = [n \in Names |-> IF n \in has THEN disk[n].text ELSE None]
    BY <2>1, <2>3
  <2>5. unrecorded = IF kind = "booted" THEN has ELSE {}
    BY <2>1, <2>3
  <2> QED
    BY <2>1, <2>3, <2>4, <2>5
<1>7. objects \in Recordings /\ ledger \in Recordings /\ unrecorded \subseteq Names
      /\ table \in BOOLEAN
  <2>1. objects \in Recordings
    BY <1>5, <1>6 DEF Recordings
  <2>2. Nothing \in Recordings
    BY DEF Nothing, Recordings
  <2> QED
    BY <1>6, <2>1, <2>2 DEF Present
<1>8. TypeOK
  BY <1>1, <1>4, <1>7, IdleInOrder DEF TypeOK
<1>9. \A n \in Names : objects[n] = ledger[n] \/ (ledger[n] = None /\ n \in unrecorded)
  <2>1. CASE kind = "older"
    BY <1>6, <2>1
  <2>2. CASE kind # "older"
    BY <1>6, <2>2 DEF Nothing
  <2> QED
    BY <2>1, <2>2
<1>10. \A t \in Terminals : InOrder(run[t]) /\ Seen(t) /\ Dropped(t)
  BY <1>1, IdleInOrder DEF Seen, Applying, Dropped, At
<1> QED
  BY <1>1, <1>8, <1>9, <1>10 DEF IInv, DumpMatches, LedgerMatchesSchema

\* Every statement of every command keeps the invariant.
THEOREM NextIInv == IInv /\ [Next]_vars => IInv'
<1> SUFFICES ASSUME IInv, [Next]_vars
             PROVE  IInv'
  OBVIOUS
<1>1. CASE UNCHANGED vars
  BY <1>1
  DEF vars, db, history, IInv, TypeOK, Seen, Applying, Dropped, At, DumpMatches, Loads,
      LedgerMatchesSchema
<1>2. ASSUME NEW t \in Terminals,
             Migrate(t) \/ statusOnly(t) \/ cmdBackup(t) \/ cmdRestore(t) \/ Load(t)
      PROVE  IInv'
  BY <1>2, cmdMigrateKeeps, ensureKeeps, statusKeeps, appliedMigrationsKeeps,
     applyMigrationKeeps, CommitKeeps, cmdBackupKeeps, cmdRestoreKeeps, LoadKeeps
  DEF Migrate
<1>3. CASE Edit
  BY <1>3, EditKeeps
<1> QED
  BY <1>1, <1>2, <1>3 DEF Next

\* The invariant holds however commands, edits, faults and restores interleave.
THEOREM SpecIInv == Spec => []IInv
<1> QED
  BY InitIInv, NextIInv, PTL DEF Spec

-----------------------------------------------------------------------------
(***************************************************************************)
(* What it is for.                                                         *)
(***************************************************************************)
LEMMA InOrderApplies ==
  ASSUME IInv
  PROVE  AppliedOnceInOrder
<1> SUFFICES ASSUME NEW t \in Terminals,
                    NEW n \in run[t].applied \cup (IF At(t, "commit") THEN {Current(t)} ELSE {})
             PROVE  /\ \A k \in Names : k < n /\ run[t].files[k] # None =>
                         k \in run[t].known \cup run[t].applied
                    /\ n \notin run[t].known
  BY DEF AppliedOnceInOrder
<1>1. run[t] \in Command /\ InOrder(run[t])
  BY DEF IInv, TypeOK
<1>2. run[t].pc \in {"begin", "commit"}
  BY <1>1 DEF InOrder, At
<1>3. /\ run[t].pending \in SUBSET Names /\ run[t].pending # {}
      /\ run[t].applied \in SUBSET Names
  BY <1>1, <1>2 DEF Command, InOrder
<1>4. n \in Nat /\ n \notin run[t].known /\ \A k \in run[t].pending : n <= k
  <2>1. CASE n \in run[t].applied
    <3>1. \A k \in run[t].pending : n < k
      BY <1>1, <1>2, <2>1 DEF InOrder
    <3>2. n \in Nat /\ \A k \in run[t].pending : k \in Nat
      BY <1>3, <2>1
    <3>3. n \notin run[t].known
      BY <1>1, <1>2, <2>1 DEF InOrder
    <3> QED
      BY <3>1, <3>2, <3>3
  <2>2. CASE n = Current(t)
    <3>1. n \in run[t].pending /\ \A k \in run[t].pending : n <= k
      BY <1>3, <2>2, First DEF Current
    <3> QED
      BY <1>1, <1>2, <1>3, <3>1 DEF InOrder
  <2> QED
    BY <2>1, <2>2
<1>5. ASSUME NEW k \in Names, k < n, run[t].files[k] # None
      PROVE  k \in run[t].known \cup run[t].applied
  <2>1. k \notin run[t].pending
    BY <1>3, <1>4, <1>5
  <2> QED
    BY <1>1, <1>2, <1>5, <2>1 DEF InOrder
<1> QED
  BY <1>4, <1>5

\* The table lists what was done to the schema, whatever failed, as long as no
\* restore went wrong, and no command does it twice or out of order, for any
\* number of terminals, migrations and faults (cmdMigrate, applyMigration).
THEOREM LedgerAlwaysTruthful == Spec => []LedgerTruthful
<1>1. IInv => LedgerTruthful
  BY InOrderApplies DEF IInv, LedgerTruthful
<1> QED
  BY <1>1, SpecIInv, PTL

\* A row of the ledger changes its checksum in named cases only.
LEMMA RefusedStep ==
  ASSUME IInv, [Next]_vars, NEW n \in Names,
         ledger[n] # None, ledger'[n] # None, ledger'[n] # ledger[n]
  PROVE  \E t \in Terminals : ~At(t, "idle") /\ (n \in stale[t] \/ At(t, "load") \/ spoiled)
<1>1. CASE UNCHANGED vars
  BY <1>1 DEF vars, db
<1>2. ASSUME NEW t \in Terminals, Commit(t)
      PROVE  ~At(t, "idle") /\ (n \in stale[t] \/ At(t, "load") \/ spoiled)
  <2>1. Recorded(t) /\ run[t].pc = "commit" /\ InOrder(run[t]) /\ run[t] \in Command
    BY <1>2 DEF Commit, At, IInv, TypeOK
  <2>2. n = Current(t)
    BY <2>1 DEF Recorded, IInv, TypeOK, Recordings
  <2>3. run[t].pending \in SUBSET Names /\ run[t].pending # {}
    BY <2>1 DEF Command, InOrder
  <2>4. n \in run[t].pending
    BY <2>2, <2>3, First DEF Current
  <2>5. n \notin run[t].known \cup run[t].applied
    BY <2>1, <2>4 DEF InOrder
  <2> QED
    BY <2>1, <2>5 DEF IInv, Seen, Applying, At
<1>3. ASSUME NEW t \in Terminals, Load(t)
      PROVE  ~At(t, "idle") /\ At(t, "load")
  BY <1>3 DEF Load, At
<1>4. ASSUME NEW t \in Terminals, cmdRestore(t)
      PROVE  FALSE
  BY <1>4 DEF cmdRestore, Nothing
<1>5. ASSUME NEW t \in Terminals,
             \/ cmdMigrate(t) \/ ensureTrackingTable(t) \/ appliedMigrations(t)
             \/ applyMigration(t) \/ statusOnly(t) \/ cmdBackup(t)
      PROVE  FALSE
  BY <1>5 DEF cmdMigrate, ensureTrackingTable, appliedMigrations, applyMigration, statusOnly,
              cmdBackup, db
<1>6. CASE Edit
  BY <1>6 DEF Edit, db
<1> QED
  BY <1>1, <1>2, <1>3, <1>4, <1>5, <1>6 DEF Next, Migrate

\* A recorded migration is replaced by an edited one only when two commands
\* read the table before either had applied it, or by a restore, for any number
\* of edits and terminals (planMigrations, cmdMigrate).
THEOREM EditedFilesAlwaysRefused == Spec => EditedFilesRefused
<1>1. IInv /\ [Next]_vars =>
        [\A n \in Names :
           ledger[n] # None /\ ledger'[n] # None /\ ledger'[n] # ledger[n] =>
             \E t \in Terminals : ~At(t, "idle") /\ (n \in stale[t] \/ At(t, "load") \/ spoiled)]_vars
  BY RefusedStep
<1> QED
  BY <1>1, SpecIInv, PTL DEF Spec, EditedFilesRefused
=============================================================================
