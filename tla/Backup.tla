------------------------------- MODULE Backup -------------------------------
(***************************************************************************)
(* The backup daemon (backup/src/server.ts over backup.ts) with the        *)
(* restore command (restore.ts) that an operator runs beside it.           *)
(*                                                                         *)
(* The content of the database is a version, `mixed` while a restore is    *)
(* under way or after one that failed; the content of the object storage   *)
(* is the number of uploads.  A file name is its kind and its time stamp.  *)
(* Sizes, messages, /metrics and the remote side of the off-site command   *)
(* are left out.                                                           *)
(***************************************************************************)
EXTENDS Cron, FiniteSetsExt

CONSTANTS Environments,  \* of the process
          LastMinute,    \* bound on the clock
          MaxDelay,   \* minutes that setTimeout's 2^31 - 1 ms amount to
          Bounds,     \* Bounds[k]: bound on events of kind k
          None

ASSUME EnvironmentsAssumption ==
  \A e \in Environments :
    /\ {"keep", "intervalHours", "cron"} \subseteq DOMAIN e
    /\ {e.mirrorDir, e.offsiteCmd, e.storageDir} \subseteq BOOLEAN
    /\ e.cron # None /\ DOMAIN e.cron = Field => e.cron \in [Field -> Seq(Segment)]
ASSUME EventsAssumption ==
  /\ None \notin Nat
  /\ {LastMinute, MaxDelay} \subseteq Nat
  /\ 0..(LastMinute + Horizon) \subseteq Instant
  /\ Bounds \in [{"write", "restore", "fault", "crash"} -> Nat]

VARIABLES
  config,    \* of the daemon
  clock,     \* minutes
  db, store, \* what there is to back up
  disk, mirror,  \* files in BACKUP_DIR and in the mirror
  plugged,   \* the mirror is there
  timer,     \* the armed timer: when it was set, and for when
  run,       \* runOnce() in flight
  status,    \* of GET /status, while the process is up
  restore,   \* laetoli-restore in flight
  left,      \* left[k]: events of kind k still to come, at most
  made, good, archived \* history: stamps of the dumps begun, of the last one of
                       \* a sound database, and of those with an archive

files == <<disk, mirror>>
content == <<db, store>>
history == <<made, good, archived>>
world == <<config, clock, plugged>>
backupVars == <<world, content, files, timer, run, status, restore, left, history>>

Idle == [pc |-> "idle", stamp |-> None, armed |-> None, snapshot |-> None, archive |-> None]
NoRestore == [pc |-> "idle", dump |-> None, storage |-> FALSE]
Down == [up |-> FALSE, lastRun |-> None, failed |-> FALSE, count |-> 0]
NoTimer == [set |-> 0, at |-> 0]

parseIntOr(n, fallback) == IF n \in Nat \ {0} THEN n ELSE fallback

\* A cron expression comes first; the interval of a daemon without one is daily.
loadConfig(e) ==
  [e EXCEPT !.keep = parseIntOr(e.keep, 14),
            !.intervalHours = IF e.cron # None THEN None ELSE parseIntOr(e.intervalHours, 24)]

InitBackup ==
  /\ config \in {loadConfig(e) : e \in Environments}
  /\ clock = 0
  /\ db = [version |-> 0, mixed |-> FALSE] /\ store = 0
  /\ disk = {} /\ mirror = {} /\ plugged = TRUE
  /\ timer = NoTimer /\ run = Idle /\ status = Down /\ restore = NoRestore
  /\ left = Bounds
  /\ made = {} /\ good = None /\ archived = {}

Event(k) == left[k] > 0 /\ left' = [left EXCEPT ![k] = @ - 1]

-----------------------------------------------------------------------------
(* Files and retention.                                                    *)

File(kind, stamp, whole, of) == [kind |-> kind, stamp |-> stamp, whole |-> whole, of |-> of]

Put(dir, fs) == {f \in dir : \A g \in fs : f.kind # g.kind \/ f.stamp # g.stamp} \cup fs

Kind(dir, kind) == {f \in dir : f.kind = kind}
Named(dir, kind, stamp) == {f \in Kind(dir, kind) : f.stamp = stamp}

Stamps(dir, kind) == {f.stamp : f \in Kind(dir, kind)}

\* Mutant: one more goes.
DeleteOneMore(names, keep) ==
  {s \in names : Cardinality({n \in names : n > s}) >= keep - 1}

\* Names of one kind sort by time stamp.
selectForDeletionMatching(names, keep) ==
  {s \in names : Cardinality({n \in names : n > s}) >= keep}

\* Every unlink succeeds in the model.
pruneDir(dir) ==
  {f \in dir : f.stamp \notin selectForDeletionMatching(Stamps(dir, f.kind), config.keep)}

mirrorTo(artefacts) ==
  IF config.mirrorDir /\ plugged THEN Put(mirror, artefacts) ELSE mirror

-----------------------------------------------------------------------------
(* The daemon.                                                             *)

computeNextRun(from) ==
  IF config.intervalHours # None THEN from + config.intervalHours
  ELSE IF Rejected(config.cron) THEN 0
  ELSE nextRun(parseCron(config.cron), from)

arm(next) == timer' = [set |-> clock, at |-> next]

\* Where parseCron or nextRun throws, the process exits.
Start ==
  /\ ~status.up
  /\ status' = [Down EXCEPT !.up = TRUE, !.count = Cardinality(Kind(disk, "dump"))]
  /\ \E next \in {computeNextRun(clock)} : next # 0 /\ arm(next)
  /\ UNCHANGED <<world, content, files, run, restore, left, history>>

\* A delay beyond setTimeout's range fires at once.
Overflows(t) == t.at - t.set > MaxDelay
TimerDue == status.up /\ timer # NoTimer /\ (clock >= timer.at \/ Overflows(timer))

\* In the model a minute holds one run: the stamps are finer in the code.
CanFire == TimerDue /\ clock \notin made

Fire ==
  /\ CanFire
  /\ timer' = NoTimer
  /\ run' = [Idle EXCEPT !.pc = "dump", !.stamp = clock, !.armed = timer]
  /\ status' = [status EXCEPT !.lastRun = clock]
  /\ disk' = Put(disk, {File("dump", clock, FALSE, db)})
  /\ made' = made \cup {clock}
  /\ UNCHANGED <<world, content, mirror, restore, left, good, archived>>

\* pg_dump takes its snapshot.
Snapshot ==
  /\ run.pc = "dump" /\ run.snapshot = None
  /\ run' = [run EXCEPT !.snapshot = db]
  /\ UNCHANGED <<world, content, files, timer, status, restore, left, history>>

\* Mutant: a failed run is not followed by arm().
SettleUnarmed(dir, failed) ==
  /\ run' = Idle
  /\ status' = [status EXCEPT !.failed = failed, !.count = Cardinality(Kind(dir, "dump"))]
  /\ IF failed THEN UNCHANGED timer ELSE arm(computeNextRun(clock))

\* The end of runOnce(): refreshInventory, then arm, with which the process
\* exits when the expression names no minute any more.
Settle(dir, failed) ==
  /\ run' = Idle
  /\ \E next \in {computeNextRun(clock)} :
       \/ next = 0 /\ status' = Down /\ timer' = NoTimer
       \/ /\ next # 0 /\ arm(next)
          /\ status' = [status EXCEPT !.failed = failed,
                                      !.count = Cardinality(Kind(dir, "dump"))]

\* Retention of both directories.
Prune(dir, copies) ==
  /\ disk' = pruneDir(dir)
  /\ mirror' = IF config.mirrorDir /\ plugged THEN pruneDir(copies) ELSE copies
  /\ Settle(disk', FALSE)

\* (2) and (3): mirror what is whole, then push it, or go on to retention.
Secondary(dir, artefacts) ==
  IF config.offsiteCmd
  THEN /\ disk' = dir /\ mirror' = mirrorTo(artefacts)
       /\ run' = [run EXCEPT !.pc = "offsite"]
       /\ UNCHANGED <<timer, status>>
  ELSE Prune(dir, mirrorTo(artefacts))

DumpSettles ==
  /\ run.pc = "dump" /\ run.snapshot # None
  /\ LET dump == File("dump", run.stamp, TRUE, run.snapshot) IN
     IF config.storageDir
     THEN /\ disk' = Put(disk, {dump, File("archive", run.stamp, FALSE, store)})
          /\ run' = [run EXCEPT !.pc = "archive", !.archive = store]
          /\ UNCHANGED <<mirror, timer, status>>
     ELSE Secondary(Put(disk, {dump}), {dump})
  /\ good' = IF run.snapshot.mixed THEN good ELSE run.stamp
  /\ UNCHANGED <<world, content, restore, left, made, archived>>

\* Mutant: the failure is not recorded.
DumpFailsSilently ==
  /\ run.pc = "dump" /\ Event("fault")
  /\ Settle(disk, FALSE)
  /\ UNCHANGED <<world, content, files, restore, history>>

\* The file that was begun stays.
DumpFails ==
  /\ run.pc = "dump" /\ Event("fault")
  /\ Settle(disk, TRUE)
  /\ UNCHANGED <<world, content, files, restore, history>>

\* tar is done, or has failed; uploads since it began may be in it or not.
ArchiveSettles ==
  /\ run.pc = "archive"
  /\ LET dumps == Named(disk, "dump", run.stamp) IN
     \/ \E bytes \in run.archive..store :
          LET archive == File("archive", run.stamp, TRUE, bytes) IN
          /\ Secondary(Put(disk, {archive}), dumps \cup {archive})
          /\ archived' = archived \cup {run.stamp}
          /\ UNCHANGED left
     \/ /\ Event("fault")
        /\ Secondary(disk, dumps)
        /\ UNCHANGED archived
  /\ UNCHANGED <<world, content, restore, made, good>>

\* Whether the command has failed only shows in the status.
OffsiteSettles ==
  /\ run.pc = "offsite"
  /\ Prune(disk, mirror)
  /\ UNCHANGED <<world, content, restore, left, history>>

DaemonCrash ==
  /\ status.up /\ Event("crash")
  /\ run' = Idle /\ status' = Down /\ timer' = NoTimer
  /\ UNCHANGED <<world, content, files, restore, history>>

-----------------------------------------------------------------------------
(* laetoli-restore --force.                                                *)

latestDump == {f \in Kind(disk, "dump") : \A g \in Kind(disk, "dump") : g.stamp <= f.stamp}

\* --latest or --dump; the dump is there, and with --storage its archive.
runRestore ==
  /\ restore = NoRestore /\ Event("restore")
  /\ \E latest, storage \in BOOLEAN :
       \E f \in IF latest THEN latestDump ELSE Kind(disk, "dump") :
         /\ storage => config.storageDir /\ Named(disk, "archive", f.stamp) # {}
         /\ restore' = [pc |-> "open", dump |-> f, storage |-> storage]
  /\ UNCHANGED <<world, content, files, timer, run, status, history>>

\* psql opens the file, if retention has left it there, and drops everything.
OpenDump ==
  /\ restore.pc = "open"
  /\ \E stamp \in {restore.dump.stamp} :
     \/ /\ Named(disk, "dump", stamp) = {}
        /\ restore' = NoRestore /\ UNCHANGED db
     \/ \E f \in Named(disk, "dump", stamp) :
        /\ restore' = [restore EXCEPT !.pc = "load", !.dump = f]
        /\ db' = [db EXCEPT !.mixed = TRUE]
  /\ UNCHANGED <<world, store, files, timer, run, status, left, history>>

\* gunzip rejects a file that ends early; ON_ERROR_STOP stops psql.
psqlRestore ==
  /\ restore.pc = "load"
  /\ \/ /\ restore.dump.whole
        /\ db' = restore.dump.of
        /\ restore' = IF restore.storage THEN [restore EXCEPT !.pc = "extract"] ELSE NoRestore
        /\ UNCHANGED left
     \/ /\ IF restore.dump.whole THEN Event("fault") ELSE UNCHANGED left
        /\ restore' = NoRestore
        /\ UNCHANGED db
  /\ UNCHANGED <<world, store, files, timer, run, status, history>>

\* tar -x adds to what is there; it fails on an archive that is gone or cut.
extractStorage ==
  /\ restore.pc = "extract"
  /\ restore' = NoRestore
  /\ \/ \E f \in Named(disk, "archive", restore.dump.stamp) :
          f.whole /\ store' = Max({store, f.of})
     \/ UNCHANGED store
  /\ UNCHANGED <<world, db, files, timer, run, status, left, history>>

-----------------------------------------------------------------------------
(* The world.                                                              *)

\* An upload: bytes and row.  Nobody writes to a database being restored.
Write ==
  /\ ~db.mixed /\ Event("write")
  /\ db' = [db EXCEPT !.version = @ + 1]
  /\ store' = Max({store, db'.version})
  /\ UNCHANGED <<world, files, timer, run, status, restore, history>>

\* A timer fires within the minute.
MinutePasses ==
  /\ clock < LastMinute
  /\ ~CanFire
  /\ clock' = clock + 1
  /\ UNCHANGED <<config, plugged, content, files, timer, run, status, restore, left, history>>

\* The mirror drive is pulled, or put back.
Trouble ==
  /\ config.mirrorDir /\ plugged' = ~plugged
  /\ IF plugged THEN Event("fault") ELSE UNCHANGED left
  /\ UNCHANGED <<config, clock, content, files, timer, run, status, restore, history>>

Daemon == Start \/ Fire \/ Snapshot \/ DumpSettles \/ ArchiveSettles \/ OffsiteSettles
OperatorStep == runRestore \/ OpenDump \/ psqlRestore \/ extractStorage
NextBackup == Daemon \/ DumpFails \/ DaemonCrash \/ OperatorStep \/ Write \/ MinutePasses \/ Trouble

SpecBackup == InitBackup /\ [][NextBackup]_backupVars

\* The container restarts a process that is down, node runs what is due, a
\* dump, an archive and a push end, and time passes.
FairSpecBackup == SpecBackup /\ WF_backupVars(Daemon) /\ WF_backupVars(MinutePasses)

-----------------------------------------------------------------------------
(* Properties.                                                             *)

OnDisk(kind, stamp) == \E f \in Named(disk, kind, stamp) : f.whole

\* The last dump of a database that was whole stays restorable, by dumps that
\* fail, crashes, retention and restores, until BACKUP_KEEP dumps were begun
\* after it (retention of runOnce() against the partial files of failed runs).
GoodDumpsOutlast ==
  good # None =>
    \/ \E f \in Named(disk, "dump", good) : f.whole /\ ~f.of.mixed
    \/ Cardinality({s \in made : s > good}) >= config.keep

\* `--latest --storage`, and any kept dump: an archive that was completed with
\* a dump is there as long as the dump is, and has the bytes of every upload
\* the dump has a row of (archives are taken after dumps, pruned separately).
KeptDumpsHaveArchives ==
  \A f \in Kind(disk, "dump") :
    f.whole /\ f.stamp \in archived =>
      \E a \in Named(disk, "archive", f.stamp) : a.whole /\ a.of >= f.of.version

\* What retention (selectForDeletionMatching, run once for dumps and once for
\* archives) leaves can be restored: dump, and uploads with it.
RetentionSound == GoodDumpsOutlast /\ KeptDumpsHaveArchives

\* What GET /status says between runs is so: no error means that the last run
\* left a whole dump, an error that it left none.
StatusTruthful ==
  status.up /\ run = Idle /\ status.lastRun # None =>
    status.failed <=> ~OnDisk("dump", status.lastRun)

\* A value as crontab(5) words it: some segment of the text covers it.
Covers(seg, v, name) ==
  \/ seg.base = "star" /\ (v - Lowest[name]) % seg.step = 0
  \/ seg.base = "value" /\ v = seg.from
  \/ seg.base = "range" /\ v >= seg.from /\ v <= seg.to /\ (v - seg.from) % seg.step = 0

Covered(name, t) ==
  \E i \in DOMAIN config.cron[name] :
    \E v \in {Calendar[t][name]} \cup (IF name = "dow" /\ Calendar[t][name] = 0 THEN {7} ELSE {}) :
      Covers(config.cron[name][i], v, name)

Planned(t) ==
  /\ \A name \in {"month", "hour", "minute"} : Covered(name, t)
  /\ IF config.cron["dom"] # Star /\ config.cron["dow"] # Star
     THEN Covered("dom", t) \/ Covered("dow", t)
     ELSE Covered("dom", t) /\ Covered("dow", t)

\* In cron mode a dump starts in a minute the expression names, and no such
\* minute passes while the daemon waits.  Excepted are waits that setTimeout
\* cannot express.
OnSchedule ==
  config.intervalHours = None =>
    /\ run.pc # "idle" => Planned(run.stamp) \/ Overflows(run.armed)
    /\ timer # NoTimer => \A t \in (timer.set + 1)..(clock - 1) : ~Planned(t)

\* A daemon that stays up does not lose its timer, whatever became of the run
\* before, and what is armed is run: it goes on to the end of the model's time.
DumpsGoOn ==
  (status.up /\ timer.at <= LastMinute) ~> (~status.up \/ timer.at > LastMinute)
=============================================================================
