--------------------------- MODULE DaemonProofs ---------------------------
(***************************************************************************)
(* Proofs about the two processes that run by a clock.  Backup, for every  *)
(* environment, calendar and number of uploads, restores, failures and     *)
(* crashes: retention leaves what can be restored, the status is true, and *)
(* dumps start on schedule.  Scheduler, for every number of jobs, cron     *)
(* strings, instants, edits, run-now requests and faults: no instant is    *)
(* executed twice, and nothing but a cron round moves next_run, forwards.  *)
(***************************************************************************)
EXTENDS Scheduler, Backup, FiniteSetTheorems, WellFoundedInduction, TLAPS

-----------------------------------------------------------------------------
(* Lemmas about the cron expressions.                                      *)

\* A set of minutes that is not empty has a first one.
LEMMA FirstMinute ==
  ASSUME NEW S \in SUBSET Nat, S # {}
  PROVE  \E n \in S : \A k \in S : n <= k
<1> DEFINE R == {ss \in Nat \X Nat : ss[1] < ss[2]}
<1>1. OpToRel(<, Nat) = R
  BY Zenon DEF OpToRel
<1>2. IsWellFoundedOn(R, Nat)
  BY <1>1, NatLessThanWellFounded
<1> HIDE DEF R
<1>3. PICK n \in S : \A k \in S : ~(<<k, n>> \in R)
  BY <1>2, WFMin
<1>4. ASSUME NEW k \in S
      PROVE  n <= k
  <2>1. k \in Nat /\ n \in Nat
    OBVIOUS
  <2>2. k < n => <<k, n>> \in R
    BY <2>1 DEF R
  <2> QED
    BY <1>3, <2>1, <2>2
<1> QED
  BY <1>4

\* nextRun returns the first minute after the one it is given that matches.
LEMMA NextRunFirst ==
  ASSUME NEW fields, NEW from \in Nat, nextRun(fields, from) # 0
  PROVE  /\ nextRun(fields, from) \in (from + 1)..(from + Horizon)
         /\ FieldsMatch(fields, nextRun(fields, from))
         /\ \A u \in (from + 1)..(nextRun(fields, from) - 1) : ~FieldsMatch(fields, u)
<1> DEFINE minutes == (from + 1)..(from + Horizon)
           hits == {t \in minutes : FieldsMatch(fields, t)}
           First(t) == /\ FieldsMatch(fields, t)
                       /\ \A u \in (from + 1)..(t - 1) : ~FieldsMatch(fields, u)
<1>1. hits # {}
  BY DEF nextRun
<1>2. nextRun(fields, from) = CHOOSE t \in minutes : First(t)
  BY <1>1 DEF nextRun
<1>3. hits \in SUBSET Nat
  OBVIOUS
<1>4. PICK n \in hits : \A k \in hits : n <= k
  <2> HIDE DEF hits
  <2> QED
    BY <1>1, <1>3, FirstMinute
<1>5. First(n)
  <2> SUFFICES ASSUME NEW u \in (from + 1)..(n - 1), FieldsMatch(fields, u)
               PROVE  FALSE
    OBVIOUS
  <2>1. n \in minutes /\ u \in minutes /\ u < n
    BY CalendarAssumption
  <2>2. u \in hits
    BY <2>1
  <2> QED
    BY <1>4, <2>1, <2>2
<1>6. n \in minutes
  OBVIOUS
<1> HIDE DEF First, minutes, hits
<1>7. nextRun(fields, from) \in minutes /\ First(nextRun(fields, from))
  BY <1>2, <1>5, <1>6
<1> QED
  BY <1>7 DEF First, minutes

\* What a segment that is accepted stands for is what its text covers.
LEMMA SegmentMeans ==
  ASSUME NEW name \in Field, NEW seg \in Segment, ~SegmentFails(seg, name),
         NEW v \in Lowest[name]..Highest[name]
  PROVE  (\E w \in SegmentValues(seg, name) : Normal(w, name) = v)
           <=> \E w \in {v} \cup (IF name = "dow" /\ v = 0 THEN {7} ELSE {}) :
                 Covers(seg, w, name)
<1> DEFINE other == IF name = "dow" /\ v = 0 THEN {7} ELSE {}
<1>1. seg.step \in Int /\ seg.step > 0
  BY DEF SegmentFails, Segment
<1>2. Lowest[name] \in Nat /\ Highest[name] \in Nat /\ v \in Nat
  BY RangesAssumption
<1>3. seg.base = "star" \/ seg.base = "value" \/ seg.base = "range"
  BY DEF Segment
<1>4. CASE seg.base = "star"
  <2>1. SegmentValues(seg, name) =
          {w \in Lowest[name]..Highest[name] : (w - Lowest[name]) % seg.step = 0}
    BY <1>4 DEF SegmentValues
  <2>2. \A w \in Lowest[name]..Highest[name] : Normal(w, name) = w
    BY <1>2, RangesAssumption DEF Normal
  <2>3. \A w : Covers(seg, w, name) <=> (w - Lowest[name]) % seg.step = 0
    BY <1>4 DEF Covers
  <2>4. name = "dow" /\ v = 0 => (v - Lowest[name]) % seg.step = 0
    BY <1>1, RangesAssumption
  <2> HIDE DEF other
  <2>5. (\E w \in SegmentValues(seg, name) : Normal(w, name) = v)
          <=> (v - Lowest[name]) % seg.step = 0
    BY <2>1, <2>2
  <2>6. (\E w \in {v} \cup other : Covers(seg, w, name)) <=> (v - Lowest[name]) % seg.step = 0
    BY <2>3, <2>4 DEF other
  <2> QED
    BY <2>5, <2>6 DEF other
<1>5. CASE seg.base = "value"
  <2>1. seg.from \in Int
    BY <1>5 DEF SegmentFails, Segment
  <2>2. SegmentValues(seg, name) = {seg.from}
    <3>1. (seg.from - seg.from) % seg.step = 0
      BY <1>1, <2>1
    <3>2. SegmentValues(seg, name) = {w \in seg.from..seg.from : (w - seg.from) % seg.step = 0}
      BY <1>5 DEF SegmentValues
    <3>3. seg.from..seg.from = {seg.from}
      BY <2>1
    <3> QED
      BY <3>1, <3>2, <3>3
  <2>3. \A w : Covers(seg, w, name) <=> w = seg.from
    BY <1>5 DEF Covers
  <2> QED
    BY <1>2, <2>1, <2>2, <2>3, RangesAssumption DEF Normal
<1>6. CASE seg.base = "range"
  <2>1. seg.from \in Int /\ seg.to \in Int
    BY <1>6 DEF SegmentFails, Segment
  <2>2. SegmentValues(seg, name) = {w \in seg.from..seg.to : (w - seg.from) % seg.step = 0}
    BY <1>6 DEF SegmentValues
  <2>3. \A w \in Int : Covers(seg, w, name) <=> w \in SegmentValues(seg, name)
    BY <1>6, <2>1, <2>2 DEF Covers
  <2>4. \A w \in SegmentValues(seg, name) : w \in Int
    BY <2>1, <2>2
  <2> QED
    BY <1>2, <2>3, <2>4, RangesAssumption DEF Normal
<1> QED
  BY <1>3, <1>4, <1>5, <1>6

LEMMA FieldMeans ==
  ASSUME NEW name \in Field, NEW t \in Instant, config.cron \in [Field -> Seq(Segment)],
         ~FieldFails(config.cron[name], name)
  PROVE  Calendar[t][name] \in parseField(config.cron[name], name) <=> Covered(name, t)
<1> DEFINE raw == config.cron[name]
           v == Calendar[t][name]
<1>1. v \in Lowest[name]..Highest[name]
  BY CalendarAssumption
<1>2. raw \in Seq(Segment)
  OBVIOUS
<1>3. \A i \in DOMAIN raw : raw[i] \in Segment /\ ~SegmentFails(raw[i], name)
  BY <1>2 DEF FieldFails
<1> HIDE DEF v
<1>4. v \in parseField(raw, name)
        <=> \E i \in DOMAIN raw : \E w \in SegmentValues(raw[i], name) : Normal(w, name) = v
  BY DEF parseField
<1>5. Covered(name, t)
        <=> \E i \in DOMAIN raw :
              \E w \in {v} \cup (IF name = "dow" /\ v = 0 THEN {7} ELSE {}) :
                Covers(raw[i], w, name)
  BY DEF Covered, v
<1> HIDE DEF raw
<1>6. \A i \in DOMAIN raw :
        (\E w \in SegmentValues(raw[i], name) : Normal(w, name) = v)
           <=> \E w \in {v} \cup (IF name = "dow" /\ v = 0 THEN {7} ELSE {}) :
                 Covers(raw[i], w, name)
  BY <1>1, <1>3, SegmentMeans
<1>7. v \in parseField(raw, name) <=> Covered(name, t)
  BY <1>4, <1>5, <1>6
<1> QED
  BY <1>7 DEF raw, v

\* An expression that is accepted matches the minutes it names.
LEMMA PlannedMatches ==
  ASSUME config.cron \in [Field -> Seq(Segment)], ~Rejected(config.cron), NEW t \in Instant
  PROVE  FieldsMatch(parseCron(config.cron), t) <=> Planned(t)
<1>1. \A name \in Field :
        Calendar[t][name] \in parseField(config.cron[name], name) <=> Covered(name, t)
  BY FieldMeans DEF Rejected
<1>2. \A name \in Field : parseCron(config.cron).values[name] = parseField(config.cron[name], name)
  BY DEF parseCron
<1>3. \A name \in Field :
        Calendar[t][name] \in parseCron(config.cron).values[name] <=> Covered(name, t)
  BY <1>1, <1>2
<1>4. \A name \in {"minute", "hour", "dom", "month", "dow"} : name \in Field
  BY DEF Field
<1>5. \A name \in Field : config.cron[name] = Star => Covered(name, t)
  <2> SUFFICES ASSUME NEW name \in Field, config.cron[name] = Star
               PROVE  Covered(name, t)
    OBVIOUS
  <2>1. 1 \in DOMAIN config.cron[name] /\ config.cron[name][1].base = "star"
        /\ config.cron[name][1].step = 1
    BY DEF Star
  <2>2. Calendar[t][name] \in Nat /\ Lowest[name] \in Nat
    BY RangesAssumption, CalendarAssumption
  <2>3. (Calendar[t][name] - Lowest[name]) % 1 = 0
    BY <2>2
  <2>4. Covers(config.cron[name][1], Calendar[t][name], name)
    BY <2>1, <2>3 DEF Covers
  <2> QED
    BY <2>1, <2>4 DEF Covered
<1>6. /\ parseCron(config.cron).domRestricted <=> config.cron["dom"] # Star
      /\ parseCron(config.cron).dowRestricted <=> config.cron["dow"] # Star
  BY DEF parseCron
<1> DEFINE fields == parseCron(config.cron)
<1>7. dayMatches(fields, Calendar[t])
        <=> IF config.cron["dom"] # Star /\ config.cron["dow"] # Star
            THEN Covered("dom", t) \/ Covered("dow", t)
            ELSE Covered("dom", t) /\ Covered("dow", t)
  BY <1>3, <1>4, <1>5, <1>6, Zenon DEF dayMatches
<1>8. (\A name \in {"month", "hour", "minute"} : Calendar[t][name] \in fields.values[name])
        <=> \A name \in {"month", "hour", "minute"} : Covered(name, t)
  BY <1>3, <1>4, Zenon
<1> QED
  BY <1>7, <1>8, Zenon DEF FieldsMatch, Planned

-----------------------------------------------------------------------------
(***************************************************************************)
(* The inductive invariant.  Directory speaks of the files of BACKUP_DIR:  *)
(* of each kind one per stamp, and no dump is gone that is younger than    *)
(* one that is there, which is what keeps the two retentions in step.      *)
(***************************************************************************)
Version == [version : Nat, mixed : BOOLEAN]
DumpFile == [kind : {"dump"}, stamp : Nat, whole : BOOLEAN, of : Version]
ArchiveFile == [kind : {"archive"}, stamp : Nat, whole : BOOLEAN, of : Nat]

ConfigTyped ==
  /\ config.keep \in Nat \ {0}
  /\ IF config.intervalHours = None
     THEN DOMAIN config.cron = Field => config.cron \in [Field -> Seq(Segment)]
     ELSE config.intervalHours \in Nat \ {0}

ContentTyped ==
  /\ clock \in 0..LastMinute
  /\ db \in Version /\ store \in Nat /\ db.version <= store
  /\ DOMAIN restore = DOMAIN NoRestore
  /\ restore.pc \in {"open", "load", "extract"} =>
       restore.dump \in DumpFile /\ restore.dump.of.version <= store

Directory(dir, begun, bytes) ==
  /\ dir \subseteq DumpFile \cup ArchiveFile
  /\ \A f, g \in dir : f.kind = g.kind /\ f.stamp = g.stamp => f = g
  /\ \A f \in dir : f.stamp \in begun
  /\ \A f \in dir : f.kind = "dump" => f.of.version <= bytes
  /\ \A f \in dir, s \in begun :
       f.kind = "dump" /\ s > f.stamp => \E g \in dir : g.kind = "dump" /\ g.stamp = s

\* RetentionSound, of any directory and any history.
GoodOutlasts(dir, begun, sound) ==
  sound # None =>
    \/ \E f \in Named(dir, "dump", sound) : f.whole /\ ~f.of.mixed
    \/ Cardinality({s \in begun : s > sound}) >= config.keep

HaveArchives(dir, complete) ==
  \A f \in dir : f.kind = "dump" /\ f.whole /\ f.stamp \in complete =>
    \E a \in Named(dir, "archive", f.stamp) : a.whole /\ a.of >= f.of.version

Kept(dir, begun, bytes, sound, complete) ==
  /\ Directory(dir, begun, bytes)
  /\ GoodOutlasts(dir, begun, sound)
  /\ HaveArchives(dir, complete)

HistoryTyped ==
  /\ made \subseteq 0..clock
  /\ good \in made \cup {None}
  /\ archived \subseteq made

Newest(s) == s \in made /\ \A n \in made : n <= s
DumpWhole(s) == \E f \in disk : f.kind = "dump" /\ f.stamp = s /\ f.whole

\* A run in flight is the last one begun.
InFlightRun ==
  /\ DOMAIN run = DOMAIN Idle
  /\ run.pc \in {"idle", "dump", "archive", "offsite"}
  /\ run.pc # "idle" =>
       /\ Newest(run.stamp) /\ status.lastRun = run.stamp
       /\ status.up /\ timer = NoTimer
  /\ run.pc = "dump" =>
       /\ run.stamp # good /\ ~DumpWhole(run.stamp)
       /\ run.snapshot # None => run.snapshot \in Version /\ run.snapshot.version <= store
  /\ run.pc \in {"dump", "archive"} => run.stamp \notin archived
  /\ run.pc \in {"archive", "offsite"} => DumpWhole(run.stamp)
  /\ run.pc = "archive" =>
       /\ run.archive \in Nat
       /\ \A f \in disk : f.kind = "dump" /\ f.stamp = run.stamp => f.of.version <= run.archive

StatusKept ==
  /\ DOMAIN status = DOMAIN Down
  /\ timer # NoTimer => status.up
  /\ status.up /\ status.lastRun # None => Newest(status.lastRun)
  /\ run.pc = "idle" /\ status.up /\ status.lastRun # None =>
       (status.failed <=> ~DumpWhole(status.lastRun))

\* The timer is armed once a run is over, for what computeNextRun returns, and
\* the clock does not go past it.
TimerKept ==
  timer # NoTimer =>
    /\ timer.set \in 0..clock /\ \A s \in made : s <= timer.set
    /\ timer.at = computeNextRun(timer.set) /\ timer.at \in Nat /\ timer.at > timer.set
    /\ IF Overflows(timer) THEN clock <= timer.set + 1 ELSE clock <= timer.at

RunPlanned ==
  config.intervalHours = None /\ run.pc # "idle" => Planned(run.stamp) \/ Overflows(run.armed)

BackupInv ==
  /\ ConfigTyped /\ ContentTyped /\ HistoryTyped
  /\ Kept(disk, made, store, good, archived)
  /\ InFlightRun /\ StatusKept /\ TimerKept /\ RunPlanned

-----------------------------------------------------------------------------
(* Lemmas about files and retention.                                       *)

LEMMA BegunFinite ==
  ASSUME HistoryTyped, ContentTyped
  PROVE  made \in SUBSET Nat /\ IsFiniteSet(made)
<1>1. 0..clock \subseteq Nat /\ IsFiniteSet(0..clock)
  BY FS_Interval DEF ContentTyped
<1> QED
  BY <1>1, FS_Subset DEF HistoryTyped

LEMMA PutHas ==
  ASSUME NEW dir, NEW fs, NEW f
  PROVE  f \in Put(dir, fs)
           <=> f \in fs \/ (f \in dir /\ \A g \in fs : f.kind # g.kind \/ f.stamp # g.stamp)
BY DEF Put

\* One more file that has at least `keep` younger ones among those begun.
LEMMA YoungerBegun ==
  ASSUME NEW begun \in SUBSET Nat, IsFiniteSet(begun), NEW names \in SUBSET begun,
         NEW s \in Nat, config.keep \in Nat,
         Cardinality({n \in names : n > s}) >= config.keep
  PROVE  Cardinality({n \in begun : n > s}) >= config.keep
<1> DEFINE some == {n \in names : n > s}
           all == {n \in begun : n > s}
<1>1. some \subseteq all /\ IsFiniteSet(all)
  BY FS_Subset
<1> HIDE DEF some, all
<1>2. Cardinality(some) <= Cardinality(all) /\ IsFiniteSet(some)
  BY <1>1, FS_Subset
<1>3. Cardinality(some) \in Nat /\ Cardinality(all) \in Nat
  BY <1>1, <1>2, FS_CardinalityType
<1> QED
  BY <1>2, <1>3 DEF some, all

\* What retention leaves is a directory as before, with the younger of its files.
LEMMA PruneHas ==
  ASSUME NEW dir, NEW f
  PROVE  f \in pruneDir(dir)
           <=> f \in dir /\ ~ (f.stamp \in Stamps(dir, f.kind) /\
                 Cardinality({n \in Stamps(dir, f.kind) : n > f.stamp}) >= config.keep)
BY DEF pruneDir, selectForDeletionMatching

LEMMA StampsHas ==
  ASSUME NEW dir, NEW kind, NEW s
  PROVE  s \in Stamps(dir, kind) <=> \E f \in dir : f.kind = kind /\ f.stamp = s
BY DEF Stamps, Kind

\* A file goes only if there are BACKUP_KEEP younger ones of its kind.
LEMMA PrunedWhen ==
  ASSUME NEW dir, NEW f \in dir
  PROVE  f \in pruneDir(dir)
           <=> ~(Cardinality({n \in Stamps(dir, f.kind) : n > f.stamp}) >= config.keep)
<1>1. f.stamp \in Stamps(dir, f.kind)
  BY DEF Stamps, Kind
<1> QED
  BY <1>1, Zenon DEF pruneDir, selectForDeletionMatching

LEMMA PruneKeepsNewest ==
  ASSUME NEW dir, NEW f \in dir, config.keep \in Nat \ {0},
         \A g \in dir : g.stamp \in Nat /\ g.stamp <= f.stamp
  PROVE  f \in pruneDir(dir)
<1> DEFINE younger == {n \in Stamps(dir, f.kind) : n > f.stamp}
<1>1. ASSUME NEW n \in Stamps(dir, f.kind), n > f.stamp
      PROVE  FALSE
  <2>1. PICK g \in dir : g.stamp = n
    BY DEF Stamps, Kind
  <2>2. n \in Nat /\ f.stamp \in Nat /\ n <= f.stamp
    BY <2>1
  <2> QED
    BY <1>1, <2>2
<1>2. younger = {}
  BY <1>1
<1> HIDE DEF younger
<1>3. Cardinality(younger) = 0
  BY <1>2, FS_EmptySet
<1>4. ~(Cardinality(younger) >= config.keep)
  BY <1>3
<1> QED
  BY <1>4, PrunedWhen, Zenon DEF younger

LEMMA PruneKeeps ==
  ASSUME NEW dir, NEW begun \in SUBSET Nat, IsFiniteSet(begun), NEW bytes, NEW sound, NEW complete,
         config.keep \in Nat \ {0}, sound # None => sound \in Nat,
         Kept(dir, begun, bytes, sound, complete)
  PROVE  Kept(pruneDir(dir), begun, bytes, sound, complete)
<1> DEFINE Young(kind, s) == {n \in Stamps(dir, kind) : n > s}
<1>1. \A f \in pruneDir(dir) : f \in dir
  BY PruneHas
<1>2. \A f \in dir : f.stamp \in begun /\ f.stamp \in Nat
  BY DEF Kept, Directory
<1>3. \A kind : Stamps(dir, kind) \subseteq begun /\ IsFiniteSet(Stamps(dir, kind))
  <2>1. ASSUME NEW kind
        PROVE  Stamps(dir, kind) \subseteq begun
    <3>1. \A f \in dir : f.stamp \in begun
      BY <1>2
    <3> QED
      BY <3>1, Zenon DEF Stamps, Kind
  <2> QED
    BY <2>1, FS_Subset
<1>4. \A kind, s : IsFiniteSet(Young(kind, s)) /\ Cardinality(Young(kind, s)) \in Nat
  <2> TAKE kind, s
  <2>1. Young(kind, s) \subseteq Stamps(dir, kind)
    OBVIOUS
  <2> HIDE DEF Young
  <2> QED
    BY <1>3, <2>1, FS_Subset, FS_CardinalityType
<1>5. \A f \in dir : f \notin pruneDir(dir) <=> Cardinality(Young(f.kind, f.stamp)) >= config.keep
  BY PrunedWhen
<1>6. ASSUME NEW f \in dir, f \notin pruneDir(dir), NEW s \in Nat, NEW kind,
             Young(f.kind, f.stamp) \subseteq Young(kind, s)
      PROVE  Cardinality(Young(kind, s)) >= config.keep
  <2> HIDE DEF Young
  <2>1. Cardinality(Young(f.kind, f.stamp)) <= Cardinality(Young(kind, s))
    BY <1>4, <1>6, FS_Subset
  <2> QED
    BY <1>4, <1>5, <1>6, <2>1
<1> HIDE DEF Young
<1>7. Directory(pruneDir(dir), begun, bytes)
  <2>1. ASSUME NEW f \in pruneDir(dir), NEW s \in begun, f.kind = "dump", s > f.stamp
        PROVE  \E g \in pruneDir(dir) : g.kind = "dump" /\ g.stamp = s
    <3>1. PICK g \in dir : g.kind = "dump" /\ g.stamp = s
      BY <1>1, <2>1 DEF Kept, Directory
    <3>2. f \in dir /\ f.stamp \in Nat /\ s \in Nat
      BY <1>1, <1>2
    <3>3. \A n \in Nat : n > s => n > f.stamp
      BY <2>1, <3>2
    <3>4. Stamps(dir, "dump") \subseteq Nat
      BY <1>3
    <3>5. Young("dump", s) \subseteq Young("dump", f.stamp)
      BY <3>3, <3>4 DEF Young
    <3>6. g \notin pruneDir(dir) => Cardinality(Young("dump", f.stamp)) >= config.keep
      BY <1>6, <3>1, <3>2, <3>5
    <3>7. f \notin pruneDir(dir) <=> Cardinality(Young("dump", f.stamp)) >= config.keep
      BY <1>5, <2>1, <3>2
    <3> QED
      BY <2>1, <3>1, <3>6, <3>7
  <2> QED
    BY <1>1, <2>1 DEF Kept, Directory
<1>8. GoodOutlasts(pruneDir(dir), begun, sound)
  <2> SUFFICES ASSUME sound # None,
                      NEW f \in Named(dir, "dump", sound), f.whole, ~f.of.mixed,
                      f \notin pruneDir(dir)
               PROVE  Cardinality({s \in begun : s > sound}) >= config.keep
    BY DEF GoodOutlasts, Kept, Named, Kind
  <2>1. f \in dir /\ f.kind = "dump" /\ f.stamp = sound
    BY DEF Named, Kind
  <2>2. Cardinality({n \in Stamps(dir, "dump") : n > sound}) >= config.keep
    BY <1>5, <2>1 DEF Young
  <2> QED
    BY <1>3, <2>2, YoungerBegun
<1>9. HaveArchives(pruneDir(dir), complete)
  <2> SUFFICES ASSUME NEW f \in pruneDir(dir), f.kind = "dump", f.whole, f.stamp \in complete
               PROVE  \E a \in Named(pruneDir(dir), "archive", f.stamp) :
                        a.whole /\ a.of >= f.of.version
    BY DEF HaveArchives
  <2>1. PICK a \in Named(dir, "archive", f.stamp) : a.whole /\ a.of >= f.of.version
    BY <1>1 DEF Kept, HaveArchives
  <2>2. a \in dir /\ a.kind = "archive" /\ a.stamp = f.stamp
    BY DEF Named, Kind
  <2>3. Young("archive", f.stamp) \subseteq Young("dump", f.stamp)
    <3> SUFFICES ASSUME NEW n \in Stamps(dir, "archive"), n > f.stamp
                 PROVE  n \in Stamps(dir, "dump")
      BY DEF Young
    <3>1. n \in begun
      BY <1>3
    <3> QED
      BY <1>1, <3>1, StampsHas DEF Kept, Directory
  <2>4. f \in dir /\ f.stamp \in Nat
    BY <1>1, <1>2
  <2>5. a \in pruneDir(dir)
    <3>1. a \notin pruneDir(dir) => Cardinality(Young("dump", f.stamp)) >= config.keep
      BY <1>6, <2>2, <2>3, <2>4
    <3> QED
      BY <1>5, <2>4, <3>1
  <2> QED
    BY <2>1, <2>2, <2>5 DEF Named, Kind
<1> QED
  BY <1>7, <1>8, <1>9 DEF Kept

LEMMA YoungerMonotone ==
  ASSUME NEW begun \in SUBSET Nat, IsFiniteSet(begun), NEW c \in Nat, NEW s \in Nat,
         config.keep \in Nat, Cardinality({n \in begun : n > s}) >= config.keep
  PROVE  Cardinality({n \in begun \cup {c} : n > s}) >= config.keep
<1>1. IsFiniteSet(begun \cup {c})
  BY FS_AddElement
<1>2. begun \cup {c} \in SUBSET Nat /\ begun \subseteq begun \cup {c}
  OBVIOUS
<1> QED
  BY <1>1, <1>2, YoungerBegun

\* runOnce() begins a file.
LEMMA BeginKeeps ==
  ASSUME NEW dir, NEW begun \in SUBSET Nat, IsFiniteSet(begun), NEW bytes \in Nat, NEW sound,
         NEW complete \in SUBSET begun, NEW c \in Nat, NEW v \in Version, v.version <= bytes,
         config.keep \in Nat, sound # None => sound \in begun, \A s \in begun : s < c,
         Kept(dir, begun, bytes, sound, complete)
  PROVE  Kept(Put(dir, {File("dump", c, FALSE, v)}), begun \cup {c}, bytes, sound, complete)
<1> DEFINE d == File("dump", c, FALSE, v)
           new == Put(dir, {d})
           all == begun \cup {c}
<1>1. d.kind = "dump" /\ d.stamp = c /\ d.whole = FALSE /\ d.of = v /\ d \in DumpFile
  BY DEF File, DumpFile
<1> HIDE DEF d
<1>2. \A f \in dir : f.stamp \in begun /\ f.stamp < c
  BY DEF Kept, Directory
<1>3. \A f : f \in new <=> f \in dir \/ f = d
  BY <1>1, <1>2, PutHas
<1> HIDE DEF new
<1>4. Directory(new, all, bytes)
  <2>1. new \subseteq DumpFile \cup ArchiveFile
    BY <1>1, <1>3 DEF Kept, Directory
  <2>2. \A f, g \in new : f.kind = g.kind /\ f.stamp = g.stamp => f = g
    BY <1>1, <1>2, <1>3 DEF Kept, Directory
  <2>3. \A f \in new : f.stamp \in all
    BY <1>1, <1>2, <1>3
  <2>4. \A f \in new : f.kind = "dump" => f.of.version <= bytes
    BY <1>1, <1>3 DEF Kept, Directory
  <2>5. ASSUME NEW f \in new, NEW s \in all, f.kind = "dump", s > f.stamp
        PROVE  \E g \in new : g.kind = "dump" /\ g.stamp = s
    <3>1. CASE s = c
      BY <1>1, <1>3, <3>1
    <3>2. CASE s # c
      <4>1. s \in begun /\ s < c /\ s \in Nat
        BY <3>2
      <4>2. f \in dir
        BY <1>1, <1>3, <2>5, <4>1
      <4>3. \E g \in dir : g.kind = "dump" /\ g.stamp = s
        BY <2>5, <4>1, <4>2 DEF Kept, Directory
      <4> QED
        BY <1>3, <4>3
    <3> QED
      BY <3>1, <3>2
  <2> QED
    BY <2>1, <2>2, <2>3, <2>4, <2>5 DEF Directory
<1>5. GoodOutlasts(new, all, sound)
  <2> SUFFICES ASSUME sound # None
               PROVE  \/ \E f \in Named(new, "dump", sound) : f.whole /\ ~f.of.mixed
                      \/ Cardinality({s \in all : s > sound}) >= config.keep
    BY DEF GoodOutlasts
  <2>1. CASE \E f \in Named(dir, "dump", sound) : f.whole /\ ~f.of.mixed
    BY <1>3, <2>1 DEF Named, Kind
  <2>2. CASE Cardinality({s \in begun : s > sound}) >= config.keep
    <3>1. sound \in Nat
      OBVIOUS
    <3> QED
      BY <2>2, <3>1, YoungerMonotone
  <2> QED
    BY <2>1, <2>2 DEF Kept, GoodOutlasts
<1>6. HaveArchives(new, complete)
  BY <1>1, <1>3, Zenon DEF Kept, HaveArchives, Named, Kind
<1> QED
  BY <1>4, <1>5, <1>6 DEF Kept, d, new, all

\* A dump is complete; its archive, if there is to be one, is begun.
LEMMA DumpKeeps ==
  ASSUME NEW dir, NEW begun \in SUBSET Nat, NEW bytes \in Nat, NEW sound, NEW complete,
         NEW s \in begun, NEW v \in Version, v.version <= bytes,
         \A n \in begun : n <= s, s \notin complete, s # sound,
         Kept(dir, begun, bytes, sound, complete),
         NEW fs, \A f : f \in fs => f = File("dump", s, TRUE, v)
                                   \/ \E n \in Nat : f = File("archive", s, FALSE, n),
         \A f, g \in fs : f.kind = g.kind => f = g,
         File("dump", s, TRUE, v) \in fs
  PROVE  Kept(Put(dir, fs), begun, bytes, IF v.mixed THEN sound ELSE s, complete)
<1> DEFINE d == File("dump", s, TRUE, v)
           new == Put(dir, fs)
<1>1. d.kind = "dump" /\ d.stamp = s /\ d.whole = TRUE /\ d.of = v /\ d \in DumpFile /\ d \in fs
  BY DEF File, DumpFile
<1>2. \A f \in fs : /\ f.stamp = s /\ f \in DumpFile \cup ArchiveFile
                    /\ f.kind = "dump" => f = d
  <2>1. \A n \in Nat : /\ File("archive", s, FALSE, n) \in ArchiveFile
                       /\ File("archive", s, FALSE, n).stamp = s
                       /\ File("archive", s, FALSE, n).kind = "archive"
    BY DEF File, ArchiveFile
  <2> SUFFICES ASSUME NEW f \in fs
               PROVE  /\ f.stamp = s /\ f \in DumpFile \cup ArchiveFile
                      /\ f.kind = "dump" => f = d
    OBVIOUS
  <2>2. CASE f = d
    BY <1>1, <2>2
  <2>3. CASE \E n \in Nat : f = File("archive", s, FALSE, n)
    BY <2>1, <2>3
  <2> QED
    BY <2>2, <2>3
<1> HIDE DEF d
<1>3. \A f : f \in new
        <=> f \in fs \/ (f \in dir /\ \A g \in fs : f.kind # g.kind \/ f.stamp # g.stamp)
  BY PutHas
<1> HIDE DEF new
<1>4. \A f \in dir : f.stamp # s => f \in new
  BY <1>2, <1>3
<1>5. \A f \in new : f.kind = "dump" => f = d \/ (f \in dir /\ f.stamp # s)
  BY <1>1, <1>2, <1>3
<1>6. d \in new
  BY <1>1, <1>3
<1>7. \A f \in new : f \in fs \/ f \in dir
  BY <1>3
<1>8. Directory(new, begun, bytes)
  <2>1. new \subseteq DumpFile \cup ArchiveFile
    BY <1>2, <1>7 DEF Kept, Directory
  <2>2. \A f, g \in new : f.kind = g.kind /\ f.stamp = g.stamp => f = g
    <3> SUFFICES ASSUME NEW f \in new, NEW g \in new, f.kind = g.kind, f.stamp = g.stamp
                 PROVE  f = g
      OBVIOUS
    <3>1. CASE f \in fs /\ g \in fs
      BY <3>1
    <3>2. CASE f \in dir /\ g \in dir
      BY <3>2 DEF Kept, Directory
    <3>3. CASE f \in fs /\ g \notin fs
      BY <1>3, <3>3
    <3>4. CASE f \notin fs /\ g \in fs
      BY <1>3, <3>4
    <3> QED
      BY <1>7, <3>1, <3>2, <3>3, <3>4
  <2>3. \A f \in new : f.stamp \in begun
    BY <1>2, <1>7 DEF Kept, Directory
  <2>4. \A f \in new : f.kind = "dump" => f.of.version <= bytes
    BY <1>1, <1>5 DEF Kept, Directory
  <2>5. ASSUME NEW f \in new, NEW n \in begun, f.kind = "dump", n > f.stamp
        PROVE  \E g \in new : g.kind = "dump" /\ g.stamp = n
    <3>1. CASE n = s
      BY <1>1, <1>6, <3>1
    <3>2. CASE n # s
      <4>0. n < s /\ d.stamp = s /\ f = d => FALSE
        BY <2>5
      <4>1. f \in dir
        <5>1. n < s
          <6>1. n <= s /\ n \in Nat /\ s \in Nat
            OBVIOUS
          <6> QED
            BY <3>2, <6>1
        <5> QED
          BY <1>1, <1>5, <2>5, <4>0, <5>1
      <4>2. PICK g \in dir : g.kind = "dump" /\ g.stamp = n
        BY <2>5, <4>1 DEF Kept, Directory
      <4> QED
        BY <1>4, <3>2, <4>2
    <3> QED
      BY <3>1, <3>2
  <2> QED
    BY <2>1, <2>2, <2>3, <2>4, <2>5 DEF Directory
<1>9. GoodOutlasts(new, begun, IF v.mixed THEN sound ELSE s)
  <2>1. CASE v.mixed
    <3>1. \A f \in Named(dir, "dump", sound) : f \in Named(new, "dump", sound)
      BY <1>4 DEF Named, Kind
    <3> QED
      BY <2>1, <3>1 DEF Kept, GoodOutlasts
  <2>2. CASE ~v.mixed
    <3>1. d \in Named(new, "dump", s) /\ d.whole /\ ~d.of.mixed
      BY <1>1, <1>6, <2>2 DEF Named, Kind
    <3> QED
      BY <2>2, <3>1 DEF GoodOutlasts
  <2> QED
    BY <2>1, <2>2
<1>10. HaveArchives(new, complete)
  <2> SUFFICES ASSUME NEW f \in new, f.kind = "dump", f.whole, f.stamp \in complete
               PROVE  \E a \in Named(new, "archive", f.stamp) : a.whole /\ a.of >= f.of.version
    BY DEF HaveArchives
  <2>1. f \in dir /\ f.stamp # s
    BY <1>1, <1>5
  <2>2. PICK a \in Named(dir, "archive", f.stamp) : a.whole /\ a.of >= f.of.version
    BY <2>1 DEF Kept, HaveArchives
  <2>3. a \in Named(new, "archive", f.stamp)
    BY <1>4, <2>1 DEF Named, Kind
  <2> QED
    BY <2>2, <2>3
<1> QED
  BY <1>8, <1>9, <1>10 DEF Kept, new

\* An archive is complete.
LEMMA ArchiveKeeps ==
  ASSUME NEW dir, NEW begun \in SUBSET Nat, NEW bytes \in Nat, NEW sound, NEW complete,
         NEW s \in begun, NEW n \in Nat, Kept(dir, begun, bytes, sound, complete),
         \A f \in dir : f.kind = "dump" /\ f.stamp = s => f.of.version <= n
  PROVE  Kept(Put(dir, {File("archive", s, TRUE, n)}), begun, bytes, sound, complete \cup {s})
<1> DEFINE a == File("archive", s, TRUE, n)
           new == Put(dir, {a})
<1>1. a.kind = "archive" /\ a.stamp = s /\ a.whole = TRUE /\ a.of = n /\ a \in ArchiveFile
  BY DEF File, ArchiveFile
<1> HIDE DEF a
<1>2. \A f : f \in new <=> f = a \/ (f \in dir /\ (f.kind # "archive" \/ f.stamp # s))
  <2>1. \A f : f \in new
          <=> f \in {a} \/ (f \in dir /\ \A g \in {a} : f.kind # g.kind \/ f.stamp # g.stamp)
    BY PutHas
  <2> QED
    BY <1>1, <2>1, Zenon
<1> HIDE DEF new
<1>3. \A f \in dir : f.kind = "dump" => f \in new
  BY <1>2
<1>4. \A f \in new : f.kind = "dump" => f \in dir
  BY <1>1, <1>2
<1>5. Directory(new, begun, bytes)
  <2>1. new \subseteq DumpFile \cup ArchiveFile
    BY <1>1, <1>2 DEF Kept, Directory
  <2>2. ASSUME NEW f \in new, NEW g \in new, f.kind = g.kind, f.stamp = g.stamp
        PROVE  f = g
    <3>1. CASE f = a
      BY <1>1, <1>2, <2>2, <3>1
    <3>2. CASE g = a
      BY <1>1, <1>2, <2>2, <3>2
    <3>3. CASE f # a /\ g # a
      BY <1>2, <2>2, <3>3 DEF Kept, Directory
    <3> QED
      BY <3>1, <3>2, <3>3
  <2>3. \A f \in new : f.stamp \in begun
    BY <1>1, <1>2 DEF Kept, Directory
  <2>4. \A f \in new : f.kind = "dump" => f.of.version <= bytes
    BY <1>4 DEF Kept, Directory
  <2>5. \A f \in new, k \in begun :
          f.kind = "dump" /\ k > f.stamp => \E g \in new : g.kind = "dump" /\ g.stamp = k
    BY <1>3, <1>4 DEF Kept, Directory
  <2> QED
    BY <2>1, <2>2, <2>3, <2>4, <2>5 DEF Directory
<1>6. GoodOutlasts(new, begun, sound)
  <2>1. \A f \in Named(dir, "dump", sound) : f \in Named(new, "dump", sound)
    BY <1>3 DEF Named, Kind
  <2> QED
    BY <2>1 DEF Kept, GoodOutlasts
<1>7. HaveArchives(new, complete \cup {s})
  <2> SUFFICES ASSUME NEW f \in new, f.kind = "dump", f.whole, f.stamp \in complete \cup {s}
               PROVE  \E b \in Named(new, "archive", f.stamp) : b.whole /\ b.of >= f.of.version
    BY DEF HaveArchives
  <2>1. f \in dir
    BY <1>4
  <2>2. CASE f.stamp = s
    <3>1. f.of.version \in Nat
      BY <2>1 DEF Kept, Directory, DumpFile, ArchiveFile, Version
    <3>2. a \in Named(new, "archive", f.stamp) /\ a.whole /\ a.of >= f.of.version
      BY <1>1, <1>2, <2>1, <2>2, <3>1 DEF Named, Kind
    <3> QED
      BY <3>2
  <2>3. CASE f.stamp # s
    <3>1. PICK b \in Named(dir, "archive", f.stamp) : b.whole /\ b.of >= f.of.version
      BY <2>1, <2>3 DEF Kept, HaveArchives
    <3>2. b \in Named(new, "archive", f.stamp)
      BY <1>2, <2>3 DEF Named, Kind
    <3> QED
      BY <3>1, <3>2
  <2> QED
    BY <2>2, <2>3
<1> QED
  BY <1>5, <1>6, <1>7 DEF Kept, a, new

-----------------------------------------------------------------------------
(* Lemmas about the daemon's steps.                                        *)

LEMMA NextRunLater ==
  ASSUME ConfigTyped, NEW from \in Nat, computeNextRun(from) # 0
  PROVE  computeNextRun(from) \in Nat /\ computeNextRun(from) > from
<1>1. CASE config.intervalHours # None
  BY <1>1 DEF computeNextRun, ConfigTyped
<1>2. CASE config.intervalHours = None
  <2>1. computeNextRun(from) = nextRun(parseCron(config.cron), from)
    BY <1>2 DEF computeNextRun
  <2>2. computeNextRun(from) \in (from + 1)..(from + Horizon)
    BY <2>1, NextRunFirst
  <2> QED
    BY <2>2
<1> QED
  BY <1>1, <1>2

LEMMA ArmKeeps ==
  ASSUME BackupInv, UNCHANGED <<config, clock, made>>,
         computeNextRun(clock) # 0, arm(computeNextRun(clock))
  PROVE  TimerKept' /\ timer' # NoTimer
<1> DEFINE next == computeNextRun(clock)
<1>1. clock \in Nat /\ \A s \in made : s <= clock
  BY DEF BackupInv, ContentTyped, HistoryTyped
<1>2. next \in Nat /\ next > clock
  BY <1>1, NextRunLater DEF BackupInv
<1>3. timer' = [set |-> clock, at |-> next]
  BY DEF arm
<1>4. computeNextRun(clock)' = next
  BY DEF computeNextRun
<1> HIDE DEF next
<1>5. timer'.set = clock /\ timer'.at = next
  BY <1>3
<1>6. timer' # NoTimer
  BY <1>2, <1>5 DEF NoTimer
<1>7. computeNextRun(timer.set)' = next
  BY <1>4, <1>5 DEF computeNextRun, next
<1>8. TimerKept'
  BY <1>1, <1>2, <1>5, <1>7 DEF TimerKept
<1> QED
  BY <1>6, <1>8

\* The end of a run, with the status that its dump deserves.
LEMMA SettleKeeps ==
  ASSUME BackupInv, run.pc # "idle", UNCHANGED <<config, clock, made>>,
         NEW dir, NEW failed \in BOOLEAN, Settle(dir, failed),
         failed <=> ~\E f \in disk' : f.kind = "dump" /\ f.stamp = run.stamp /\ f.whole
  PROVE  InFlightRun' /\ StatusKept' /\ TimerKept' /\ RunPlanned'
<1>1. run' = Idle /\ run'.pc = "idle"
  BY DEF Settle, Idle
<1>2. InFlightRun' /\ RunPlanned'
  BY <1>1 DEF InFlightRun, RunPlanned
<1>3. CASE computeNextRun(clock) = 0
  <2>1. status' = Down /\ timer' = NoTimer
    BY <1>3 DEF Settle
  <2>2. StatusKept'
    BY <2>1 DEF StatusKept, Down
  <2> QED
    BY <1>2, <2>1, <2>2 DEF TimerKept
<1>4. CASE computeNextRun(clock) # 0
  <2>1. /\ arm(computeNextRun(clock))
        /\ status' = [status EXCEPT !.failed = failed, !.count = Cardinality(Kind(dir, "dump"))]
    BY <1>4 DEF Settle
  <2>2. TimerKept'
    BY <1>4, <2>1, ArmKeeps
  <2>3. DOMAIN status = {"up", "lastRun", "failed", "count"}
    BY DEF BackupInv, StatusKept, Down
  <2>4. /\ DOMAIN status' = DOMAIN Down
        /\ status'.failed = failed /\ status'.up = status.up /\ status'.lastRun = status.lastRun
    BY <2>1, <2>3 DEF Down
  <2>5. status.up /\ status.lastRun = run.stamp /\ Newest(run.stamp)
    BY DEF BackupInv, InFlightRun
  <2>6. Newest(status.lastRun)'
    BY <2>4, <2>5 DEF Newest
  <2>7. status'.failed <=> ~DumpWhole(status.lastRun)'
    BY <2>4, <2>5 DEF DumpWhole
  <2>8. StatusKept'
    BY <2>4, <2>5, <2>6, <2>7 DEF StatusKept
  <2> QED
    BY <1>2, <2>2, <2>8
<1> QED
  BY <1>3, <1>4

\* Retention, and the end of a run whose dump is in the directory.
LEMMA PruneStepKeeps ==
  ASSUME BackupInv, run.pc # "idle", UNCHANGED <<config, clock, made>>,
         NEW dir, NEW copies, Prune(dir, copies), NEW sound, NEW complete,
         sound # None => sound \in made, Kept(dir, made, store, sound, complete),
         \E f \in dir : f.kind = "dump" /\ f.stamp = run.stamp /\ f.whole
  PROVE  /\ Kept(disk', made, store, sound, complete)
         /\ InFlightRun' /\ StatusKept' /\ TimerKept' /\ RunPlanned'
<1>1. disk' = pruneDir(dir) /\ Settle(pruneDir(dir), FALSE)
  BY DEF Prune
<1>2. made \in SUBSET Nat /\ IsFiniteSet(made) /\ config.keep \in Nat \ {0}
  BY BegunFinite DEF BackupInv, ConfigTyped
<1>3. Kept(disk', made, store, sound, complete)
  <2>1. Kept(pruneDir(dir), made, store, sound, complete)
    BY <1>2, PruneKeeps
  <2> QED
    BY <1>1, <2>1
<1>4. PICK f \in dir : f.kind = "dump" /\ f.stamp = run.stamp /\ f.whole
  OBVIOUS
<1>5. \A g \in dir : g.stamp \in Nat /\ g.stamp <= f.stamp
  <2>1. \A g \in dir : g.stamp \in made
    BY DEF Kept, Directory
  <2>2. Newest(run.stamp)
    BY DEF BackupInv, InFlightRun
  <2> QED
    BY <1>2, <1>4, <2>1, <2>2 DEF Newest
<1>6. f \in disk'
  BY <1>1, <1>2, <1>5, PruneKeepsNewest
<1>7. InFlightRun' /\ StatusKept' /\ TimerKept' /\ RunPlanned'
  BY <1>1, <1>4, <1>6, SettleKeeps
<1> QED
  BY <1>3, <1>7

\* Mirror and push, or the end.
LEMMA SecondaryKeeps ==
  ASSUME BackupInv, run.pc # "idle", UNCHANGED <<config, clock, made>>,
         NEW dir, NEW artefacts, Secondary(dir, artefacts), NEW sound, NEW complete,
         sound # None => sound \in made, Kept(dir, made, store, sound, complete),
         \E f \in dir : f.kind = "dump" /\ f.stamp = run.stamp /\ f.whole
  PROVE  /\ Kept(disk', made, store, sound, complete)
         /\ InFlightRun' /\ StatusKept' /\ TimerKept' /\ RunPlanned'
<1>1. CASE config.offsiteCmd
  <2>1. /\ disk' = dir /\ run' = [run EXCEPT !.pc = "offsite"]
        /\ UNCHANGED <<timer, status>>
    BY <1>1 DEF Secondary
  <2>2. DOMAIN run = {"pc", "stamp", "armed", "snapshot", "archive"}
    BY DEF BackupInv, InFlightRun, Idle
  <2>3. /\ DOMAIN run' = DOMAIN Idle
        /\ run'.pc = "offsite" /\ run'.stamp = run.stamp /\ run'.armed = run.armed
    BY <2>1, <2>2 DEF Idle
  <2>4. /\ Newest(run.stamp) /\ status.lastRun = run.stamp /\ status.up /\ timer = NoTimer
    BY DEF BackupInv, InFlightRun
  <2>5. Newest(run.stamp)' /\ DumpWhole(run.stamp)'
    BY <2>1, <2>3, <2>4 DEF Newest, DumpWhole
  <2>6. InFlightRun'
    BY <2>1, <2>3, <2>4, <2>5 DEF InFlightRun
  <2>7. StatusKept' /\ TimerKept'
    <3>1. Newest(status.lastRun)'
      BY <2>1, <2>4 DEF Newest
    <3> QED
      BY <2>1, <2>3, <2>4, <3>1 DEF BackupInv, StatusKept, TimerKept
  <2>8. RunPlanned'
    BY <2>3 DEF BackupInv, RunPlanned, Planned, Covered, Overflows
  <2> QED
    BY <2>1, <2>6, <2>7, <2>8
<1>2. CASE ~config.offsiteCmd
  <2>1. Prune(dir, mirrorTo(artefacts))
    BY <1>2 DEF Secondary
  <2> QED
    BY <2>1, PruneStepKeeps
<1> QED
  BY <1>1, <1>2

LEMMA KeptNow ==
  ASSUME config' = config,
         Kept(disk', made', store', good', archived')
  PROVE  Kept(disk, made, store, good, archived)'
BY DEF Kept, Directory, GoodOutlasts, HaveArchives, Named, Kind

LEMMA KeptGrows ==
  ASSUME NEW dir, NEW begun, NEW bytes \in Nat, NEW more \in Nat, more >= bytes,
         NEW sound, NEW complete, Kept(dir, begun, bytes, sound, complete)
  PROVE  Kept(dir, begun, more, sound, complete)
<1>1. \A f \in dir : f.kind = "dump" => f.of.version \in Nat
  BY DEF Kept, Directory, DumpFile, ArchiveFile, Version
<1>2. \A f \in dir : f.kind = "dump" => f.of.version <= more
  BY <1>1 DEF Kept, Directory
<1> QED
  BY <1>2 DEF Kept, Directory

\* A step that leaves the daemon and its files alone.
LEMMA DaemonSame ==
  ASSUME BackupInv, UNCHANGED <<config, clock, disk, timer, run, status, made, good, archived>>,
         store' \in Nat, store' >= store
  PROVE  /\ ConfigTyped' /\ HistoryTyped' /\ Kept(disk, made, store, good, archived)'
         /\ InFlightRun' /\ StatusKept' /\ TimerKept' /\ RunPlanned'
<1>1. ConfigTyped'
  BY DEF BackupInv, ConfigTyped
<1>2. HistoryTyped'
  BY DEF BackupInv, HistoryTyped
<1>3. Kept(disk, made, store, good, archived)'
  <2>1. Kept(disk, made, store', good, archived)
    BY KeptGrows DEF BackupInv, ContentTyped
  <2> QED
    BY <2>1, KeptNow
<1>4. InFlightRun'
  <2>1. Newest(run.stamp)' <=> Newest(run.stamp)
    BY DEF Newest
  <2>2. DumpWhole(run.stamp)' <=> DumpWhole(run.stamp)
    BY DEF DumpWhole
  <2>3. run.snapshot \in Version /\ run.snapshot.version <= store => run.snapshot.version <= store'
    BY DEF BackupInv, ContentTyped, Version
  <2> QED
    BY <2>1, <2>2, <2>3 DEF BackupInv, InFlightRun
<1>5. StatusKept'
  BY DEF BackupInv, StatusKept, Newest, DumpWhole
<1>6. TimerKept'
  <2>1. computeNextRun(timer.set)' = computeNextRun(timer.set)
    BY DEF computeNextRun
  <2> QED
    BY <2>1 DEF BackupInv, TimerKept, Overflows
<1>7. RunPlanned'
  BY DEF BackupInv, RunPlanned, Planned, Covered, Overflows
<1> QED
  BY <1>1, <1>2, <1>3, <1>4, <1>5, <1>6, <1>7

LEMMA MaxOfTwo ==
  ASSUME NEW a \in Nat, NEW b \in Nat
  PROVE  Max({a, b}) \in {a, b} /\ Max({a, b}) >= a /\ Max({a, b}) >= b
<1>1. \E x \in {a, b} : \A y \in {a, b} : x >= y
  BY a >= b \/ b >= a
<1> QED
  BY <1>1 DEF Max

-----------------------------------------------------------------------------
(* The invariant holds at first, and every step keeps it.                  *)

LEMMA InitHolds ==
  ASSUME InitBackup
  PROVE  BackupInv
<1>1. ConfigTyped
  <2>1. PICK e \in Environments : config = loadConfig(e)
    BY DEF InitBackup
  <2>2. {"keep", "intervalHours", "cron"} \subseteq DOMAIN e
    BY EnvironmentsAssumption
  <2>3. /\ config.keep = parseIntOr(e.keep, 14)
        /\ config.cron = e.cron
        /\ config.intervalHours = IF e.cron # None THEN None ELSE parseIntOr(e.intervalHours, 24)
    BY <2>1, <2>2 DEF loadConfig
  <2>4. \A n : parseIntOr(n, 14) \in Nat \ {0} /\ parseIntOr(n, 24) \in Nat \ {0}
    BY DEF parseIntOr
  <2>5. e.cron # None /\ DOMAIN e.cron = Field => e.cron \in [Field -> Seq(Segment)]
    BY EnvironmentsAssumption
  <2> QED
    BY <2>3, <2>4, <2>5, EventsAssumption DEF ConfigTyped
<1>2. ContentTyped
  BY EventsAssumption DEF InitBackup, ContentTyped, Version, NoRestore
<1>3. HistoryTyped
  BY DEF InitBackup, HistoryTyped
<1>4. Kept(disk, made, store, good, archived)
  BY DEF InitBackup, Kept, Directory, GoodOutlasts, HaveArchives
<1>5. InFlightRun /\ StatusKept /\ TimerKept /\ RunPlanned
  BY DEF InitBackup, InFlightRun, StatusKept, TimerKept, RunPlanned, Idle, Down, NoTimer
<1> QED
  BY <1>1, <1>2, <1>3, <1>4, <1>5 DEF BackupInv

LEMMA StartHolds ==
  ASSUME BackupInv, Start
  PROVE  BackupInv'
<1> USE DEF Start
<1>1. /\ UNCHANGED <<config, clock, db, store, disk, run, restore, made, good, archived>>
      /\ ~status.up
  BY DEF world, content, files, history
<1>2. computeNextRun(clock) # 0 /\ arm(computeNextRun(clock))
  OBVIOUS
<1>3. /\ DOMAIN status' = DOMAIN Down /\ status'.up = TRUE /\ status'.lastRun = None
  BY DEF Down
<1>4. run.pc = "idle"
  BY <1>1 DEF BackupInv, InFlightRun
<1>5. ConfigTyped' /\ ContentTyped' /\ HistoryTyped'
  BY <1>1 DEF BackupInv, ConfigTyped, ContentTyped, HistoryTyped
<1>6. Kept(disk, made, store, good, archived)'
  <2>1. Kept(disk', made', store', good', archived')
    BY <1>1 DEF BackupInv
  <2> QED
    BY <1>1, <2>1, KeptNow
<1>7. TimerKept'
  BY <1>1, <1>2, ArmKeeps
<1>8. InFlightRun' /\ RunPlanned'
  BY <1>1, <1>4 DEF BackupInv, InFlightRun, RunPlanned
<1>9. StatusKept'
  BY <1>3 DEF StatusKept
<1> QED
  BY <1>5, <1>6, <1>7, <1>8, <1>9 DEF BackupInv

\* What fires, fires in the minute it was armed for, which the expression names.
LEMMA FirePlanned ==
  ASSUME BackupInv, CanFire, config.intervalHours = None
  PROVE  Planned(clock) \/ Overflows(timer)
<1> SUFFICES ASSUME ~Overflows(timer)
             PROVE  Planned(clock)
  OBVIOUS
<1>1. /\ timer # NoTimer /\ clock >= timer.at /\ clock <= timer.at
      /\ timer.set \in Nat /\ timer.at = computeNextRun(timer.set)
      /\ timer.at \in Nat /\ timer.at > timer.set /\ clock \in Nat
  BY DEF CanFire, TimerDue, BackupInv, TimerKept, ContentTyped
<1>2. clock = timer.at
  BY <1>1
<1>3. ~Rejected(config.cron) /\ timer.at = nextRun(parseCron(config.cron), timer.set)
  BY <1>1 DEF computeNextRun
<1>4. FieldsMatch(parseCron(config.cron), clock)
  BY <1>1, <1>2, <1>3, NextRunFirst
<1>5. clock \in Instant
  BY CalendarAssumption, EventsAssumption DEF BackupInv, ContentTyped
<1>6. config.cron \in [Field -> Seq(Segment)]
  BY <1>3 DEF BackupInv, ConfigTyped, Rejected
<1> QED
  BY <1>3, <1>4, <1>5, <1>6, PlannedMatches

LEMMA FireHolds ==
  ASSUME BackupInv, Fire
  PROVE  BackupInv'
<1> USE DEF Fire
<1>1. UNCHANGED <<config, clock, db, store, restore, good, archived>>
  BY DEF world, content
<1>2. /\ clock \notin made /\ status.up /\ timer' = NoTimer
      /\ made' = made \cup {clock}
      /\ disk' = Put(disk, {File("dump", clock, FALSE, db)})
  BY DEF CanFire, TimerDue
<1>3. /\ run'.pc = "dump" /\ run'.stamp = clock /\ run'.armed = timer /\ run'.snapshot = None
      /\ DOMAIN run' = DOMAIN Idle
  BY DEF Idle
<1>4. DOMAIN status = {"up", "lastRun", "failed", "count"}
  BY DEF BackupInv, StatusKept, Down
<1>5. status'.lastRun = clock /\ status'.up /\ DOMAIN status' = DOMAIN Down
  BY <1>2, <1>4 DEF Down
<1>6. clock \in Nat /\ clock \in 0..LastMinute /\ db \in Version /\ store \in Nat
      /\ db.version <= store
  BY DEF BackupInv, ContentTyped
<1>7. \A s \in made : s \in Nat /\ s < clock
  BY <1>2, <1>6 DEF BackupInv, HistoryTyped
<1>8. good # clock /\ clock \notin archived
  BY <1>2, <1>6, EventsAssumption DEF BackupInv, HistoryTyped
<1>9. ConfigTyped' /\ ContentTyped'
  BY <1>1 DEF BackupInv, ConfigTyped, ContentTyped
<1>10. HistoryTyped'
  BY <1>1, <1>2, <1>6 DEF BackupInv, HistoryTyped
<1>11. Kept(disk, made, store, good, archived)'
  <2>1. made \in SUBSET Nat /\ IsFiniteSet(made) /\ config.keep \in Nat
    BY BegunFinite DEF BackupInv, ConfigTyped
  <2>2. archived \in SUBSET made /\ (good # None => good \in made)
    BY DEF BackupInv, HistoryTyped
  <2>3. Kept(Put(disk, {File("dump", clock, FALSE, db)}), made \cup {clock}, store, good, archived)
    BY <1>6, <1>7, <2>1, <2>2, BeginKeeps DEF BackupInv
  <2> QED
    BY <1>1, <1>2, <2>3, KeptNow
<1>12. Newest(clock)'
  BY <1>1, <1>2, <1>6, <1>7 DEF Newest
<1>13. ~\E f \in disk' : f.kind = "dump" /\ f.stamp = clock /\ f.whole
  <2> SUFFICES ASSUME NEW f \in disk', f.kind = "dump", f.stamp = clock, f.whole
               PROVE  FALSE
    OBVIOUS
  <2>1. /\ File("dump", clock, FALSE, db).kind = "dump"
        /\ File("dump", clock, FALSE, db).stamp = clock
        /\ File("dump", clock, FALSE, db).whole = FALSE
    BY DEF File
  <2>2. f = File("dump", clock, FALSE, db) \/ f \in disk
    BY <1>2 DEF Put
  <2>3. \A g \in disk : g.stamp \in made
    BY DEF BackupInv, Kept, Directory
  <2> QED
    BY <1>2, <2>1, <2>2, <2>3
<1>14. InFlightRun'
  <2>1. Newest(run.stamp)' /\ ~DumpWhole(run.stamp)'
    BY <1>1, <1>3, <1>12, <1>13 DEF DumpWhole
  <2> QED
    BY <1>1, <1>2, <1>3, <1>5, <1>8, <2>1 DEF InFlightRun
<1>15. StatusKept' /\ TimerKept'
  BY <1>1, <1>2, <1>3, <1>5, <1>12 DEF StatusKept, TimerKept
<1>16. RunPlanned'
  BY <1>1, <1>3, FirePlanned DEF RunPlanned, Planned, Covered, Overflows
<1> QED
  BY <1>9, <1>10, <1>11, <1>14, <1>15, <1>16 DEF BackupInv

LEMMA SnapshotHolds ==
  ASSUME BackupInv, Snapshot
  PROVE  BackupInv'
<1> USE DEF Snapshot
<1>1. /\ UNCHANGED <<config, clock, db, store, disk, timer, status, restore, made, good, archived>>
  BY DEF world, content, files, history
<1>2. DOMAIN run = {"pc", "stamp", "armed", "snapshot", "archive"}
  BY DEF BackupInv, InFlightRun, Idle
<1>3. /\ DOMAIN run' = DOMAIN Idle
      /\ run'.pc = "dump" /\ run'.stamp = run.stamp /\ run'.armed = run.armed
      /\ run'.snapshot = db
  BY <1>2 DEF Idle
<1>4. ConfigTyped' /\ ContentTyped' /\ HistoryTyped'
  BY <1>1 DEF BackupInv, ConfigTyped, ContentTyped, HistoryTyped
<1>5. Kept(disk, made, store, good, archived)'
  <2>1. Kept(disk', made', store', good', archived')
    BY <1>1 DEF BackupInv
  <2> QED
    BY <1>1, <2>1, KeptNow
<1>6. InFlightRun'
  <2>1. /\ Newest(run.stamp)' <=> Newest(run.stamp)
        /\ DumpWhole(run.stamp)' <=> DumpWhole(run.stamp)
    BY <1>1, <1>3 DEF Newest, DumpWhole
  <2>2. db' \in Version /\ db'.version <= store'
    BY <1>1 DEF BackupInv, ContentTyped
  <2> QED
    BY <1>1, <1>3, <2>1, <2>2 DEF BackupInv, InFlightRun
<1>7. StatusKept' /\ TimerKept'
  <2>1. timer = NoTimer
    BY DEF BackupInv, InFlightRun
  <2> QED
    BY <1>1, <1>3, <2>1 DEF BackupInv, StatusKept, TimerKept, Newest
<1>8. RunPlanned'
  BY <1>1, <1>3 DEF BackupInv, RunPlanned, Planned, Covered, Overflows
<1> QED
  BY <1>4, <1>5, <1>6, <1>7, <1>8 DEF BackupInv

LEMMA DumpSettlesHolds ==
  ASSUME BackupInv, DumpSettles
  PROVE  BackupInv'
<1>0. Kept(disk, made, store, good, archived)
  BY DEF BackupInv
<1> USE DEF DumpSettles
<1> DEFINE dump == File("dump", run.stamp, TRUE, run.snapshot)
           begun == File("archive", run.stamp, FALSE, store)
<1>1. UNCHANGED <<config, clock, db, store, restore, made, archived>>
  BY DEF world, content
<1>2. /\ run.pc = "dump" /\ run.snapshot \in Version /\ run.snapshot.version <= store
      /\ Newest(run.stamp) /\ run.stamp # good /\ run.stamp \notin archived
      /\ status.lastRun = run.stamp /\ status.up /\ timer = NoTimer
  BY DEF BackupInv, InFlightRun
<1>3. good' = IF run.snapshot.mixed THEN good ELSE run.stamp
  OBVIOUS
<1>4. run.stamp \in made /\ \A n \in made : n <= run.stamp
  BY <1>2 DEF Newest
<1>5. made \in SUBSET Nat /\ store \in Nat
  BY BegunFinite DEF BackupInv, ContentTyped
<1>6. ConfigTyped' /\ ContentTyped'
  BY <1>1 DEF BackupInv, ConfigTyped, ContentTyped
<1>7. HistoryTyped' /\ (good' # None => good' \in made)
  BY <1>1, <1>3, <1>4 DEF BackupInv, HistoryTyped
<1>8. /\ dump.kind = "dump" /\ dump.stamp = run.stamp /\ dump.whole = TRUE
      /\ dump.of = run.snapshot
      /\ begun.kind = "archive" /\ begun.stamp = run.stamp
      /\ begun = File("archive", run.stamp, FALSE, store)
      /\ dump = File("dump", run.stamp, TRUE, run.snapshot)
  BY DEF File
<1> HIDE DEF dump, begun
<1>9. CASE config.storageDir
  <2>1. /\ disk' = Put(disk, {dump, begun})
        /\ run' = [run EXCEPT !.pc = "archive", !.archive = store]
        /\ UNCHANGED <<timer, status>>
    BY <1>9 DEF dump, begun
  <2>2. Kept(Put(disk, {dump, begun}), made, store, good', archived)
    <3>1. /\ \A f \in {dump, begun} :
               f = dump \/ \E n \in Nat : f = File("archive", run.stamp, FALSE, n)
          /\ \A f, g \in {dump, begun} : f.kind = g.kind => f = g
          /\ dump \in {dump, begun}
      BY <1>5, <1>8
    <3> DEFINE fs == {dump, begun}
    <3>2. /\ \A f : f \in fs => f = File("dump", run.stamp, TRUE, run.snapshot)
                                \/ \E n \in Nat : f = File("archive", run.stamp, FALSE, n)
          /\ \A f, g \in fs : f.kind = g.kind => f = g
          /\ File("dump", run.stamp, TRUE, run.snapshot) \in fs
      BY <1>8, <3>1
    <3> HIDE DEF fs
    <3>3. Kept(Put(disk, fs), made, store, IF run.snapshot.mixed THEN good ELSE run.stamp, archived)
      BY <1>0, <1>2, <1>4, <1>5, <3>2, DumpKeeps
    <3> QED
      BY <1>3, <3>3 DEF fs
  <2>3. Kept(disk, made, store, good, archived)'
    BY <1>1, <2>1, <2>2, KeptNow
  <2>4. DOMAIN run = {"pc", "stamp", "armed", "snapshot", "archive"}
    BY DEF BackupInv, InFlightRun, Idle
  <2>5. /\ DOMAIN run' = DOMAIN Idle
        /\ run'.pc = "archive" /\ run'.stamp = run.stamp /\ run'.armed = run.armed
        /\ run'.archive = store
    BY <2>1, <2>4 DEF Idle
  <2>6. \A f \in disk' : f.kind = "dump" => f.of.version <= store
    BY <2>1, <2>2 DEF Kept, Directory
  <2>7. DumpWhole(run.stamp)' /\ Newest(run.stamp)'
    <3>1. dump \in disk'
      BY <2>1 DEF Put
    <3> QED
      BY <1>1, <1>2, <1>8, <2>5, <3>1 DEF DumpWhole, Newest
  <2>8. InFlightRun'
    BY <1>1, <1>2, <1>5, <2>1, <2>5, <2>6, <2>7 DEF InFlightRun
  <2>9. StatusKept' /\ TimerKept'
    BY <1>1, <1>2, <2>1, <2>5, <2>7 DEF BackupInv, StatusKept, TimerKept
  <2>10. RunPlanned'
    BY <1>1, <1>2, <2>5 DEF BackupInv, RunPlanned, Planned, Covered, Overflows
  <2> QED
    BY <1>6, <1>7, <2>3, <2>8, <2>9, <2>10 DEF BackupInv
<1>10. CASE ~config.storageDir
  <2> DEFINE dir == Put(disk, {dump})
  <2>1. Secondary(dir, {dump})
    BY <1>10 DEF dump
  <2>2. Kept(dir, made, store, good', archived)
    <3> DEFINE fs == {dump}
    <3>1. /\ \A f : f \in fs => f = File("dump", run.stamp, TRUE, run.snapshot)
                                \/ \E n \in Nat : f = File("archive", run.stamp, FALSE, n)
          /\ \A f, g \in fs : f.kind = g.kind => f = g
          /\ File("dump", run.stamp, TRUE, run.snapshot) \in fs
      BY <1>8
    <3> HIDE DEF fs
    <3>2. Kept(Put(disk, fs), made, store, IF run.snapshot.mixed THEN good ELSE run.stamp, archived)
      BY <1>0, <1>2, <1>4, <1>5, <3>1, DumpKeeps
    <3> QED
      BY <1>3, <3>2 DEF fs
  <2>3. \E f \in dir : f.kind = "dump" /\ f.stamp = run.stamp /\ f.whole
    <3>1. dump \in dir
      BY DEF Put
    <3> QED
      BY <1>8, <3>1
  <2> HIDE DEF dir
  <2>4. /\ Kept(disk', made, store, good', archived)
        /\ InFlightRun' /\ StatusKept' /\ TimerKept' /\ RunPlanned'
    BY <1>1, <1>2, <1>7, <2>1, <2>2, <2>3, SecondaryKeeps
  <2>5. Kept(disk, made, store, good, archived)'
    BY <1>1, <2>4, KeptNow
  <2> QED
    BY <1>6, <1>7, <2>4, <2>5 DEF BackupInv
<1> QED
  BY <1>9, <1>10

LEMMA DumpFailsHolds ==
  ASSUME BackupInv, DumpFails
  PROVE  BackupInv'
<1> USE DEF DumpFails
<1>1. UNCHANGED <<config, clock, db, store, disk, restore, made, good, archived>>
  BY DEF world, content, files, history
<1>2. run.pc = "dump" /\ ~DumpWhole(run.stamp)
  BY DEF BackupInv, InFlightRun
<1>3. ~\E f \in disk' : f.kind = "dump" /\ f.stamp = run.stamp /\ f.whole
  BY <1>1, <1>2 DEF DumpWhole
<1>4. InFlightRun' /\ StatusKept' /\ TimerKept' /\ RunPlanned'
  BY <1>1, <1>2, <1>3, SettleKeeps
<1>5. Kept(disk, made, store, good, archived)'
  <2>1. Kept(disk', made', store', good', archived')
    BY <1>1 DEF BackupInv
  <2> QED
    BY <1>1, <2>1, KeptNow
<1>6. ConfigTyped' /\ ContentTyped' /\ HistoryTyped'
  BY <1>1 DEF BackupInv, ConfigTyped, ContentTyped, HistoryTyped
<1> QED
  BY <1>4, <1>5, <1>6 DEF BackupInv

LEMMA ArchiveSettlesHolds ==
  ASSUME BackupInv, ArchiveSettles
  PROVE  BackupInv'
<1> USE DEF ArchiveSettles
<1> DEFINE dumps == Named(disk, "dump", run.stamp)
<1>1. UNCHANGED <<config, clock, db, store, restore, made, good>>
  BY DEF world, content
<1>2. /\ run.pc = "archive" /\ Newest(run.stamp) /\ run.archive \in Nat
      /\ DumpWhole(run.stamp)
      /\ \A f \in disk : f.kind = "dump" /\ f.stamp = run.stamp => f.of.version <= run.archive
  BY DEF BackupInv, InFlightRun
<1>3. run.stamp \in made /\ made \in SUBSET Nat /\ store \in Nat
  BY <1>2, BegunFinite DEF BackupInv, ContentTyped, Newest
<1>4. good # None => good \in made
  BY DEF BackupInv, HistoryTyped
<1>5. ConfigTyped' /\ ContentTyped'
  BY <1>1 DEF BackupInv, ConfigTyped, ContentTyped
<1>6. PICK d \in disk : d.kind = "dump" /\ d.stamp = run.stamp /\ d.whole
  BY <1>2 DEF DumpWhole
<1> HIDE DEF dumps
<1>7. ASSUME NEW bytes \in run.archive..store,
             Secondary(Put(disk, {File("archive", run.stamp, TRUE, bytes)}),
                       dumps \cup {File("archive", run.stamp, TRUE, bytes)}),
             archived' = archived \cup {run.stamp}
      PROVE  BackupInv'
  <2> DEFINE archive == File("archive", run.stamp, TRUE, bytes)
             dir == Put(disk, {archive})
  <2>1. bytes \in Nat /\ bytes >= run.archive
    BY <1>2, <1>3
  <2>2. \A f \in disk : f.kind = "dump" /\ f.stamp = run.stamp => f.of.version <= bytes
    <3> SUFFICES ASSUME NEW f \in disk, f.kind = "dump", f.stamp = run.stamp
                 PROVE  f.of.version <= bytes
      OBVIOUS
    <3>1. f.of.version \in Nat
      BY DEF BackupInv, Kept, Directory, DumpFile, ArchiveFile, Version
    <3> QED
      BY <1>2, <2>1, <3>1
  <2>3. Kept(dir, made, store, good, archived \cup {run.stamp})
    BY <1>3, <2>1, <2>2, ArchiveKeeps DEF BackupInv
  <2>4. d \in dir
    <3>1. archive.kind = "archive"
      BY DEF File
    <3> QED
      BY <1>6, <3>1 DEF Put
  <2> HIDE DEF dir, archive
  <2>5. Secondary(dir, dumps \cup {archive})
    BY <1>7 DEF dir, archive
  <2>6. /\ Kept(disk', made, store, good, archived \cup {run.stamp})
        /\ InFlightRun' /\ StatusKept' /\ TimerKept' /\ RunPlanned'
    BY <1>1, <1>2, <1>4, <1>6, <2>3, <2>4, <2>5, SecondaryKeeps
  <2>7. Kept(disk, made, store, good, archived)'
    BY <1>1, <1>7, <2>6, KeptNow
  <2>8. HistoryTyped'
    BY <1>1, <1>3, <1>7 DEF BackupInv, HistoryTyped
  <2> QED
    BY <1>5, <2>6, <2>7, <2>8 DEF BackupInv
<1>8. ASSUME Secondary(disk, dumps), UNCHANGED archived
      PROVE  BackupInv'
  <2>1. /\ Kept(disk', made, store, good, archived)
        /\ InFlightRun' /\ StatusKept' /\ TimerKept' /\ RunPlanned'
    BY <1>1, <1>2, <1>4, <1>6, <1>8, SecondaryKeeps DEF BackupInv
  <2>2. Kept(disk, made, store, good, archived)'
    BY <1>1, <1>8, <2>1, KeptNow
  <2>3. HistoryTyped'
    BY <1>1, <1>8 DEF BackupInv, HistoryTyped
  <2> QED
    BY <1>5, <2>1, <2>2, <2>3 DEF BackupInv
<1> QED
  BY <1>7, <1>8 DEF dumps

LEMMA OffsiteSettlesHolds ==
  ASSUME BackupInv, OffsiteSettles
  PROVE  BackupInv'
<1> USE DEF OffsiteSettles
<1>1. UNCHANGED <<config, clock, db, store, restore, made, good, archived>>
  BY DEF world, content, history
<1>2. run.pc = "offsite" /\ DumpWhole(run.stamp) /\ (good # None => good \in made)
  BY DEF BackupInv, InFlightRun, HistoryTyped
<1>3. \E f \in disk : f.kind = "dump" /\ f.stamp = run.stamp /\ f.whole
  BY <1>2 DEF DumpWhole
<1>4. /\ Kept(disk', made, store, good, archived)
      /\ InFlightRun' /\ StatusKept' /\ TimerKept' /\ RunPlanned'
  BY <1>1, <1>2, <1>3, PruneStepKeeps DEF BackupInv
<1>5. Kept(disk, made, store, good, archived)'
  BY <1>1, <1>4, KeptNow
<1>6. ConfigTyped' /\ ContentTyped' /\ HistoryTyped'
  BY <1>1 DEF BackupInv, ConfigTyped, ContentTyped, HistoryTyped
<1> QED
  BY <1>4, <1>5, <1>6 DEF BackupInv

LEMMA CrashHolds ==
  ASSUME BackupInv, DaemonCrash
  PROVE  BackupInv'
<1> USE DEF DaemonCrash
<1>1. UNCHANGED <<config, clock, db, store, disk, restore, made, good, archived>>
  BY DEF world, content, files, history
<1>2. run' = Idle /\ status' = Down /\ timer' = NoTimer
  OBVIOUS
<1>3. ConfigTyped' /\ ContentTyped' /\ HistoryTyped'
  BY <1>1 DEF BackupInv, ConfigTyped, ContentTyped, HistoryTyped
<1>4. Kept(disk, made, store, good, archived)'
  <2>1. Kept(disk', made', store', good', archived')
    BY <1>1 DEF BackupInv
  <2> QED
    BY <1>1, <2>1, KeptNow
<1>5. InFlightRun' /\ StatusKept' /\ TimerKept' /\ RunPlanned'
  BY <1>2 DEF InFlightRun, StatusKept, TimerKept, RunPlanned, Idle, Down
<1> QED
  BY <1>3, <1>4, <1>5 DEF BackupInv

LEMMA RestoreHolds ==
  ASSUME BackupInv, runRestore \/ OpenDump
  PROVE  BackupInv'
<1>1. /\ UNCHANGED <<config, clock, disk, timer, run, status, made, good, archived, store>>
      /\ store' \in Nat /\ store' >= store
  <2>1. store \in Nat
    BY DEF BackupInv, ContentTyped
  <2>2. CASE runRestore
    BY <2>1, <2>2 DEF runRestore, world, content, files, history
  <2>3. CASE OpenDump
    <3>1. UNCHANGED <<world, store, files, timer, run, status, left, history>>
      BY <2>3 DEF OpenDump
    <3> QED
      BY <2>1, <3>1 DEF world, files, history
  <2> QED
    BY <2>2, <2>3
<1>2. \A f \in disk : f.kind = "dump" => f \in DumpFile /\ f.of.version <= store
  <2>1. \A f \in ArchiveFile : f.kind # "dump"
    BY DEF ArchiveFile
  <2> QED
    BY <2>1 DEF BackupInv, Kept, Directory
<1>3. ContentTyped'
  <2>1. CASE runRestore
    <3>1. PICK storage \in BOOLEAN, f \in Kind(disk, "dump") :
            restore' = [pc |-> "open", dump |-> f, storage |-> storage]
      BY <2>1, Zenon DEF runRestore, latestDump
    <3>2. restore'.dump \in DumpFile /\ restore'.dump.of.version <= store
      BY <1>2, <3>1 DEF Kind
    <3>3. UNCHANGED db
      BY <2>1 DEF runRestore, content
    <3> QED
      BY <1>1, <3>1, <3>2, <3>3 DEF BackupInv, ContentTyped, NoRestore
  <2>2. CASE OpenDump
    <3>0. DOMAIN restore = {"pc", "dump", "storage"}
      BY DEF BackupInv, ContentTyped, NoRestore
    <3>1. CASE restore' = NoRestore /\ UNCHANGED db
      BY <1>1, <3>1 DEF BackupInv, ContentTyped, NoRestore
    <3>2. CASE ~(restore' = NoRestore /\ UNCHANGED db)
      <4>1. PICK f \in Named(disk, "dump", restore.dump.stamp) :
              /\ restore' = [restore EXCEPT !.pc = "load", !.dump = f]
              /\ db' = [db EXCEPT !.mixed = TRUE]
        BY <2>2, <3>2 DEF OpenDump
      <4>2. f \in DumpFile /\ f.of.version <= store
        BY <1>2 DEF Named, Kind
      <4>3. db' \in Version /\ db'.version <= store
        BY <4>1 DEF BackupInv, ContentTyped, Version
      <4>4. restore'.dump = f /\ DOMAIN restore' = DOMAIN NoRestore
        BY <3>0, <4>1 DEF NoRestore
      <4> QED
        BY <1>1, <4>2, <4>3, <4>4 DEF BackupInv, ContentTyped
    <3> QED
      BY <3>1, <3>2
  <2> QED
    BY <2>1, <2>2
<1> QED
  BY <1>1, <1>3, DaemonSame DEF BackupInv

LEMMA LoadHolds ==
  ASSUME BackupInv, psqlRestore \/ extractStorage
  PROVE  BackupInv'
<1>1. UNCHANGED <<config, clock, disk, timer, run, status, made, good, archived>>
  BY DEF psqlRestore, extractStorage, world, files, history
<1>2. store \in Nat /\ db \in Version /\ db.version <= store /\ clock \in 0..LastMinute
  BY DEF BackupInv, ContentTyped
<1>3. CASE psqlRestore
  <2>1. UNCHANGED store /\ restore.pc = "load"
    BY <1>3 DEF psqlRestore
  <2>2. restore.dump \in DumpFile /\ restore.dump.of.version <= store
    BY <2>1 DEF BackupInv, ContentTyped
  <2>3. /\ db' = restore.dump.of \/ db' = db
        /\ restore' = [restore EXCEPT !.pc = "extract"] \/ restore' = NoRestore
    BY <1>3 DEF psqlRestore
  <2>4. db' \in Version /\ db'.version <= store
    BY <1>2, <2>2, <2>3 DEF DumpFile
  <2>5. /\ restore'.pc \in {"open", "load", "extract"} => restore'.dump = restore.dump
        /\ DOMAIN restore' = DOMAIN NoRestore
    <3>1. DOMAIN restore = {"pc", "dump", "storage"}
      BY DEF BackupInv, ContentTyped, NoRestore
    <3> QED
      BY <2>3, <3>1 DEF NoRestore
  <2>6. ContentTyped'
    BY <1>1, <1>2, <2>1, <2>2, <2>4, <2>5 DEF ContentTyped
  <2> QED
    BY <1>1, <1>2, <2>1, <2>6, DaemonSame DEF BackupInv
<1>4. CASE extractStorage
  <2>1. restore' = NoRestore /\ UNCHANGED db
    BY <1>4 DEF extractStorage
  <2>2. store' \in Nat /\ store' >= store
    <3>1. CASE UNCHANGED store
      BY <1>2, <3>1
    <3>2. CASE store' # store
      <4>1. PICK f \in Named(disk, "archive", restore.dump.stamp) : store' = Max({store, f.of})
        BY <1>4, <3>2 DEF extractStorage
      <4>2. f.of \in Nat
        BY DEF Named, Kind, BackupInv, Kept, Directory, DumpFile, ArchiveFile
      <4>3. Max({store, f.of}) \in {store, f.of} /\ Max({store, f.of}) >= store
        BY <1>2, <4>2, MaxOfTwo
      <4> QED
        BY <1>2, <4>1, <4>2, <4>3
    <3> QED
      BY <3>1, <3>2
  <2>3. ContentTyped'
    <3>1. db.version <= store'
      BY <1>2, <2>2 DEF Version
    <3> QED
      BY <1>1, <1>2, <2>1, <2>2, <3>1 DEF ContentTyped, NoRestore
  <2> QED
    BY <1>1, <2>2, <2>3, DaemonSame DEF BackupInv
<1> QED
  BY <1>3, <1>4

LEMMA WriteHolds ==
  ASSUME BackupInv, Write
  PROVE  BackupInv'
<1>1. UNCHANGED <<config, clock, disk, timer, run, status, restore, made, good, archived>>
  BY DEF Write, world, files, history
<1>2. store \in Nat /\ db \in Version /\ clock \in 0..LastMinute
  BY DEF BackupInv, ContentTyped
<1>3. db' = [db EXCEPT !.version = @ + 1] /\ store' = Max({store, db'.version})
  BY DEF Write
<1>4. db' \in Version /\ db'.version \in Nat
  <2>1. db.version + 1 \in Nat
    BY <1>2 DEF Version
  <2>2. db' = [version |-> db.version + 1, mixed |-> db.mixed]
    BY <1>2, <1>3 DEF Version
  <2> QED
    BY <1>2, <2>1, <2>2 DEF Version
<1>5. Max({store, db'.version}) \in {store, db'.version} /\ Max({store, db'.version}) >= store
      /\ Max({store, db'.version}) >= db'.version
  BY <1>2, <1>4, MaxOfTwo
<1>6. store' \in Nat /\ store' >= store /\ db'.version <= store'
  BY <1>2, <1>3, <1>4, <1>5
<1>7. ContentTyped'
  <2>1. restore.pc \in {"open", "load", "extract"} =>
          restore.dump \in DumpFile /\ restore.dump.of.version <= store'
    <3> SUFFICES ASSUME restore.pc \in {"open", "load", "extract"}
                 PROVE  restore.dump \in DumpFile /\ restore.dump.of.version <= store'
      OBVIOUS
    <3>1. restore.dump \in DumpFile /\ restore.dump.of.version <= store
      BY DEF BackupInv, ContentTyped
    <3>2. restore.dump.of.version \in Nat
      BY <3>1 DEF DumpFile, Version
    <3> QED
      BY <1>2, <1>6, <3>1, <3>2
  <2> QED
    BY <1>1, <1>2, <1>4, <1>6, <2>1 DEF BackupInv, ContentTyped
<1> QED
  BY <1>1, <1>6, <1>7, DaemonSame DEF BackupInv

\* The clock stands still where the timer has to fire.
LEMMA MinutePassesHolds ==
  ASSUME BackupInv, MinutePasses
  PROVE  BackupInv'
<1> USE DEF MinutePasses
<1>1. /\ UNCHANGED <<config, db, store, disk, timer, run, status, restore, made, good, archived>>
      /\ clock' = clock + 1 /\ clock < LastMinute
  BY DEF content, files, history
<1>2. clock \in Nat /\ clock' \in 0..LastMinute /\ LastMinute \in Nat
  BY <1>1, EventsAssumption DEF BackupInv, ContentTyped
<1>3. ConfigTyped' /\ ContentTyped' /\ HistoryTyped'
  BY <1>1, <1>2 DEF BackupInv, ConfigTyped, ContentTyped, HistoryTyped
<1>4. Kept(disk, made, store, good, archived)'
  <2>1. Kept(disk', made', store', good', archived')
    BY <1>1 DEF BackupInv
  <2> QED
    BY <1>1, <2>1, KeptNow
<1>5. InFlightRun'
  <2>1. /\ Newest(run.stamp)' <=> Newest(run.stamp)
        /\ DumpWhole(run.stamp)' <=> DumpWhole(run.stamp)
    BY <1>1 DEF Newest, DumpWhole
  <2> QED
    BY <1>1, <2>1 DEF BackupInv, InFlightRun
<1>6. StatusKept'
  BY <1>1 DEF BackupInv, StatusKept, Newest, DumpWhole
<1>7. RunPlanned'
  BY <1>1 DEF BackupInv, RunPlanned, Planned, Covered, Overflows
<1>8. TimerKept'
  <2> SUFFICES ASSUME timer # NoTimer
               PROVE  TimerKept'
    BY <1>1 DEF TimerKept
  <2>1. /\ timer.set \in 0..clock /\ \A s \in made : s <= timer.set
        /\ timer.at = computeNextRun(timer.set) /\ timer.at \in Nat /\ timer.at > timer.set
        /\ IF Overflows(timer) THEN clock <= timer.set + 1 ELSE clock <= timer.at
        /\ status.up
    BY DEF BackupInv, TimerKept, StatusKept
  <2>2. computeNextRun(timer.set)' = computeNextRun(timer.set)
    BY <1>1 DEF computeNextRun
  <2>3. Overflows(timer)' <=> Overflows(timer)
    BY <1>1 DEF Overflows
  <2>4. (clock >= timer.at \/ Overflows(timer)) => clock \in made
    BY <2>1 DEF CanFire, TimerDue
  <2>5. CASE Overflows(timer)
    <3>1. clock <= timer.set
      BY <2>1, <2>4, <2>5
    <3>2. clock' <= timer.set + 1
      BY <1>1, <1>2, <2>1, <3>1
    <3> QED
      BY <1>1, <1>2, <2>1, <2>2, <2>3, <2>5, <3>2 DEF TimerKept
  <2>6. CASE ~Overflows(timer)
    <3>1. clock < timer.at
      <4>1. clock >= timer.at => clock <= timer.set
        BY <2>1, <2>4
      <4> QED
        BY <1>2, <2>1, <4>1
    <3>2. clock' <= timer.at
      BY <1>1, <1>2, <2>1, <3>1
    <3> QED
      BY <1>1, <1>2, <2>1, <2>2, <2>3, <2>6, <3>2 DEF TimerKept
  <2> QED
    BY <2>5, <2>6
<1> QED
  BY <1>3, <1>4, <1>5, <1>6, <1>7, <1>8 DEF BackupInv

LEMMA TroubleHolds ==
  ASSUME BackupInv, Trouble \/ UNCHANGED backupVars
  PROVE  BackupInv'
<1>1. /\ UNCHANGED <<config, clock, disk, timer, run, status, made, good, archived>>
      /\ UNCHANGED <<db, store, restore>>
  BY DEF Trouble, backupVars, world, content, files, history
<1>2. ContentTyped'
  BY <1>1 DEF BackupInv, ContentTyped
<1>3. store' \in Nat /\ store' >= store
  BY <1>1 DEF BackupInv, ContentTyped
<1> QED
  BY <1>1, <1>2, <1>3, DaemonSame DEF BackupInv

LEMMA BackupStep ==
  ASSUME BackupInv, [NextBackup]_backupVars
  PROVE  BackupInv'
BY StartHolds, FireHolds, SnapshotHolds, DumpSettlesHolds, ArchiveSettlesHolds,
   OffsiteSettlesHolds, DumpFailsHolds, CrashHolds, RestoreHolds, LoadHolds, WriteHolds,
   MinutePassesHolds, TroubleHolds, Zenon
   DEF NextBackup, Daemon, OperatorStep

LEMMA BackupInvAlways == SpecBackup => []BackupInv
<1>1. InitBackup => BackupInv
  BY InitHolds
<1>2. BackupInv /\ [NextBackup]_backupVars => BackupInv'
  BY BackupStep
<1> QED
  BY <1>1, <1>2, PTL DEF SpecBackup

-----------------------------------------------------------------------------
(* The properties.                                                         *)

\* RetentionSound: neither failed dumps nor crashes nor restores nor the two
\* retentions take away the last good dump before BACKUP_KEEP later ones were
\* begun, or the completed archive of a dump that is kept.
THEOREM RetentionAlwaysSound == SpecBackup => []RetentionSound
<1>1. BackupInv => RetentionSound
  <2> SUFFICES ASSUME BackupInv
               PROVE  RetentionSound
    OBVIOUS
  <2>1. GoodDumpsOutlast
    BY DEF BackupInv, Kept, GoodOutlasts, GoodDumpsOutlast
  <2>2. KeptDumpsHaveArchives
    BY DEF BackupInv, Kept, HaveArchives, KeptDumpsHaveArchives, Kind
  <2> QED
    BY <2>1, <2>2 DEF RetentionSound
<1> QED
  BY <1>1, BackupInvAlways, PTL

\* StatusTruthful: between runs GET /status reports an error exactly when the
\* last run left no whole dump.
THEOREM StatusAlwaysTruthful == SpecBackup => []StatusTruthful
<1>1. BackupInv => StatusTruthful
  <2> SUFFICES ASSUME BackupInv, status.up, run = Idle, status.lastRun # None
               PROVE  status.failed <=> ~OnDisk("dump", status.lastRun)
    BY DEF StatusTruthful
  <2>1. run.pc = "idle"
    BY DEF Idle
  <2>2. OnDisk("dump", status.lastRun) <=> DumpWhole(status.lastRun)
    BY DEF OnDisk, Named, Kind, DumpWhole
  <2> QED
    BY <2>1, <2>2 DEF BackupInv, StatusKept
<1> QED
  BY <1>1, BackupInvAlways, PTL

\* OnSchedule: in cron mode a dump starts in a minute that the expression
\* names, and none such passes while the daemon waits, unless setTimeout cannot
\* express the wait.
THEOREM AlwaysOnSchedule == SpecBackup => []OnSchedule
<1>1. BackupInv => OnSchedule
  <2> SUFFICES ASSUME BackupInv, config.intervalHours = None
               PROVE  /\ run.pc # "idle" => Planned(run.stamp) \/ Overflows(run.armed)
                      /\ timer # NoTimer => \A t \in (timer.set + 1)..(clock - 1) : ~Planned(t)
    BY DEF OnSchedule
  <2>1. run.pc # "idle" => Planned(run.stamp) \/ Overflows(run.armed)
    BY DEF BackupInv, RunPlanned
  <2>2. ASSUME timer # NoTimer, NEW t \in (timer.set + 1)..(clock - 1)
        PROVE  ~Planned(t)
    <3>1. /\ timer.set \in 0..clock /\ clock \in Nat /\ clock <= LastMinute /\ LastMinute \in Nat
          /\ timer.at = computeNextRun(timer.set) /\ timer.at \in Nat /\ timer.at > timer.set
          /\ IF Overflows(timer) THEN clock <= timer.set + 1 ELSE clock <= timer.at
      BY <2>2, EventsAssumption DEF BackupInv, TimerKept, ContentTyped
    <3>2. t \in Nat /\ t > timer.set /\ t < clock /\ t \in 0..(LastMinute + Horizon)
      BY <3>1, CalendarAssumption, EventsAssumption
    <3>3. clock <= timer.at
      BY <3>1, <3>2
    <3>4. ~Rejected(config.cron) /\ timer.at = nextRun(parseCron(config.cron), timer.set)
      BY <3>1 DEF computeNextRun
    <3>5. t \in (timer.set + 1)..(timer.at - 1)
      BY <3>1, <3>2, <3>3
    <3>6. ~FieldsMatch(parseCron(config.cron), t)
      BY <3>1, <3>4, <3>5, NextRunFirst
    <3>7. t \in Instant
      BY <3>2, EventsAssumption
    <3>8. config.cron \in [Field -> Seq(Segment)]
      BY <3>4 DEF BackupInv, ConfigTyped, Rejected
    <3> QED
      BY <3>4, <3>6, <3>7, <3>8, PlannedMatches
  <2> QED
    BY <2>1, <2>2
<1> QED
  BY <1>1, BackupInvAlways, PTL

-----------------------------------------------------------------------------
(***************************************************************************)
(* The scheduler.                                                          *)
(***************************************************************************)
USE EveryAssumption, InitialCronAssumption, NoRunAssumption, BoundsAssumption

\* What the theorems ask of an instance: jobs are done before the next tick
\* comes, and operators write cron strings that parse.  Without the one an
\* instant runs again in a tick that overlaps, without the other in every tick.
Prompt == ~MayOverlap /\ \A c \in Crons : Parses(c)

-----------------------------------------------------------------------------
(***************************************************************************)
(* The inductive invariant.  Typed has the records of activations; Quiet   *)
(* says when there are none; Job, the rest, speaks of one job.             *)
(***************************************************************************)
Started(t) ==
  {a \in [st : {"executing", "recording"}, trigger : {"cron", "manual"},
          cron : Crons, due : Instants \cup {NoRun}] :
     a.trigger = "cron" => a.due \in 0..t}
Advancing == [st : {"writing"}, trigger : {"cron"}, cron : Crons,
              due : Instants \cup {NoRun}, val : Instants]
Activations(t) == {Free} \cup Started(t) \cup Advancing
Rows == [status : {"active", "inactive", "deleted"}, cron : Crons,
         next : Instants \cup {NoRun}]

Typed ==
  /\ now \in 0..MaxTime
  /\ row \in [Jobs -> Rows]
  /\ phase \in {"down", "priming", "up"} /\ primed \in BOOLEAN
  /\ act \in [Jobs -> [Idx -> Activations(now)]]
  /\ faults \in [FaultKinds -> Nat] /\ manual \in Nat
  /\ runs \in [Jobs -> [Instants -> 0..CountCap]]
  /\ cut \in [Jobs -> 0..CountCap] /\ stale \in [Jobs -> 0..CountCap]
  /\ edits \in [Jobs -> 0..MaxEdits]

\* Nothing is in flight before the priming tick.
Quiet ==
  phase = "down" \/ (phase = "priming" /\ ~primed) => \A j \in Jobs : InFlight(j) = {}

\* One cron round at a time.
OneRound(j) == \A i, k \in CronInFlight(j) : i = k

\* A round in flight finds next_run as it read it, or reset by the operator;
\* what it is going to write is an instant of its cron, after the one it ran.
RoundKept(j) ==
  \A k \in CronInFlight(j) :
    LET a == act[j][k] IN
    /\ row[j].next \in {a.due, NoRun}
    /\ a.st = "writing" => /\ Matches(a.cron, a.val)
                           /\ a.due # NoRun => a.val > a.due

\* The history counters stop at CountCap, and say nothing from there on.
Within(j, n) == n <= cut[j] \/ cut[j] = CountCap

\* What next_run names may still be run: it is there, and so is the row.
Pending(j) == row[j].status # "deleted" /\ row[j].next # NoRun

\* Executions of one instant, of which a round that was cut short allows one
\* more.  The instant that is next, or about to be, has that one to spare.
Counted(j) ==
  /\ \A d \in Instants : runs[j][d] > 0 => d <= now
  /\ \A d \in Instants : runs[j][d] <= 1 + cut[j]
  /\ CronInFlight(j) = {} /\ Pending(j) => Within(j, runs[j][row[j].next])
  /\ \A k \in CronInFlight(j) :
       /\ act[j][k].st = "executing" => Within(j, runs[j][act[j][k].due])
       /\ act[j][k].st = "writing" => runs[j][act[j][k].val] = 0

\* Executions at an instant of an old cron string, those still to come of the
\* row as it is and of the round in flight included.
One(b) == IF b THEN 1 ELSE 0
OwedByRow(j) == One(Pending(j) /\ ~Matches(row[j].cron, row[j].next))
OwedBy(j, a) ==
  One(a.st = "executing" /\ ~Matches(a.cron, a.due)) + One(a.cron # row[j].cron)

EditsPaid(j) ==
  /\ stale[j] <= edits[j] + cut[j]
  /\ CronInFlight(j) = {} => Within(j, stale[j] + OwedByRow(j) - edits[j])
  /\ \A k \in CronInFlight(j) : Within(j, stale[j] + OwedBy(j, act[j][k]) - edits[j])

Job(j) == OneRound(j) /\ RoundKept(j) /\ Counted(j) /\ EditsPaid(j)

IInv == Typed /\ Quiet /\ \A j \in Jobs : Job(j)

-----------------------------------------------------------------------------
(* Lemmas about the operators.                                             *)

\* computeNextRun returns an instant of the cron, after the time it is given.
LEMMA NextRunAfter ==
  ASSUME NEW c \in Crons, Parses(c), NEW t \in 0..MaxTime
  PROVE  /\ ComputeNextRun(c, t) \in Instants
         /\ ComputeNextRun(c, t) > t
         /\ Matches(c, ComputeNextRun(c, t))
<1> DEFINE e == Every[c]
           q == t \div e
<1>1. e \in 1..MaxTime
  BY DEF Parses
<1>2. q \in Nat /\ t = e * q + (t % e) /\ t % e \in 0..(e - 1)
  BY <1>1
<1>3. ComputeNextRun(c, t) = (q + 1) * e
  BY DEF ComputeNextRun, NextRun
<1> HIDE DEF e, q
<1>4. (q + 1) * e = e * q + e
  BY <1>1, <1>2
<1>5. (q + 1) * e > t /\ (q + 1) * e <= 2 * MaxTime
  BY <1>1, <1>2, <1>4
<1>6. ((q + 1) * e) % e = 0
  BY <1>1, <1>2
<1>7. ComputeNextRun(c, t) % Every[c] = 0
  BY <1>3, <1>6 DEF e
<1>8. ComputeNextRun(c, t) > t /\ ComputeNextRun(c, t) \in Instants
  <2>1. (q + 1) * e \in Nat
    BY <1>1, <1>2
  <2> QED
    BY <1>3, <1>5, <2>1 DEF Instants
<1> QED
  BY <1>7, <1>8 DEF Matches

LEMMA CountUpType == \A n \in 0..CountCap : /\ CountUp(n) \in 0..CountCap
                                            /\ CountUp(n) <= n + 1
                                            /\ CountUp(n) = n + 1 \/ n = CountCap
                                            /\ CountUp(n) >= n
BY DEF CountUp

LEMMA FaultType ==
  ASSUME Typed, NEW f \in FaultKinds, Fault(f)
  PROVE  faults' \in [FaultKinds -> Nat]
<1>1. faults \in [FaultKinds -> Nat] /\ faults[f] - 1 \in Nat
  BY DEF Typed, Fault
<1> QED
  BY <1>1 DEF Fault

\* Activations stay what they are as time goes on.
LEMMA ActivationsGrow ==
  ASSUME NEW t \in Nat, NEW u \in Nat, t <= u
  PROVE  Activations(t) \subseteq Activations(u)
BY DEF Activations, Started

\* What an activation is, by its state.
LEMMA ActivationKinds ==
  ASSUME Typed, NEW j \in Jobs, NEW k \in Idx
  PROVE  LET a == act[j][k] IN
         /\ a \in Activations(now)
         /\ a = Free <=> a.st = "free"
         /\ a.st = "writing" => a \in Advancing
         /\ a.st \in {"executing", "recording"} => a \in Started(now)
         /\ a.st \in ActStates
         /\ (a # Free /\ a.trigger = "cron" /\ a.st # "writing") => a.due \in 0..now
<1> DEFINE a == act[j][k]
<1>1. a \in Activations(now)
  BY DEF Typed
<1>2. a = Free => a.st = "free"
  BY DEF Free
<1>3. a \in Started(now) => a.st \in {"executing", "recording"}
  BY DEF Started
<1>4. a \in Advancing => a.st = "writing"
  BY DEF Advancing
<1>5. a \in Started(now) => (a.trigger = "cron" => a.due \in 0..now)
  BY DEF Started
<1> HIDE DEF a
<1>6. /\ a \in Activations(now)
      /\ a = Free <=> a.st = "free"
      /\ a.st = "writing" => a \in Advancing
      /\ a.st \in {"executing", "recording"} => a \in Started(now)
      /\ a.st \in ActStates
      /\ (a # Free /\ a.trigger = "cron" /\ a.st # "writing") => a.due \in 0..now
  BY <1>1, <1>2, <1>3, <1>4, <1>5 DEF Activations, ActStates
<1> QED
  BY <1>6 DEF a

\* Typed is more than TypeOK.
LEMMA TypedTypeOK == Typed => TypeOK
<1> SUFFICES ASSUME Typed PROVE TypeOK
  OBVIOUS
<1>1. ASSUME NEW j \in Jobs, NEW k \in Idx
      PROVE  LET a == act[j][k] IN
             /\ a.st \in ActStates
             /\ a.st # "free" => a.trigger \in {"cron", "manual"} /\ a.cron \in Crons
             /\ a.st = "writing" => a.trigger = "cron" /\ a.val \in Instants
             /\ a.st \in {"executing", "recording"} /\ a.trigger = "cron" => a.due \in 0..now
  <2>1. act[j][k] \in Started(now) => /\ act[j][k].trigger \in {"cron", "manual"}
                                      /\ act[j][k].cron \in Crons
    BY DEF Started
  <2>2. act[j][k] \in Advancing => /\ act[j][k].trigger = "cron" /\ act[j][k].cron \in Crons
                                   /\ act[j][k].val \in Instants
    BY DEF Advancing
  <2> QED
    BY <2>1, <2>2, ActivationKinds DEF ActStates
<1> QED
  BY <1>1 DEF Typed, TypeOK, Rows

-----------------------------------------------------------------------------
(* A job whose cron round, row and history a step leaves alone.            *)

SameRound(j) ==
  /\ CronInFlight(j)' = CronInFlight(j)
  /\ \A k \in CronInFlight(j) : act'[j][k] = act[j][k]

SameBooks(j) ==
  /\ row'[j] = row[j] /\ runs'[j] = runs[j] /\ cut'[j] = cut[j]
  /\ edits'[j] = edits[j] /\ stale'[j] = stale[j]

LEMMA JobUntouched ==
  ASSUME Typed, NEW j \in Jobs, Job(j), SameRound(j), SameBooks(j),
         now' \in Nat, now' >= now
  PROVE  Job(j)'
<1> USE DEF Job, SameRound, SameBooks
<1>1. OneRound(j)'
  BY DEF OneRound
<1>2. RoundKept(j)'
  BY DEF RoundKept
<1>3. Counted(j)'
  <2>1. \A d \in Instants : runs'[j][d] > 0 => d <= now'
    BY DEF Counted, Typed, Instants
  <2> QED
    BY <2>1 DEF Counted, Pending, Within
<1>4. EditsPaid(j)'
  BY DEF EditsPaid, Pending, Within, OwedByRow, OwedBy
<1> QED
  BY <1>1, <1>2, <1>3, <1>4

\* All of a job's activations are the same.
LEMMA JobAlone ==
  ASSUME Typed, NEW j \in Jobs, Job(j), act'[j] = act[j], SameBooks(j),
         now' \in Nat, now' >= now
  PROVE  Job(j)'
<1>1. SameRound(j)
  BY DEF SameRound, CronInFlight, InFlight
<1> QED
  BY <1>1, JobUntouched

\* The k-th activation of j becomes v, and it is the cron round of j.
LEMMA RoundBecomes ==
  ASSUME Typed, NEW j \in Jobs, Job(j), NEW k \in CronInFlight(j), NEW v,
         act' = [act EXCEPT ![j][k] = v]
  PROVE  /\ act'[j][k] = v
         /\ v = Free => CronInFlight(j)' = {}
         /\ v # Free /\ v.trigger = "cron" => CronInFlight(j)' = {k}
         /\ \A i \in Jobs \ {j} : act'[i] = act[i]
<1>1. k \in Idx /\ act'[j] = [act[j] EXCEPT ![k] = v] /\ act[j] \in [Idx -> Activations(now)]
  BY DEF Typed, CronInFlight, InFlight
<1>2. \A i \in CronInFlight(j) : i = k
  BY DEF Job, OneRound
<1>3. CronInFlight(j)' \subseteq {k}
  BY <1>1, <1>2 DEF CronInFlight, InFlight
<1>4. act'[j][k] = v
  BY <1>1
<1>5. \A i \in Jobs \ {j} : act'[i] = act[i]
  BY DEF Typed
<1> QED
  BY <1>1, <1>3, <1>4, <1>5 DEF CronInFlight, InFlight

LEMMA RoundGoesOn ==
  ASSUME Typed, NEW j \in Jobs, Job(j), NEW k \in CronInFlight(j), NEW v,
         v # Free, v.trigger = "cron",
         act' = [act EXCEPT ![j][k] = v]
  PROVE  act'[j][k] = v /\ CronInFlight(j)' = {k}
<1>1. act'[j][k] = v
  <2>1. k \in Idx /\ act \in [Jobs -> [Idx -> Activations(now)]]
    BY DEF Typed, CronInFlight, InFlight
  <2> QED
    BY <2>1
<1>2. v # Free /\ v.trigger = "cron" => CronInFlight(j)' = {k}
  BY RoundBecomes
<1> QED
  BY <1>1, <1>2

LEMMA RoundEnds ==
  ASSUME Typed, NEW j \in Jobs, Job(j), NEW k \in CronInFlight(j),
         act' = [act EXCEPT ![j][k] = Free]
  PROVE  CronInFlight(j)' = {}
BY RoundBecomes

\* An activation that is not a cron round, before or after, changes none.
LEMMA OtherBecomes ==
  ASSUME Typed, NEW j \in Jobs, NEW k \in Idx, NEW v, k \notin CronInFlight(j),
         v = Free \/ v.trigger # "cron",
         act' = [act EXCEPT ![j][k] = v]
  PROVE  \A i \in Jobs : SameRound(i)
<1>1. \A i \in Jobs \ {j} : act'[i] = act[i]
  BY DEF Typed
<1>2. SameRound(j)
  <2>1. act'[j] = [act[j] EXCEPT ![k] = v] /\ act[j] \in [Idx -> Activations(now)]
    BY DEF Typed
  <2> QED
    BY <2>1 DEF SameRound, CronInFlight, InFlight
<1> QED
  BY <1>1, <1>2 DEF SameRound, CronInFlight, InFlight

-----------------------------------------------------------------------------
(* The initial state, and ticks.                                           *)

LEMMA InitInv == Init => IInv
<1> SUFFICES ASSUME Init PROVE IInv
  OBVIOUS
<1> USE DEF Init
<1>1. Typed
  <2>1. row \in [Jobs -> Rows]
    BY DEF Rows
  <2>2. act \in [Jobs -> [Idx -> Activations(now)]]
    BY DEF Activations
  <2>3. runs \in [Jobs -> [Instants -> 0..CountCap]]
    OBVIOUS
  <2>4. now \in 0..MaxTime /\ phase \in {"down", "priming", "up"} /\ manual \in Nat
    OBVIOUS
  <2>7. primed \in BOOLEAN
    OBVIOUS
  <2>5. /\ cut \in [Jobs -> 0..CountCap] /\ stale \in [Jobs -> 0..CountCap]
        /\ edits \in [Jobs -> 0..MaxEdits]
    OBVIOUS
  <2>6. faults \in [FaultKinds -> Nat]
    OBVIOUS
  <2> QED
    BY <2>1, <2>2, <2>3, <2>4, <2>5, <2>6, <2>7 DEF Typed
<1>2. \A j \in Jobs : InFlight(j) = {} /\ CronInFlight(j) = {}
  BY DEF InFlight, CronInFlight
<1>3. ASSUME NEW j \in Jobs PROVE Job(j)
  <2>1. \A d \in Instants : runs[j][d] = 0
    OBVIOUS
  <2>2. ~Pending(j)
    BY DEF Pending
  <2>3. cut[j] = 0 /\ stale[j] = 0 /\ edits[j] = 0
    OBVIOUS
  <2> QED
    BY <1>2, <2>1, <2>2, <2>3
       DEF Job, OneRound, RoundKept, Counted, EditsPaid, OwedByRow, One, Within
<1> QED
  BY <1>1, <1>2, <1>3 DEF IInv, Quiet

\* A tick starts at most one activation of a job.
LEMMA FirstFreeUnique ==
  ASSUME NEW j \in Jobs, NEW i \in FirstFree(j), NEW k \in FirstFree(j)
  PROVE  i = k
<1>1. i \in Nat /\ k \in Nat /\ i > 0 /\ k > 0
  BY DEF FirstFree, Idx
<1>2. ~(i < k) /\ ~(k < i)
  BY <1>1 DEF FirstFree
<1> QED
  BY <1>1, <1>2

LEMMA ExecutingStarts ==
  ASSUME Typed, NEW j \in Jobs, Due(j)
  PROVE  /\ Executing(j, "cron") \in Started(now)
         /\ row[j].next \in 0..now /\ row[j].next \in Instants /\ Pending(j)
<1>1. row[j] \in Rows
  BY DEF Typed
<1>2. row[j].next \in Instants /\ row[j].next <= now /\ row[j].next \in 0..now
  BY <1>1 DEF Due, Rows, Typed, Instants
<1>3. Pending(j)
  BY DEF Due, Pending
<1> QED
  BY <1>1, <1>2, <1>3 DEF Executing, Started, Rows

LEMMA WritingAdvances ==
  ASSUME NEW c \in Crons, Parses(c), NEW t \in 0..MaxTime,
         NEW due \in Instants \cup {NoRun}
  PROVE  LET a == Writing("cron", c, due, t) IN
         /\ a \in Advancing
         /\ a # Free /\ a.st = "writing" /\ a.trigger = "cron" /\ a.cron = c /\ a.due = due
         /\ Matches(c, a.val) /\ a.val > t /\ a.val \in Instants
BY NextRunAfter DEF Writing, Advancing, Free

LEMMA DispatchTyped ==
  ASSUME Typed, Dispatch
  PROVE  act' \in [Jobs -> [Idx -> Activations(now)]]
<1>1. ASSUME NEW j \in Jobs, NEW k \in Idx
      PROVE  (IF k \in FirstFree(j) /\ Due(j) THEN Executing(j, "cron")
              ELSE IF k \in FirstFree(j) /\ Unscheduled(j)
                THEN Writing("cron", row[j].cron, NoRun, now)
              ELSE act[j][k]) \in Activations(now)
  <2>1. row[j].cron \in Crons
    BY DEF Typed, Rows
  <2>2. Due(j) => Executing(j, "cron") \in Activations(now)
    BY ExecutingStarts DEF Activations
  <2>3. Unscheduled(j) => Writing("cron", row[j].cron, NoRun, now) \in Activations(now)
    BY <2>1, WritingAdvances DEF Unscheduled, Activations, Typed
  <2>4. act[j][k] \in Activations(now)
    BY DEF Typed
  <2> QED
    BY <2>2, <2>3, <2>4
<1> QED
  BY <1>1 DEF Dispatch

\* A job that had no round in flight has at most the one the tick gives it.
LEMMA DispatchJob ==
  ASSUME Typed, NEW j \in Jobs, Job(j), CronInFlight(j) = {}, Dispatch,
         UNCHANGED <<now, row, hist>>
  PROVE  Job(j)'
<1> USE DEF hist
<1>1. \A k \in Idx : act'[j][k] =
        IF k \in FirstFree(j) /\ Due(j) THEN Executing(j, "cron")
        ELSE IF k \in FirstFree(j) /\ Unscheduled(j)
          THEN Writing("cron", row[j].cron, NoRun, now)
        ELSE act[j][k]
  BY DEF Dispatch
<1>2. row[j] \in Rows /\ now \in 0..MaxTime
  BY DEF Typed
<1>3. CASE Due(j)
  <2>1. PICK k \in FirstFree(j) : TRUE
    BY <1>3 DEF Dispatch
  <2>2. k \in Idx
    BY DEF FirstFree
  <2>3. act'[j][k] = Executing(j, "cron")
    BY <1>1, <1>3, <2>2
  <2>4. Executing(j, "cron") # Free
    BY DEF Executing, Free
  <2>5. CronInFlight(j)' = {k}
    <3>1. \A i \in Idx \ {k} : act'[j][i] = act[j][i]
      BY <1>1, <1>3, FirstFreeUnique DEF Unscheduled, Due
    <3>2. \A i \in Idx \ {k} : i \notin CronInFlight(j)'
      BY <3>1 DEF CronInFlight, InFlight
    <3>3. k \in CronInFlight(j)'
      BY <2>2, <2>3, <2>4 DEF CronInFlight, InFlight, Executing
    <3> QED
      BY <3>2, <3>3 DEF CronInFlight, InFlight
  <2>6. /\ act'[j][k].st = "executing" /\ act'[j][k].due = row[j].next
        /\ act'[j][k].cron = row[j].cron
    BY <2>3 DEF Executing
  <2>7. Pending(j)
    BY <1>3, ExecutingStarts
  <2>8. Counted(j)'
    <3>1. Within(j, runs[j][row[j].next])
      BY <2>7 DEF Job, Counted
    <3> QED
      BY <2>5, <2>6, <3>1 DEF Job, Counted, Within
  <2>9. EditsPaid(j)'
    <3>1. Within(j, stale[j] + OwedByRow(j) - edits[j])
      BY DEF Job, EditsPaid
    <3>2. OwedBy(j, act[j][k])' = OwedByRow(j)
      BY <2>6, <2>7 DEF OwedBy, OwedByRow, One
    <3> QED
      BY <2>5, <3>1, <3>2 DEF Job, EditsPaid, Within
  <2> QED
    BY <2>5, <2>6, <2>8, <2>9 DEF Job, OneRound, RoundKept
<1>4. CASE Unscheduled(j)
  <2>1. PICK k \in FirstFree(j) : TRUE
    BY <1>4 DEF Dispatch
  <2>2. k \in Idx /\ ~Due(j)
    BY <1>4 DEF FirstFree, Unscheduled, Due
  <2>3. act'[j][k] = Writing("cron", row[j].cron, NoRun, now)
    BY <1>1, <1>4, <2>2
  <2>4. LET a == act'[j][k] IN
        /\ a # Free /\ a.st = "writing" /\ a.trigger = "cron"
        /\ a.cron = row[j].cron /\ a.due = NoRun
        /\ Matches(a.cron, a.val) /\ a.val > now /\ a.val \in Instants
    BY <1>2, <1>4, <2>3, WritingAdvances DEF Unscheduled, Rows
  <2>5. CronInFlight(j)' = {k}
    <3>1. \A i \in Idx \ {k} : act'[j][i] = act[j][i]
      BY <1>1, <2>2, FirstFreeUnique
    <3>2. \A i \in Idx \ {k} : i \notin CronInFlight(j)'
      BY <3>1 DEF CronInFlight, InFlight
    <3>3. k \in CronInFlight(j)'
      BY <2>2, <2>4 DEF CronInFlight, InFlight
    <3> QED
      BY <3>2, <3>3 DEF CronInFlight, InFlight
  <2>6. row[j].next = NoRun
    BY <1>4 DEF Unscheduled
  <2>7. Counted(j)'
    <3>1. runs[j][act'[j][k].val] = 0
      <4>1. runs[j][act'[j][k].val] \in Nat
        BY <2>4 DEF Typed
      <4>2. ~(act'[j][k].val <= now)
        BY <1>2, <2>4 DEF Instants
      <4> QED
        BY <2>4, <4>1, <4>2 DEF Job, Counted
    <3> QED
      BY <2>4, <2>5, <3>1 DEF Job, Counted, Within
  <2>8. EditsPaid(j)'
    <3>1. Within(j, stale[j] + OwedByRow(j) - edits[j])
      BY DEF Job, EditsPaid
    <3>2. OwedBy(j, act[j][k])' = 0 /\ OwedByRow(j) = 0
      BY <2>4, <2>6 DEF OwedBy, OwedByRow, One, Pending
    <3> QED
      BY <2>5, <3>1, <3>2 DEF Job, EditsPaid, Within
  <2> QED
    BY <2>4, <2>5, <2>6, <2>7, <2>8 DEF Job, OneRound, RoundKept
<1>5. CASE ~Due(j) /\ ~Unscheduled(j)
  <2>1. \A k \in Idx : act'[j][k] = act[j][k]
    BY <1>1, <1>5
  <2>2. SameRound(j) /\ SameBooks(j)
    BY <2>1 DEF SameRound, SameBooks, CronInFlight, InFlight
  <2> QED
    BY <1>2, <2>2, JobUntouched
<1> QED
  BY <1>3, <1>4, <1>5

-----------------------------------------------------------------------------
(* One step of one activation.  Each lemma says what becomes of its job.   *)

\* What the steps of activations leave alone keeps its type.
LEMMA BecomesTyped ==
  ASSUME Typed, NEW j \in Jobs, NEW k \in Idx, NEW v \in Activations(now),
         act' = [act EXCEPT ![j][k] = v]
  PROVE  act' \in [Jobs -> [Idx -> Activations(now)]]
BY DEF Typed

\* Only in a worker that is up, or past its priming tick, is anything in flight.
LEMMA QuietKept ==
  ASSUME Typed, Quiet, NEW j \in Jobs, NEW k \in InFlight(j),
         UNCHANGED <<phase, primed>>
  PROVE  Quiet'
BY DEF Quiet

LEMMA PerformInv ==
  ASSUME IInv, NEW j \in Jobs, NEW k \in Idx, Perform(j, k)
  PROVE  IInv'
<1> DEFINE a == act[j][k]
           v == [a EXCEPT !.st = "recording"]
<1> USE DEF IInv, Perform, jobVars, budgets
<1>1. a \in Started(now) /\ a # Free /\ a.st = "executing" /\ k \in InFlight(j)
  BY ActivationKinds DEF InFlight, Free
<1>2. /\ v \in Started(now) /\ v # Free /\ v.st = "recording"
      /\ v.trigger = a.trigger /\ v.cron = a.cron /\ v.due = a.due
  BY <1>1 DEF Started, Free
<1>3. act' = [act EXCEPT ![j][k] = v]
  <2>1. act[j] \in [Idx -> Activations(now)] /\ act \in [Jobs -> [Idx -> Activations(now)]]
    BY DEF Typed
  <2> QED
    BY <2>1
<1> HIDE DEF v
<1>4. Typed'
  <2>1. act' \in [Jobs -> [Idx -> Activations(now)]]
    BY <1>2, <1>3, BecomesTyped DEF Activations
  <2>2. runs' \in [Jobs -> [Instants -> 0..CountCap]]
    BY CountUpType DEF Typed
  <2>3. stale' \in [Jobs -> 0..CountCap]
    BY CountUpType DEF Typed
  <2> QED
    BY <2>1, <2>2, <2>3 DEF Typed
<1>5. Quiet'
  BY <1>1, QuietKept
<1>6. ASSUME NEW i \in Jobs \ {j} PROVE Job(i)'
  <2>1. act'[i] = act[i] /\ SameBooks(i)
    BY <1>3 DEF Typed, SameBooks
  <2> QED
    BY <2>1, JobAlone DEF Typed
<1>7. CASE a.trigger # "cron"
  <2>1. SameRound(j) /\ SameBooks(j)
    BY <1>2, <1>3, <1>7, OtherBecomes DEF CronInFlight, SameBooks
  <2>2. Job(j)'
    BY <2>1, JobUntouched DEF Typed
  <2> QED
    BY <1>4, <1>5, <1>6, <2>2
<1>8. CASE a.trigger = "cron"
  <2>1. k \in CronInFlight(j)
    BY <1>1, <1>8 DEF CronInFlight
  <2>0. Job(j) /\ v # Free /\ v.trigger = "cron"
    BY <1>2, <1>8
  <2>2. act'[j][k] = v /\ CronInFlight(j)' = {k}
    BY <1>3, <2>0, <2>1, RoundGoesOn
  <2>3. a.due \in 0..now /\ a.due \in Instants /\ a.due # NoRun
    BY <1>1, <1>8 DEF Started, Typed, Instants
  <2>4. runs'[j] = [runs[j] EXCEPT ![a.due] = CountUp(@)] /\ runs[j] \in [Instants -> 0..CountCap]
    BY <1>8 DEF Typed
  <2>5. Within(j, runs[j][a.due])
    BY <1>1, <2>1 DEF Job, Counted
  <2>6. Counted(j)'
    <3>1. \A d \in Instants : runs'[j][d] > 0 => d <= now'
      BY <2>3, <2>4 DEF Job, Counted
    <3>2. CountUp(runs[j][a.due]) <= 1 + cut[j]
      BY <2>3, <2>4, <2>5, CountUpType DEF Within, Typed
    <3>3. \A d \in Instants : runs'[j][d] <= 1 + cut'[j]
      BY <2>3, <2>4, <3>2 DEF Job, Counted
    <3> QED
      BY <1>2, <2>2, <3>1, <3>3 DEF Counted
  <2>7. EditsPaid(j)'
    <3>1. Within(j, stale[j] + OwedBy(j, a) - edits[j])
      BY <2>1 DEF Job, EditsPaid
    <3>2. stale'[j] = IF Matches(a.cron, a.due) THEN stale[j] ELSE CountUp(stale[j])
      BY <1>8 DEF Typed
    <3>3. OwedBy(j, act[j][k])' = One(a.cron # row[j].cron)
      BY <1>2, <2>2 DEF OwedBy, One
    <3>4. stale[j] \in 0..CountCap /\ edits[j] \in Nat /\ cut[j] \in 0..CountCap
      BY DEF Typed
    <3>5. stale'[j] + OwedBy(j, act[j][k])' <= stale[j] + OwedBy(j, a)
      BY <1>1, <3>2, <3>3, <3>4, CountUpType DEF OwedBy, One
    <3>6. stale'[j] \in 0..CountCap /\ OwedBy(j, act[j][k])' \in 0..1 /\ OwedBy(j, a) \in 0..2
      BY <3>2, <3>3, <3>4, CountUpType DEF OwedBy, One
    <3>7. Within(j, stale[j] + OwedBy(j, act[j][k]) - edits[j])'
      BY <3>1, <3>4, <3>5, <3>6 DEF Within
    <3>8. stale'[j] <= edits[j] + cut[j]
      BY <3>1, <3>4, <3>5, <3>6 DEF Within
    <3> QED
      BY <2>2, <3>7, <3>8 DEF EditsPaid
  <2>8. Job(j)'
    BY <1>2, <2>1, <2>2, <2>6, <2>7 DEF Job, OneRound, RoundKept
  <2> QED
    BY <1>4, <1>5, <1>6, <2>8
<1> QED
  BY <1>7, <1>8

\* What a step of one activation leaves of the other jobs.
LEMMA OthersAlone ==
  ASSUME IInv, NEW j \in Jobs, NEW k \in Idx, NEW v,
         act' = [act EXCEPT ![j][k] = v], now' = now,
         \A i \in Jobs \ {j} : SameBooks(i)
  PROVE  \A i \in Jobs \ {j} : Job(i)'
<1> SUFFICES ASSUME NEW i \in Jobs \ {j} PROVE Job(i)'
  OBVIOUS
<1>1. act'[i] = act[i] /\ now' \in Nat /\ now' >= now
  BY DEF IInv, Typed
<1> QED
  BY <1>1, JobAlone DEF IInv

LEMMA ConnectFailsInv ==
  ASSUME IInv, NEW j \in Jobs, NEW k \in Idx, ConnectFails(j, k)
  PROVE  IInv'
<1> DEFINE a == act[j][k]
<1> USE DEF IInv, ConnectFails, jobVars, hist
<1>1. a \in Started(now) /\ a # Free /\ a.st = "executing" /\ k \in InFlight(j)
  BY ActivationKinds DEF InFlight, Free
<1>2. Typed'
  <2>1. act' \in [Jobs -> [Idx -> Activations(now)]]
    BY BecomesTyped DEF Activations
  <2>2. faults' \in [FaultKinds -> Nat]
    BY FaultType DEF FaultKinds
  <2> QED
    BY <2>1, <2>2 DEF Typed
<1>3. Quiet'
  BY <1>1, QuietKept
<1>4. \A i \in Jobs : SameBooks(i)
  BY DEF SameBooks
<1>5. \A i \in Jobs \ {j} : Job(i)'
  BY <1>4, OthersAlone
<1>6. CASE a.trigger # "cron"
  <2>1. SameRound(j)
    BY <1>6, OtherBecomes DEF CronInFlight
  <2>2. Job(j)'
    BY <1>4, <2>1, JobUntouched DEF Typed
  <2> QED
    BY <1>2, <1>3, <1>5, <2>2
<1>7. CASE a.trigger = "cron"
  <2>1. k \in CronInFlight(j)
    BY <1>1, <1>7 DEF CronInFlight
  <2>2. CronInFlight(j)' = {}
    BY <2>1, RoundEnds
  <2>3. row[j].next \in {a.due, NoRun} /\ Within(j, runs[j][a.due])
    BY <1>1, <2>1 DEF Job, RoundKept, Counted
  <2>4. Counted(j)'
    BY <2>2, <2>3 DEF Job, Counted, Pending, Within
  <2>5. EditsPaid(j)'
    <3>1. Within(j, stale[j] + OwedBy(j, a) - edits[j])
      BY <2>1 DEF Job, EditsPaid
    <3>2. OwedByRow(j) <= OwedBy(j, a) /\ OwedByRow(j) \in 0..1 /\ OwedBy(j, a) \in 0..2
      BY <1>1, <2>3 DEF OwedByRow, OwedBy, One, Pending
    <3>3. stale[j] \in Nat /\ edits[j] \in Nat /\ cut[j] \in Nat
      BY DEF Typed
    <3>4. Within(j, stale[j] + OwedByRow(j) - edits[j])
      BY <3>1, <3>2, <3>3 DEF Within
    <3>5. OwedByRow(j)' = OwedByRow(j)
      BY DEF OwedByRow, Pending
    <3> QED
      BY <2>2, <3>4, <3>5 DEF Job, EditsPaid, Within
  <2>6. Job(j)'
    BY <2>2, <2>4, <2>5 DEF Job, OneRound, RoundKept
  <2> QED
    BY <1>2, <1>3, <1>5, <2>6
<1> QED
  BY <1>6, <1>7

LEMMA RecordInv ==
  ASSUME IInv, Prompt, NEW j \in Jobs, NEW k \in Idx, Record(j, k)
  PROVE  IInv'
<1> DEFINE a == act[j][k]
           v == IF a.trigger = "cron" THEN Writing("cron", a.cron, a.due, now) ELSE Free
<1> USE DEF IInv, jobVars, hist
<1>1. a \in Started(now) /\ a # Free /\ a.st = "recording" /\ k \in InFlight(j)
  BY ActivationKinds DEF InFlight, Free, Record
<1>2. a.cron \in Crons /\ Parses(a.cron) /\ a.due \in Instants \cup {NoRun} /\ now \in 0..MaxTime
  BY <1>1 DEF Started, Prompt, Typed
<1>3. act' = [act EXCEPT ![j][k] = v]
  BY <1>2 DEF Record
<1>4. UNCHANGED <<now, row, phase, primed, faults, manual, runs, cut, edits, stale>>
  BY DEF Record, budgets
<1>5. a.trigger = "cron" =>
        /\ v \in Advancing
        /\ v # Free /\ v.st = "writing" /\ v.trigger = "cron" /\ v.cron = a.cron /\ v.due = a.due
        /\ Matches(v.cron, v.val) /\ v.val > now /\ v.val \in Instants
  BY <1>2, WritingAdvances
<1>6. a.trigger # "cron" => v = Free
  OBVIOUS
<1> HIDE DEF v
<1>7. Typed'
  <2>1. v \in Activations(now)
    BY <1>5, <1>6 DEF Activations
  <2>2. act' \in [Jobs -> [Idx -> Activations(now)]]
    BY <1>3, <2>1, BecomesTyped
  <2> QED
    BY <1>4, <2>2 DEF Typed
<1>8. Quiet'
  BY <1>1, <1>4, QuietKept
<1>9. \A i \in Jobs : SameBooks(i)
  BY <1>4 DEF SameBooks
<1>10. \A i \in Jobs \ {j} : Job(i)'
  BY <1>3, <1>4, <1>9, OthersAlone
<1>11. CASE a.trigger # "cron"
  <2>1. SameRound(j)
    BY <1>3, <1>6, <1>11, OtherBecomes DEF CronInFlight
  <2>2. Job(j)'
    BY <1>2, <1>4, <1>9, <2>1, JobUntouched
  <2> QED
    BY <1>7, <1>8, <1>10, <2>2
<1>12. CASE a.trigger = "cron"
  <2>1. k \in CronInFlight(j)
    BY <1>1, <1>12 DEF CronInFlight
  <2>2. act'[j][k] = v /\ CronInFlight(j)' = {k}
    BY <1>3, <1>5, <1>12, <2>1, RoundGoesOn
  <2>3. a.due \in 0..now /\ a.due # NoRun
    BY <1>1, <1>12 DEF Started, Typed
  <2>4. RoundKept(j)'
    <3>1. row[j].next \in {a.due, NoRun}
      BY <2>1 DEF Job, RoundKept
    <3>2. v.val > a.due
      BY <1>2, <1>5, <1>12, <2>3 DEF Instants
    <3> QED
      BY <1>4, <1>5, <1>12, <2>2, <3>1, <3>2 DEF RoundKept
  <2>5. Counted(j)'
    <3>1. runs[j][v.val] = 0
      <4>1. runs[j][v.val] \in Nat
        BY <1>5, <1>12 DEF Typed
      <4>2. ~(v.val <= now)
        BY <1>2, <1>5, <1>12 DEF Instants
      <4> QED
        BY <1>5, <1>12, <4>1, <4>2 DEF Job, Counted
    <3> QED
      BY <1>4, <1>5, <1>12, <2>2, <3>1 DEF Job, Counted, Within
  <2>6. EditsPaid(j)'
    <3>1. Within(j, stale[j] + OwedBy(j, a) - edits[j])
      BY <2>1 DEF Job, EditsPaid
    <3>2. OwedBy(j, act[j][k])' = OwedBy(j, a)
      BY <1>1, <1>4, <1>5, <1>12, <2>2 DEF OwedBy, One
    <3> QED
      BY <1>4, <2>2, <3>1, <3>2 DEF Job, EditsPaid, Within
  <2>7. Job(j)'
    BY <2>2, <2>4, <2>5, <2>6 DEF Job, OneRound
  <2> QED
    BY <1>7, <1>8, <1>10, <2>7
<1> QED
  BY <1>11, <1>12

LEMMA SetNextRunInv ==
  ASSUME IInv, NEW j \in Jobs, NEW k \in Idx, SetNextRun(j, k)
  PROVE  IInv'
<1> DEFINE a == act[j][k]
<1> USE DEF IInv, SetNextRun, hist, budgets
<1>1. a \in Advancing /\ a # Free /\ a.st = "writing" /\ k \in CronInFlight(j)
  BY ActivationKinds DEF InFlight, CronInFlight, Free, Advancing
<1>2. a.val \in Instants /\ a.cron \in Crons /\ a.due \in Instants \cup {NoRun}
  BY <1>1 DEF Advancing
<1>3. /\ row[j] \in Rows
      /\ row'[j] = [row[j] EXCEPT !.next = IF row[j].status = "deleted" THEN @ ELSE a.val]
      /\ \A i \in Jobs \ {j} : row'[i] = row[i]
  BY DEF Typed
<1>4. row'[j] \in Rows
  BY <1>2, <1>3 DEF Rows
<1>5. Typed'
  <2>1. act' \in [Jobs -> [Idx -> Activations(now)]]
    BY BecomesTyped DEF Activations
  <2>2. row' \in [Jobs -> Rows]
    BY <1>3, <1>4 DEF Typed
  <2> QED
    BY <2>1, <2>2 DEF Typed
<1>6. Quiet'
  BY <1>1, QuietKept DEF CronInFlight
<1>7. \A i \in Jobs \ {j} : Job(i)'
  <2>1. \A i \in Jobs \ {j} : SameBooks(i)
    BY <1>3 DEF SameBooks
  <2> QED
    BY <2>1, OthersAlone
<1>8. CronInFlight(j)' = {}
  BY <1>1, RoundEnds
<1>9. runs[j][a.val] = 0
  BY <1>1 DEF Job, Counted
<1>10. /\ row'[j].status = row[j].status /\ row'[j].cron = row[j].cron
       /\ Pending(j)' => row'[j].next = a.val
  BY <1>2, <1>3 DEF Pending, Rows
<1>11. Counted(j)'
  <2>1. cut[j] \in Nat
    BY DEF Typed
  <2> QED
    BY <1>8, <1>9, <1>10, <2>1 DEF Job, Counted, Within
<1>12. EditsPaid(j)'
  <2>1. Within(j, stale[j] + OwedBy(j, a) - edits[j])
    BY <1>1 DEF Job, EditsPaid
  <2>2. Matches(a.cron, a.val)
    BY <1>1 DEF Job, RoundKept
  <2>3. OwedByRow(j)' <= OwedBy(j, a) /\ OwedByRow(j)' \in 0..1 /\ OwedBy(j, a) \in 0..2
    BY <1>1, <1>10, <2>2 DEF OwedByRow, OwedBy, One
  <2>4. stale[j] \in Nat /\ edits[j] \in Nat /\ cut[j] \in Nat
    BY DEF Typed
  <2>5. Within(j, stale[j] + OwedByRow(j) - edits[j])'
    BY <2>1, <2>3, <2>4 DEF Within
  <2> QED
    BY <1>8, <2>5 DEF Job, EditsPaid
<1> QED
  BY <1>5, <1>6, <1>7, <1>8, <1>11, <1>12 DEF Job, OneRound, RoundKept

LEMMA SetNextRunFailsInv ==
  ASSUME IInv, NEW j \in Jobs, NEW k \in Idx, SetNextRunFails(j, k)
  PROVE  IInv'
<1> DEFINE a == act[j][k]
<1> USE DEF IInv, SetNextRunFails, jobVars
<1>1. a \in Advancing /\ a # Free /\ a.st = "writing" /\ k \in CronInFlight(j)
  BY ActivationKinds DEF InFlight, CronInFlight, Free, Advancing
<1>2. /\ cut[j] \in 0..CountCap
      /\ cut'[j] = IF a.due = NoRun THEN cut[j] ELSE CountUp(cut[j])
      /\ \A i \in Jobs \ {j} : cut'[i] = cut[i]
  BY DEF Typed
<1>3. cut'[j] \in 0..CountCap /\ cut'[j] >= cut[j]
  BY <1>2, CountUpType
<1>4. Typed'
  <2>1. act' \in [Jobs -> [Idx -> Activations(now)]]
    BY BecomesTyped DEF Activations
  <2>2. cut' \in [Jobs -> 0..CountCap]
    BY <1>2, <1>3 DEF Typed
  <2>3. faults' \in [FaultKinds -> Nat]
    BY FaultType DEF FaultKinds
  <2> QED
    BY <2>1, <2>2, <2>3 DEF Typed
<1>5. Quiet'
  BY <1>1, QuietKept DEF CronInFlight
<1>6. \A i \in Jobs \ {j} : Job(i)'
  <2>1. \A i \in Jobs \ {j} : SameBooks(i)
    BY <1>2 DEF SameBooks
  <2> QED
    BY <2>1, OthersAlone
<1>7. CronInFlight(j)' = {}
  BY <1>1, RoundEnds
<1>8. row[j].next \in {a.due, NoRun}
  BY <1>1 DEF Job, RoundKept
<1>9. Pending(j) => /\ a.due # NoRun /\ row[j].next \in Instants
                    /\ cut'[j] = cut[j] + 1 \/ cut'[j] = CountCap
  BY <1>1, <1>2, <1>8, CountUpType DEF Pending, Advancing
<1>10. Counted(j)'
  <2>1. \A d \in Instants : runs[j][d] \in 0..CountCap /\ runs[j][d] <= 1 + cut[j]
    BY DEF Typed, Job, Counted
  <2>2. \A d \in Instants : runs[j][d] <= 1 + cut'[j]
    BY <1>2, <1>3, <2>1
  <2>3. Pending(j) => Within(j, runs[j][row[j].next])'
    BY <1>2, <1>9, <2>1 DEF Within
  <2> QED
    BY <1>7, <2>2, <2>3 DEF Job, Counted, Pending
<1>11. EditsPaid(j)'
  <2>1. Within(j, stale[j] + OwedBy(j, a) - edits[j])
    BY <1>1 DEF Job, EditsPaid
  <2>2. stale[j] \in 0..CountCap /\ edits[j] \in Nat /\ stale[j] <= edits[j] + cut[j]
    BY DEF Typed, Job, EditsPaid
  <2>3. OwedByRow(j)' = OwedByRow(j) /\ OwedByRow(j) \in 0..1 /\ OwedBy(j, a) \in 0..2
    BY DEF OwedByRow, OwedBy, One, Pending
  <2>4. CASE Pending(j)
    BY <1>2, <1>3, <1>7, <1>9, <2>2, <2>3, <2>4 DEF EditsPaid, Within
  <2>5. CASE ~Pending(j)
    <3>1. OwedByRow(j) = 0
      BY <2>5 DEF OwedByRow, One
    <3>2. Within(j, stale[j] + OwedByRow(j) - edits[j])'
      BY <1>2, <1>3, <2>1, <2>2, <2>3, <3>1 DEF Within
    <3> QED
      BY <1>2, <1>3, <1>7, <2>2, <3>2 DEF EditsPaid
  <2> QED
    BY <2>4, <2>5
<1> QED
  BY <1>4, <1>5, <1>6, <1>7, <1>10, <1>11 DEF Job, OneRound, RoundKept

-----------------------------------------------------------------------------
(* The worker's life, time, and the operator.                              *)

\* Steps that leave jobs, activations and history alone.
LEMMA NothingMoves ==
  ASSUME IInv, UNCHANGED <<row, act, runs, cut, edits, stale>>,
         now' \in 0..MaxTime, now' >= now
  PROVE  /\ \A j \in Jobs : Job(j)' /\ InFlight(j)' = InFlight(j)
         /\ act' \in [Jobs -> [Idx -> Activations(now')]]
<1>1. \A j \in Jobs : act'[j] = act[j] /\ SameBooks(j)
  BY DEF SameBooks
<1>2. \A j \in Jobs : Job(j)'
  BY <1>1, JobAlone DEF IInv
<1>3. act' \in [Jobs -> [Idx -> Activations(now')]]
  BY ActivationsGrow DEF IInv, Typed
<1> QED
  BY <1>2, <1>3 DEF InFlight

LEMMA WorkerInv ==
  ASSUME IInv, Boot \/ Arm \/ Clock \/ UNCHANGED vars
  PROVE  IInv'
<1> USE DEF Boot, Arm, Clock, vars, budgets, hist
<1>1. /\ UNCHANGED <<row, act, runs, cut, edits, stale, faults, manual>>
      /\ now' \in 0..MaxTime /\ now' >= now
  BY DEF IInv, Typed
<1>2. Typed'
  <2>1. phase' \in {"down", "priming", "up"}
    BY DEF IInv, Typed
  <2>2. primed' \in BOOLEAN
    BY DEF IInv, Typed
  <2> QED
    BY <1>1, <2>1, <2>2, NothingMoves DEF IInv, Typed
<1>3. Quiet'
  <2>1. \A j \in Jobs : InFlight(j)' = InFlight(j)
    BY <1>1, NothingMoves
  <2> QED
    BY <2>1 DEF IInv, Quiet
<1> QED
  BY <1>1, <1>2, <1>3, NothingMoves DEF IInv

LEMMA TickInv ==
  ASSUME IInv, Prompt, PrimingTick \/ Tick
  PROVE  IInv'
<1>1. \A j \in Jobs : CronInFlight(j) = {}
  BY DEF IInv, Quiet, PrimingTick, Tick, Prompt, CronInFlight
<1>2. Dispatch /\ UNCHANGED <<now, row, phase, faults, manual, hist>>
  BY DEF PrimingTick, Tick, jobVars, budgets
<1>3. Typed'
  <2>1. act' \in [Jobs -> [Idx -> Activations(now)]]
    BY <1>2, DispatchTyped DEF IInv
  <2>2. primed' \in BOOLEAN
    BY DEF PrimingTick, Tick, jobVars, IInv, Typed
  <2> QED
    BY <1>2, <2>1, <2>2 DEF IInv, Typed, hist
<1>4. Quiet'
  BY <1>2 DEF PrimingTick, Tick, jobVars, Quiet
<1>5. \A j \in Jobs : Job(j)'
  BY <1>1, <1>2, DispatchJob DEF IInv
<1> QED
  BY <1>3, <1>4, <1>5 DEF IInv

LEMMA RunNowInv ==
  ASSUME IInv, NEW j \in Jobs, RunNow(j)
  PROVE  IInv'
<1> USE DEF IInv, RunNow, jobVars, hist
<1>1. PICK k \in FirstFree(j) : act' = [act EXCEPT ![j][k] = Executing(j, "manual")]
  OBVIOUS
<1>2. k \in Idx /\ k \notin CronInFlight(j)
  BY DEF FirstFree, CronInFlight, InFlight
<1>3. /\ Executing(j, "manual") \in Started(now)
      /\ Executing(j, "manual").trigger = "manual"
  <2>1. row[j] \in Rows
    BY DEF Typed
  <2> QED
    BY <2>1 DEF Executing, Started, Rows
<1>4. Typed'
  <2>1. act' \in [Jobs -> [Idx -> Activations(now)]]
    BY <1>1, <1>2, <1>3, BecomesTyped DEF Activations
  <2>2. manual' \in Nat
    BY DEF Typed
  <2> QED
    BY <2>1, <2>2 DEF Typed
<1>5. Quiet'
  BY DEF Quiet
<1>6. \A i \in Jobs : SameRound(i) /\ SameBooks(i)
  BY <1>1, <1>2, <1>3, OtherBecomes DEF SameBooks
<1>7. \A i \in Jobs : Job(i)'
  BY <1>6, JobUntouched DEF Typed
<1> QED
  BY <1>4, <1>5, <1>7

LEMMA CrashInv ==
  ASSUME IInv, Crash
  PROVE  IInv'
<1> USE DEF IInv, Crash
<1>1. \A j \in Jobs : InFlight(j)' = {} /\ CronInFlight(j)' = {}
  BY DEF InFlight, CronInFlight
<1>2. \A j \in Jobs : /\ cut[j] \in 0..CountCap
                      /\ cut'[j] = IF CronInFlight(j) # {} THEN CountUp(cut[j]) ELSE cut[j]
  BY DEF Typed
<1>3. \A j \in Jobs : cut'[j] \in 0..CountCap /\ cut'[j] >= cut[j]
  BY <1>2, CountUpType
<1>4. Typed'
  <2>1. act' \in [Jobs -> [Idx -> Activations(now)]]
    BY DEF Activations
  <2>2. cut' \in [Jobs -> 0..CountCap]
    BY <1>2, <1>3
  <2>3. faults' \in [FaultKinds -> Nat]
    BY FaultType DEF FaultKinds
  <2> QED
    BY <2>1, <2>2, <2>3 DEF Typed
<1>5. ASSUME NEW j \in Jobs PROVE Job(j)'
  <2>1. \A d \in Instants : runs[j][d] \in 0..CountCap /\ runs[j][d] <= 1 + cut[j]
    BY DEF Typed, Job, Counted
  <2>2. stale[j] \in 0..CountCap /\ edits[j] \in Nat /\ stale[j] <= edits[j] + cut[j]
    BY DEF Typed, Job, EditsPaid
  <2>3. OwedByRow(j)' = OwedByRow(j) /\ OwedByRow(j) \in 0..1 /\ Pending(j)' = Pending(j)
    BY DEF OwedByRow, One, Pending
  <2>4. Pending(j) => row[j].next \in Instants
    BY DEF Typed, Rows, Pending
  <2>5. Counted(j)' /\ EditsPaid(j)'
    <3>1. CASE CronInFlight(j) = {}
      <4>1. Pending(j) => Within(j, runs[j][row[j].next])'
        BY <1>2, <3>1 DEF Job, Counted, Within
      <4>2. Within(j, stale[j] + OwedByRow(j) - edits[j])'
        BY <1>2, <2>3, <3>1 DEF Job, EditsPaid, Within
      <4> QED
        BY <1>1, <1>2, <2>1, <2>2, <2>3, <3>1, <4>1, <4>2 DEF Job, Counted, EditsPaid
    <3>2. CASE CronInFlight(j) # {}
      <4>1. cut'[j] = cut[j] + 1 \/ cut'[j] = CountCap
        BY <1>2, <3>2, CountUpType
      <4>2. Pending(j) => Within(j, runs[j][row[j].next])'
        BY <1>2, <1>3, <2>1, <2>4, <4>1 DEF Within
      <4>3. Within(j, stale[j] + OwedByRow(j) - edits[j])'
        BY <1>2, <1>3, <2>2, <2>3, <4>1 DEF Within
      <4>4. \A d \in Instants : runs[j][d] <= 1 + cut'[j]
        BY <1>2, <1>3, <2>1
      <4> QED
        BY <1>1, <1>2, <1>3, <2>2, <2>3, <4>2, <4>3, <4>4 DEF Job, Counted, EditsPaid
    <3> QED
      BY <3>1, <3>2
  <2> QED
    BY <1>1, <2>5 DEF Job, OneRound, RoundKept
<1> QED
  BY <1>1, <1>4, <1>5 DEF Quiet

LEMMA OperatorInv ==
  ASSUME IInv, NEW j \in Jobs, Operator(j)
  PROVE  IInv'
<1> USE DEF IInv
<1>1. /\ UNCHANGED <<now, phase, primed, act, manual, runs, cut, stale>>
      /\ edits' \in [Jobs -> 0..MaxEdits] /\ faults' \in [FaultKinds -> Nat]
  <2>1. edits' \in [Jobs -> 0..MaxEdits]
    BY DEF Operator, EditCron, SwitchOff, SwitchOn, hist, Typed
  <2>2. faults' \in [FaultKinds -> Nat]
    <3>1. CASE SwitchOff(j)
      BY <3>1, FaultType DEF SwitchOff, FaultKinds
    <3> QED
      BY <3>1 DEF Operator, EditCron, SwitchOn, budgets, Typed
  <2> QED
    BY <2>1, <2>2 DEF Operator, EditCron, SwitchOff, SwitchOn, hist, budgets
<1>2. row' \in [Jobs -> Rows] /\ \A i \in Jobs \ {j} : row'[i] = row[i] /\ edits'[i] = edits[i]
  <2>1. row[j] \in Rows
    BY DEF Typed
  <2>2. PICK r \in Rows : row' = [row EXCEPT ![j] = r]
    <3>1. CASE EditCron(j)
      <4>1. PICK c \in Crons, n \in {row[j].next, NoRun} :
              row' = [row EXCEPT ![j].cron = c, ![j].next = n]
        BY <3>1 DEF EditCron
      <4>2. [row[j] EXCEPT !.cron = c, !.next = n] \in Rows
        BY <2>1 DEF Rows
      <4>3. row' = [row EXCEPT ![j] = [row[j] EXCEPT !.cron = c, !.next = n]]
        BY <4>1 DEF Typed
      <4> QED
        BY <4>2, <4>3
    <3>2. CASE SwitchOff(j) \/ SwitchOn(j)
      <4>1. PICK s \in {"active", "inactive", "deleted"} :
              row' = [row EXCEPT ![j].status = s]
        BY <3>2 DEF SwitchOff, SwitchOn
      <4>2. [row[j] EXCEPT !.status = s] \in Rows
        BY <2>1 DEF Rows
      <4> QED
        BY <4>1, <4>2
    <3> QED
      BY <3>1, <3>2 DEF Operator
  <2> QED
    BY <2>2 DEF Typed, Operator, EditCron, SwitchOff, SwitchOn, hist
<1>3. Typed'
  BY <1>1, <1>2 DEF Typed
<1>4. Quiet'
  BY <1>1 DEF Quiet, InFlight
<1>5. \A i \in Jobs \ {j} : Job(i)'
  <2>1. \A i \in Jobs \ {j} : act'[i] = act[i] /\ SameBooks(i)
    BY <1>1, <1>2 DEF SameBooks
  <2> QED
    BY <1>1, <2>1, JobAlone DEF Typed
<1>6. CronInFlight(j)' = CronInFlight(j) /\ \A k \in CronInFlight(j) : act'[j][k] = act[j][k]
  BY <1>1 DEF CronInFlight, InFlight
<1>7. row[j] \in Rows /\ row'[j].next \in {row[j].next, NoRun}
  <2>1. row[j] \in Rows
    BY DEF Typed
  <2>2. CASE EditCron(j)
    <3>1. PICK c \in Crons, n \in {row[j].next, NoRun} :
            row' = [row EXCEPT ![j].cron = c, ![j].next = n]
      BY <2>2 DEF EditCron
    <3>2. row'[j].next = n
      BY <2>1, <3>1 DEF Typed, Rows
    <3> QED
      BY <2>1, <3>2
  <2>3. CASE SwitchOff(j) \/ SwitchOn(j)
    <3>1. PICK s \in {"active", "inactive", "deleted"} :
            row' = [row EXCEPT ![j].status = s]
      BY <2>3 DEF SwitchOff, SwitchOn
    <3>2. row'[j].next = row[j].next
      BY <2>1, <3>1 DEF Typed, Rows
    <3> QED
      BY <2>1, <3>2
  <2> QED
    BY <2>1, <2>2, <2>3 DEF Operator
<1>8. Pending(j)' => Pending(j) /\ row'[j].next = row[j].next
  BY <1>7 DEF Typed, Rows, Pending, Operator, EditCron, SwitchOff, SwitchOn
<1>9. RoundKept(j)'
  BY <1>6, <1>7 DEF Job, RoundKept
<1>10. Counted(j)'
  BY <1>1, <1>6, <1>8 DEF Job, Counted, Within
<1>11. stale[j] \in Nat /\ edits[j] \in Nat /\ cut[j] \in 0..CountCap
  BY DEF Typed
<1>12. EditsPaid(j)'
  <2>1. CASE EditCron(j)
    <3>1. edits'[j] = edits[j] + 1
      BY <2>1 DEF EditCron, Typed
    <3>3. OwedByRow(j) \in 0..2 /\ OwedByRow(j)' \in 0..2 /\ OwedByRow(j)' <= OwedByRow(j) + 1
      BY DEF OwedByRow, One
    <3>4. ASSUME NEW k \in CronInFlight(j)
          PROVE  /\ OwedBy(j, act[j][k]) \in 0..2 /\ OwedBy(j, act[j][k])' \in 0..2
                 /\ OwedBy(j, act[j][k])' <= OwedBy(j, act[j][k]) + 1
      BY <1>6 DEF OwedBy, One
    <3>5. CronInFlight(j)' = {} => Within(j, stale[j] + OwedByRow(j) - edits[j])'
      <4>1. CronInFlight(j) = {} => Within(j, stale[j] + OwedByRow(j) - edits[j])
        BY DEF Job, EditsPaid
      <4>2. CASE Within(j, stale[j] + OwedByRow(j) - edits[j])
        <5>1. cut'[j] = cut[j] /\ stale'[j] = stale[j]
          BY <1>1
        <5> QED
          BY <1>11, <3>1, <3>3, <4>2, <5>1 DEF Within
      <4> QED
        BY <1>6, <4>1, <4>2
    <3>6. ASSUME NEW k \in CronInFlight(j)
          PROVE  Within(j, stale[j] + OwedBy(j, act[j][k]) - edits[j])'
      <4>1. Within(j, stale[j] + OwedBy(j, act[j][k]) - edits[j])
        BY DEF Job, EditsPaid
      <4>2. cut'[j] = cut[j] /\ stale'[j] = stale[j]
        BY <1>1
      <4> QED
        BY <1>11, <3>1, <3>4, <4>1, <4>2 DEF Within
    <3> QED
      BY <1>1, <1>6, <1>11, <3>1, <3>5, <3>6 DEF Job, EditsPaid
  <2>2. CASE SwitchOff(j) \/ SwitchOn(j)
    <3>1. edits'[j] = edits[j] /\ row'[j].cron = row[j].cron
      BY <2>2, <1>7 DEF SwitchOff, SwitchOn, hist, Typed, Rows
    <3>2. OwedByRow(j)' <= OwedByRow(j) /\ OwedByRow(j)' \in 0..1 /\ OwedByRow(j) \in 0..1
      BY <1>8, <3>1 DEF OwedByRow, One
    <3>3. \A k \in CronInFlight(j) : OwedBy(j, act[j][k])' = OwedBy(j, act[j][k])
      BY <1>6, <3>1 DEF OwedBy
    <3>4. CronInFlight(j) = {} => Within(j, stale[j] + OwedByRow(j) - edits[j])'
      BY <1>1, <1>11, <3>1, <3>2 DEF Job, EditsPaid, Within
    <3> QED
      BY <1>1, <1>6, <1>11, <3>1, <3>3, <3>4 DEF Job, EditsPaid, Within
  <2> QED
    BY <2>1, <2>2 DEF Operator
<1>13. Job(j)'
  BY <1>6, <1>9, <1>10, <1>12 DEF Job, OneRound
<1> QED
  BY <1>3, <1>4, <1>5, <1>13

LEMMA NextInv ==
  ASSUME IInv, Prompt, [Next]_vars
  PROVE  IInv'
<1>1. CASE Boot \/ Arm \/ Clock \/ UNCHANGED vars
  BY <1>1, WorkerInv
<1>2. CASE PrimingTick \/ Tick
  BY <1>2, TickInv
<1>3. CASE Crash
  BY <1>3, CrashInv
<1>4. CASE \E j \in Jobs : RunNow(j) \/ Operator(j)
  BY <1>4, RunNowInv, OperatorInv
<1>5. CASE \E j \in Jobs, k \in Idx : ActStep(j, k)
  BY <1>5, PerformInv, ConnectFailsInv, RecordInv, SetNextRunInv, SetNextRunFailsInv
     DEF ActStep
<1> QED
  BY <1>1, <1>2, <1>3, <1>4, <1>5 DEF Next

LEMMA InvCounted == IInv => RunsCounted
<1> SUFFICES ASSUME IInv PROVE RunsCounted
  OBVIOUS
<1>1. TypeOK
  BY TypedTypeOK DEF IInv
<1>2. OncePerDue
  BY DEF IInv, Job, Counted, OncePerDue
<1>3. StaleAtMostOncePerEdit
  BY DEF IInv, Job, EditsPaid, StaleAtMostOncePerEdit
<1> QED
  BY <1>1, <1>2, <1>3 DEF RunsCounted

-----------------------------------------------------------------------------
(* What a step may do to next_run.                                         *)

\* next_run does not move back, and an instant computed for it is to come.
Advances(j, k) ==
  /\ act[j][k].st = "writing" /\ act'[j][k] = Free /\ row' # row
       => row[j].next = NoRun \/ row'[j].next >= row[j].next
  /\ act[j][k].st # "writing" /\ act'[j][k].st = "writing" => act'[j][k].val > now

\* next_run moves by the operator's hand or at the end of a cron round.
Moved(j) ==
  row'[j].next # row[j].next => edits' # edits \/ CronInFlight(j) # {}

LEMMA DispatchAdvances ==
  ASSUME IInv, Prompt, Dispatch, row' = row, NEW j \in Jobs, NEW k \in Idx
  PROVE  Advances(j, k)
<1>1. act'[j][k] = IF k \in FirstFree(j) /\ Due(j) THEN Executing(j, "cron")
                   ELSE IF k \in FirstFree(j) /\ Unscheduled(j)
                     THEN Writing("cron", row[j].cron, NoRun, now)
                   ELSE act[j][k]
  BY DEF Dispatch
<1>2. row[j].cron \in Crons /\ now \in 0..MaxTime /\ Parses(row[j].cron)
  BY DEF IInv, Typed, Rows, Prompt
<1>3. ComputeNextRun(row[j].cron, now) > now
  BY <1>2, NextRunAfter
<1>4. Executing(j, "cron").st = "executing"
  BY DEF Executing
<1>5. Writing("cron", row[j].cron, NoRun, now).val > now
  BY <1>3 DEF Writing
<1> QED
  BY <1>1, <1>4, <1>5 DEF Advances

LEMMA RecordAdvances ==
  ASSUME IInv, Prompt, NEW i \in Jobs, NEW l \in Idx, Record(i, l),
         NEW j \in Jobs, NEW k \in Idx
  PROVE  Advances(j, k)
<1> DEFINE a == act[i][l]
<1>1. row' = row /\ act \in [Jobs -> [Idx -> Activations(now)]]
  BY DEF Record, jobVars, IInv, Typed
<1>2. CASE j = i /\ k = l /\ a.trigger = "cron" /\ Parses(a.cron)
  <2>1. a \in Started(now) /\ now \in 0..MaxTime
    BY ActivationKinds DEF IInv, Typed, Record
  <2>2. a.cron \in Crons
    BY <2>1 DEF Started
  <2>3. act'[j][k] = Writing(a.trigger, a.cron, a.due, now)
    BY <1>1, <1>2 DEF Record
  <2>4. act'[j][k].val = ComputeNextRun(a.cron, now)
    BY <2>3 DEF Writing
  <2> QED
    BY <1>1, <1>2, <2>1, <2>2, <2>4, NextRunAfter DEF Advances
<1>3. CASE ~(j = i /\ k = l /\ a.trigger = "cron" /\ Parses(a.cron))
  <2>1. act'[j][k] \in {act[j][k], Free}
    BY <1>1, <1>3 DEF Record
  <2> QED
    BY <1>1, <2>1 DEF Advances, Free
<1> QED
  BY <1>2, <1>3

LEMMA SetNextRunAdvances ==
  ASSUME IInv, NEW i \in Jobs, NEW l \in Idx, SetNextRun(i, l),
         NEW j \in Jobs, NEW k \in Idx
  PROVE  Advances(j, k) /\ Moved(j)
<1> DEFINE a == act[i][l]
<1>1. act \in [Jobs -> [Idx -> Activations(now)]] /\ row \in [Jobs -> Rows]
  BY DEF IInv, Typed
<1>2. a \in Advancing /\ l \in CronInFlight(i)
  <2>1. a \in Advancing
    BY ActivationKinds DEF IInv, SetNextRun
  <2> QED
    BY <2>1 DEF Advancing, CronInFlight, InFlight, Free
<1>3. /\ row[i].next \in {a.due, NoRun}
      /\ a.due # NoRun => a.val > a.due
      /\ a.due \in Instants \cup {NoRun} /\ a.val \in Instants
  <2>1. a.st = "writing"
    BY DEF SetNextRun
  <2> QED
    BY <1>2, <2>1 DEF IInv, Job, RoundKept, Advancing
<1>4. row'[i].next \in {row[i].next, a.val} /\ \A m \in Jobs \ {i} : row'[m] = row[m]
  BY <1>1 DEF SetNextRun, Rows
<1>5. row[i].next = NoRun \/ row'[i].next >= row[i].next
  BY <1>3, <1>4 DEF Instants
<1>6. act'[j][k] = IF j = i /\ k = l THEN Free ELSE act[j][k]
  BY <1>1 DEF SetNextRun
<1>7. Advances(j, k)
  BY <1>5, <1>6 DEF Advances, Free
<1> QED
  BY <1>2, <1>4, <1>7 DEF Moved

LEMMA StepAdvances ==
  ASSUME IInv, Prompt, [Next]_vars
  PROVE  \A j \in Jobs : Moved(j) /\ \A k \in Idx : Advances(j, k)
<1> SUFFICES ASSUME NEW j \in Jobs
             PROVE  Moved(j) /\ \A k \in Idx : Advances(j, k)
  OBVIOUS
<1>1. act \in [Jobs -> [Idx -> Activations(now)]] /\ row \in [Jobs -> Rows]
  BY DEF IInv, Typed
<1>2. CASE Boot \/ Arm \/ Clock \/ UNCHANGED vars
  BY <1>2 DEF Boot, Arm, Clock, vars, Moved, Advances, Free
<1>3. CASE PrimingTick \/ Tick
  <2>1. row' = row /\ Dispatch
    BY <1>3 DEF PrimingTick, Tick, jobVars
  <2> QED
    BY <2>1, DispatchAdvances DEF Moved
<1>4. CASE Crash
  <2>1. row' = row /\ \A k \in Idx : act'[j][k] = Free
    BY <1>4 DEF Crash
  <2> QED
    BY <2>1 DEF Moved, Advances, Free
<1>5. ASSUME NEW i \in Jobs, RunNow(i)
      PROVE  Moved(j) /\ \A k \in Idx : Advances(j, k)
  <2>1. PICK l \in FirstFree(i) : act' = [act EXCEPT ![i][l] = Executing(i, "manual")]
    BY <1>5 DEF RunNow
  <2>2. row' = row /\ \A k \in Idx : act'[j][k] \in {act[j][k], Executing(i, "manual")}
    BY <1>1, <1>5, <2>1 DEF RunNow, jobVars, FirstFree
  <2> QED
    BY <2>2 DEF Moved, Advances, Executing
<1>6. ASSUME NEW i \in Jobs, Operator(i)
      PROVE  Moved(j) /\ \A k \in Idx : Advances(j, k)
  <2>1. act' = act
    BY <1>6 DEF Operator, EditCron, SwitchOff, SwitchOn
  <2>2. \A k \in Idx : Advances(j, k)
    BY <1>1, <2>1 DEF Advances, Free
  <2>3. CASE EditCron(i)
    <3>1. edits[i] \in Int /\ edits' = [edits EXCEPT ![i] = edits[i] + 1]
      BY <2>3 DEF EditCron, IInv, Typed
    <3>2. edits' # edits
      BY <3>1 DEF IInv, Typed
    <3> QED
      BY <2>2, <3>2 DEF Moved
  <2>4. CASE SwitchOff(i) \/ SwitchOn(i)
    <3>1. PICK s \in {"active", "inactive", "deleted"} :
            row' = [row EXCEPT ![i].status = s]
      BY <2>4 DEF SwitchOff, SwitchOn
    <3>2. row'[j].next = row[j].next
      BY <1>1, <3>1 DEF Rows
    <3> QED
      BY <2>2, <3>2 DEF Moved
  <2> QED
    BY <1>6, <2>3, <2>4 DEF Operator
<1>7. ASSUME NEW i \in Jobs, NEW l \in Idx, ActStep(i, l)
      PROVE  Moved(j) /\ \A k \in Idx : Advances(j, k)
  <2>1. CASE Perform(i, l)
    <3>1. row' = row /\ \A k \in Idx : act'[j][k].st \in {act[j][k].st, "recording"}
      <4>1. act[i][l] \in Started(now)
        BY <2>1, ActivationKinds DEF IInv, Perform
      <4>2. act' = [act EXCEPT ![i][l] = [act[i][l] EXCEPT !.st = "recording"]]
        BY <1>1, <2>1 DEF Perform
      <4>3. [act[i][l] EXCEPT !.st = "recording"].st = "recording"
        BY <4>1 DEF Started
      <4> QED
        BY <1>1, <2>1, <4>2, <4>3 DEF Perform, jobVars
    <3> QED
      BY <1>1, <3>1 DEF Moved, Advances, Free
  <2>2. CASE ConnectFails(i, l) \/ SetNextRunFails(i, l)
    <3>1. row' = row /\ \A k \in Idx : act'[j][k] \in {act[j][k], Free}
      BY <1>1, <2>2 DEF ConnectFails, SetNextRunFails, jobVars
    <3> QED
      BY <1>1, <3>1 DEF Moved, Advances, Free
  <2>3. CASE Record(i, l)
    BY <2>3, RecordAdvances DEF Moved, Record, jobVars
  <2>4. CASE SetNextRun(i, l)
    BY <2>4, SetNextRunAdvances DEF Moved
  <2> QED
    BY <1>7, <2>1, <2>2, <2>3, <2>4 DEF ActStep
<1> QED
  BY <1>2, <1>3, <1>4, <1>5, <1>6, <1>7 DEF Next

-----------------------------------------------------------------------------
\* No due instant is executed twice but for the rounds that a crash or a failed
\* UPDATE cut short, and an old cron string runs at most once more for each
\* edit (maybeRun, run and scheduleNext of executor.ts), in every behaviour.
THEOREM RunsAlwaysCounted ==
  ASSUME Prompt
  PROVE  Spec => []RunsCounted
<1>1. Init => IInv
  BY InitInv
<1>2. IInv /\ [Next]_vars => IInv'
  BY NextInv
<1>3. IInv => RunsCounted
  BY InvCounted
<1> QED
  BY <1>1, <1>2, <1>3, PTL DEF Spec

\* next_run never moves back, what is computed for it is still to come, and a
\* run-now never moves it (scheduleNext, the run-now route of server.ts).
THEOREM ScheduleAlwaysKept ==
  ASSUME Prompt
  PROVE  Spec => ScheduleKept
<1>1. Init => IInv
  BY InitInv
<1>2. IInv /\ [Next]_vars => IInv'
  BY NextInv
<1>3. IInv /\ [Next]_vars =>
        [\A j \in Jobs, k \in Idx :
           /\ act[j][k].st = "writing" /\ act'[j][k] = Free /\ row' # row
                => row[j].next = NoRun \/ row'[j].next >= row[j].next
           /\ act[j][k].st # "writing" /\ act'[j][k].st = "writing"
                => act'[j][k].val > now]_vars
  BY StepAdvances DEF Advances
<1>4. IInv /\ [Next]_vars =>
        [\A j \in Jobs : row'[j].next # row[j].next =>
           edits' # edits \/ CronInFlight(j) # {}]_vars
  BY StepAdvances DEF Moved
<1> QED
  BY <1>1, <1>2, <1>3, <1>4, PTL DEF Spec, ScheduleKept, NextRunAdvances, RunNowKeepsSchedule
=============================================================================
