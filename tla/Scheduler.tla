----------------------------- MODULE Scheduler ------------------------------
(***************************************************************************)
(* The scheduler worker: Executor (scheduler/src/executor.ts), the timer   *)
(* and the run-now route of server.ts, the rows of scheduler.jobs that     *)
(* db.ts reads and updates, and the operator who edits those rows in SQL.  *)
(*                                                                         *)
(* Time is counted in minutes, the resolution of cron; a tick (30 s by     *)
(* default) may come several times within one.  A cron expression is       *)
(* abstracted to the period of the instants it matches, 0 when parseCron   *)
(* rejects it.  An activation is one maybeRun() or run-now call in flight, *)
(* holding the job row as it was when it was read.                         *)
(***************************************************************************)
EXTENDS Integers, FiniteSets

CONSTANTS Jobs,
          Crons,       \* cron expressions
          Every,       \* Every[c]: minutes between instants, 0 = unparseable
          InitialCron, \* InitialCron[j]: how job j was registered
          Depth,       \* bound: activations of one job in flight
          MayOverlap,  \* a job may still run when the next tick fires
          MaxTime,     \* bound on the clock
          MaxEdits,    \* bound on operator edits of a job
          MaxManual,   \* bound on run-now requests
          MaxFaults,   \* MaxFaults[k]: bound on faults (and switch-offs) of kind k
          CountCap,    \* history counters stop here
          NoRun        \* next_run IS NULL

FaultKinds == {"crash", "connect", "advance", "switch"}
Idx == 1..Depth
Instants == 0..(2 * MaxTime)

ASSUME EveryAssumption == Every \in [Crons -> 0..MaxTime]
ASSUME InitialCronAssumption == InitialCron \in [Jobs -> Crons]
ASSUME NoRunAssumption == NoRun \notin Int
ASSUME BoundsAssumption ==
  /\ {Depth, MaxTime, MaxEdits, MaxManual, CountCap} \subseteq Nat
  /\ MayOverlap \in BOOLEAN
  /\ MaxFaults \in [FaultKinds -> Nat]

VARIABLES
  now,
  row,        \* row[j]: status, cron and next_run of the scheduler.jobs row
  phase,      \* "down", "priming" (listen()'s first tick), "up"
  primed,     \* the priming tick has been dispatched
  act,        \* act[j][k]: the k-th activation of job j
  faults, manual,   \* faults and run-now requests still allowed
  runs,       \* history: runs[j][d], cron executions for the due instant d
  cut,        \* history: cron rounds of j that did not advance next_run
  edits,      \* history: cron edits of j
  stale       \* history: cron executions at an instant its cron does not match

jobVars == <<now, row, phase, primed>>
budgets == <<faults, manual>>
hist == <<runs, cut, edits, stale>>
vars == <<now, row, phase, primed, act, faults, manual, runs, cut, edits, stale>>

Free == [st |-> "free"]
ActStates == {"free", "executing", "recording", "writing"}

Init ==
  /\ now = 0
  /\ row = [j \in Jobs |-> [status |-> "active", cron |-> InitialCron[j], next |-> NoRun]]
  /\ phase = "down"
  /\ primed = FALSE
  /\ act = [j \in Jobs |-> [k \in Idx |-> Free]]
  /\ faults = MaxFaults
  /\ manual = MaxManual
  /\ runs = [j \in Jobs |-> [d \in Instants |-> 0]]
  /\ cut = [j \in Jobs |-> 0]
  /\ edits = [j \in Jobs |-> 0]
  /\ stale = [j \in Jobs |-> 0]

Fault(k) == /\ faults[k] > 0
            /\ faults' = [faults EXCEPT ![k] = @ - 1]

CountUp(n) == IF n < CountCap THEN n + 1 ELSE n

-----------------------------------------------------------------------------
Parses(c) == Every[c] > 0

\* computeNextRun: the first instant of c strictly after time t.
NextRun(c, t) == ((t \div Every[c]) + 1) * Every[c]

\* Mutant: the first instant at or after t.
NextRunInclusive(c, t) == ((t + Every[c] - 1) \div Every[c]) * Every[c]

\* computeNextRun as scheduleNext() uses it.
ComputeNextRun(c, t) == NextRun(c, t)

Matches(c, d) == Parses(c) /\ d % Every[c] = 0

\* Mutant: a job is due only once its instant is past.
DueLate(j) == row[j].status = "active" /\ row[j].next # NoRun /\ row[j].next < now

\* maybeRun: the row has a next_run that has come.
Due(j) == row[j].status = "active" /\ row[j].next # NoRun /\ row[j].next <= now

\* maybeRun: the row has no next_run, and scheduleNext can compute one.
Unscheduled(j) ==
  row[j].status = "active" /\ row[j].next = NoRun /\ Parses(row[j].cron)

FirstFree(j) == {k \in Idx : act[j][k] = Free /\ \A i \in 1..(k-1) : act[j][i] # Free}

InFlight(j) == {k \in Idx : act[j][k] # Free}
CronInFlight(j) == {k \in InFlight(j) : act[j][k].trigger = "cron"}

Executing(j, trigger) ==
  [st |-> "executing", trigger |-> trigger, cron |-> row[j].cron, due |-> row[j].next]
Writing(trigger, cron, due, t) ==
  [st |-> "writing", trigger |-> trigger, cron |-> cron, due |-> due,
   val |-> ComputeNextRun(cron, t)]

\* tick(): activeJobs(), then maybeRun() of every job up to its first await.
Dispatch ==
  /\ \A j \in Jobs : Due(j) \/ Unscheduled(j) => FirstFree(j) # {}
  /\ act' = [j \in Jobs |-> [k \in Idx |->
       IF k \in FirstFree(j) /\ Due(j) THEN Executing(j, "cron")
       ELSE IF k \in FirstFree(j) /\ Unscheduled(j)
         THEN Writing("cron", row[j].cron, NoRun, now)
       ELSE act[j][k]]]

-----------------------------------------------------------------------------
(***************************************************************************)
(* The worker: boot, ticks, run-now, crash.                                *)
(***************************************************************************)
Boot ==
  /\ phase = "down"
  /\ phase' = "priming"
  /\ primed' = FALSE
  /\ UNCHANGED <<now, row, act, budgets, hist>>

\* listen() awaits one tick before it arms the interval.
PrimingTick ==
  /\ phase = "priming" /\ ~primed
  /\ primed' = TRUE
  /\ Dispatch
  /\ UNCHANGED <<now, row, phase, budgets, hist>>

Arm ==
  /\ phase = "priming" /\ primed
  /\ \A j \in Jobs : InFlight(j) = {}
  /\ phase' = "up"
  /\ UNCHANGED <<now, row, primed, act, budgets, hist>>

\* The interval fires.  setInterval does not wait for the previous tick; when
\* MayOverlap is FALSE every job is done well before the next tick comes.
Tick ==
  /\ phase = "up"
  /\ MayOverlap \/ \A j \in Jobs : CronInFlight(j) = {}
  /\ Dispatch
  /\ act' # act
  /\ UNCHANGED <<jobVars, budgets, hist>>

\* POST /run/:jobId reads the row, active or not.
RunNow(j) ==
  /\ phase = "up"
  /\ manual > 0
  /\ manual' = manual - 1
  /\ row[j].status # "deleted"
  /\ \E k \in FirstFree(j) : act' = [act EXCEPT ![j][k] = Executing(j, "manual")]
  /\ UNCHANGED <<jobVars, faults, hist>>

Crash ==
  /\ phase # "down"
  /\ Fault("crash")
  /\ phase' = "down"
  /\ act' = [j \in Jobs |-> [k \in Idx |-> Free]]
  /\ cut' = [j \in Jobs |-> IF CronInFlight(j) # {} THEN CountUp(cut[j]) ELSE cut[j]]
  /\ UNCHANGED <<now, row, primed, manual, runs, edits, stale>>

-----------------------------------------------------------------------------
(***************************************************************************)
(* One activation: run(), recordRun(), scheduleNext().                     *)
(***************************************************************************)
\* The job's SQL runs or its POST goes out, and run() has the outcome.
Perform(j, k) ==
  LET a == act[j][k] IN
  /\ a.st = "executing"
  /\ act' = [act EXCEPT ![j][k].st = "recording"]
  /\ IF a.trigger = "cron"
     THEN /\ runs' = [runs EXCEPT ![j][a.due] = CountUp(@)]
          /\ stale' = [stale EXCEPT ![j] =
                         IF Matches(a.cron, a.due) THEN @ ELSE CountUp(@)]
     ELSE UNCHANGED <<runs, stale>>
  /\ UNCHANGED <<jobVars, budgets, cut, edits>>

\* runJobSql() finds no connection: run() rejects, nothing is recorded and
\* maybeRun() does not get as far as scheduleNext().
ConnectFails(j, k) ==
  /\ act[j][k].st = "executing"
  /\ Fault("connect")
  /\ act' = [act EXCEPT ![j][k] = Free]
  /\ UNCHANGED <<jobVars, manual, hist>>

\* Mutant: the next instant is counted from the one just run.
RecordFromDue(j, k) ==
  LET a == act[j][k] IN
  /\ a.st = "recording"
  /\ act' = [act EXCEPT ![j][k] =
               IF a.trigger = "cron" /\ Parses(a.cron)
               THEN Writing(a.trigger, a.cron, a.due, a.due) ELSE Free]
  /\ UNCHANGED <<jobVars, budgets, hist>>

\* recordRun() returns or fails, which run() swallows; a cron run then computes
\* the next instant, from the row it read and the present time.
Record(j, k) ==
  LET a == act[j][k] IN
  /\ a.st = "recording"
  /\ act' = [act EXCEPT ![j][k] =
               IF a.trigger = "cron" /\ Parses(a.cron)
               THEN Writing(a.trigger, a.cron, a.due, now) ELSE Free]
  /\ UNCHANGED <<jobVars, budgets, hist>>

\* setNextRun(): UPDATE .. SET next_run WHERE id, whatever the row holds now.
SetNextRun(j, k) ==
  LET a == act[j][k] IN
  /\ a.st = "writing"
  /\ row' = [row EXCEPT ![j].next = IF row[j].status = "deleted" THEN @ ELSE a.val]
  /\ act' = [act EXCEPT ![j][k] = Free]
  /\ UNCHANGED <<now, phase, primed, budgets, hist>>

\* setNextRun() fails; scheduleNext() logs it as a bad cron string.
SetNextRunFails(j, k) ==
  /\ act[j][k].st = "writing"
  /\ Fault("advance")
  /\ act' = [act EXCEPT ![j][k] = Free]
  /\ cut' = [cut EXCEPT ![j] = IF act[j][k].due = NoRun THEN @ ELSE CountUp(@)]
  /\ UNCHANGED <<jobVars, manual, runs, edits, stale>>

-----------------------------------------------------------------------------
(***************************************************************************)
(* Time, and the operator's SQL on scheduler.jobs.                         *)
(***************************************************************************)
Clock ==
  /\ now < MaxTime
  /\ now' = now + 1
  /\ UNCHANGED <<row, phase, primed, act, budgets, hist>>

\* A new cron string; next_run is left as it is or reset to NULL.
EditCron(j) ==
  /\ edits[j] < MaxEdits
  /\ row[j].status # "deleted"
  /\ \E c \in Crons \ {row[j].cron}, n \in {row[j].next, NoRun} :
       row' = [row EXCEPT ![j].cron = c, ![j].next = n]
  /\ edits' = [edits EXCEPT ![j] = @ + 1]
  /\ UNCHANGED <<now, phase, primed, act, budgets, runs, cut, stale>>

\* active is switched off and on; the row is deleted.
SwitchOff(j) ==
  /\ row[j].status = "active"
  /\ Fault("switch")
  /\ \E s \in {"inactive", "deleted"} : row' = [row EXCEPT ![j].status = s]
  /\ UNCHANGED <<now, phase, primed, act, manual, hist>>

SwitchOn(j) ==
  /\ row[j].status = "inactive"
  /\ row' = [row EXCEPT ![j].status = "active"]
  /\ UNCHANGED <<now, phase, primed, act, budgets, hist>>

ActStep(j, k) == \/ Perform(j, k) \/ ConnectFails(j, k) \/ Record(j, k)
                 \/ SetNextRun(j, k) \/ SetNextRunFails(j, k)

Operator(j) == EditCron(j) \/ SwitchOff(j) \/ SwitchOn(j)

Next == \/ Boot \/ PrimingTick \/ Arm \/ Tick \/ Crash \/ Clock
        \/ \E j \in Jobs : RunNow(j) \/ Operator(j)
        \/ \E j \in Jobs, k \in Idx : ActStep(j, k)

Spec == Init /\ [][Next]_vars

(***************************************************************************)
(* The container is restarted, listen() runs on, the interval keeps        *)
(* firing, and a statement or a POST ends.  Tick is strongly fair because  *)
(* only the bound Depth, not the code, ever disables it while it is due.   *)
(***************************************************************************)
FairSpec ==
  /\ Spec
  /\ WF_vars(Boot) /\ WF_vars(PrimingTick) /\ WF_vars(Arm) /\ SF_vars(Tick)
  /\ \A j \in Jobs, k \in Idx : WF_vars(ActStep(j, k))

-----------------------------------------------------------------------------
\* Rows, activations and counters have their types; an activation that will
\* write a next_run carries one, and one that runs for cron carries its due
\* instant.
TypeOK ==
  /\ now \in 0..MaxTime
  /\ row \in [Jobs -> [status : {"active", "inactive", "deleted"}, cron : Crons,
                       next : Instants \cup {NoRun}]]
  /\ phase \in {"down", "priming", "up"} /\ primed \in BOOLEAN
  /\ \A j \in Jobs, k \in Idx :
       LET a == act[j][k] IN
       /\ a.st \in ActStates
       /\ a.st # "free" => a.trigger \in {"cron", "manual"} /\ a.cron \in Crons
       /\ a.st = "writing" => a.trigger = "cron" /\ a.val \in Instants
       /\ a.st \in {"executing", "recording"} /\ a.trigger = "cron" => a.due \in 0..now
  /\ faults \in [FaultKinds -> Nat] /\ manual \in Nat
  /\ runs \in [Jobs -> [Instants -> 0..CountCap]]
  /\ cut \in [Jobs -> 0..CountCap] /\ stale \in [Jobs -> 0..CountCap]
  /\ edits \in [Jobs -> 0..MaxEdits]

\* docs/SCHEDULER.md: the worker "finds jobs whose next_run is due, executes
\* each, .. and advances next_run": one execution per due instant, and one
\* more for each round that a crash or a failed UPDATE kept from advancing.
OncePerDue == \A j \in Jobs, d \in Instants : runs[j][d] <= 1 + cut[j]

\* An operator's new cron string takes over after at most one more execution
\* at an instant of the old one, even when the edit comes while the job runs
\* and the worker overwrites next_run from the row it read before the edit.
StaleAtMostOncePerEdit == \A j \in Jobs : stale[j] <= edits[j] + cut[j]

\* No instant is executed twice, neither a due one nor, after an edit, one of
\* the old cron string (maybeRun and scheduleNext of executor.ts).
RunsCounted == TypeOK /\ OncePerDue /\ StaleAtMostOncePerEdit

\* The worker never moves next_run back, and the instant it computes is always
\* still to come: instants missed while it was down or busy are caught up by
\* one execution, not by one each.
NextRunAdvances ==
  [][\A j \in Jobs, k \in Idx :
       /\ act[j][k].st = "writing" /\ act'[j][k] = Free /\ row' # row
            => row[j].next = NoRun \/ row'[j].next >= row[j].next
       /\ act[j][k].st # "writing" /\ act'[j][k].st = "writing"
            => act'[j][k].val > now]_vars

\* docs/SCHEDULER.md: run-now "does not alter next_run".  With nothing but
\* manual runs in flight no step other than an operator's changes next_run.
RunNowKeepsSchedule ==
  [][\A j \in Jobs : row'[j].next # row[j].next =>
       edits' # edits \/ CronInFlight(j) # {}]_vars

\* What steps of the worker may do to next_run (scheduleNext, run-now).
ScheduleKept == NextRunAdvances /\ RunNowKeepsSchedule

\* A job that is due, active and left alone by the operator does run, whatever
\* crashes and failed connections come in between.
DueJobRuns ==
  \A j \in Jobs, d \in 0..MaxTime :
    (row[j].status = "active" /\ row[j].next = d /\ d <= now)
      ~> (runs[j][d] > 0 \/ row[j].next # d \/ row[j].status # "active")

=============================================================================
