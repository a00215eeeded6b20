\* Jobs that finish before the next tick: one job, edits, faults, run-now.
CONSTANTS
  Jobs = {j1}
  Crons = {"e1", "e2"}
  Every <- MCEvery
  InitialCron <- AllE1
  Depth = 2
  MayOverlap = FALSE
  MaxTime = 3
  MaxEdits = 1
  MaxManual = 1
  MaxFaults <- OneEach
  CountCap = 4
  NoRun = NoRun
SPECIFICATION FairSpec
CHECK_DEADLOCK FALSE
INVARIANTS RunsCounted
PROPERTIES ScheduleKept DueJobRuns
