CONSTANTS
  Environments <- MCEnvironments
  Lowest <- MCLowest
  Highest <- MCHighest
  Calendar <- MCCalendar
  Bounds <- MCBounds
  NaN = NaN
  None = None
  Horizon = 7
  LastMinute = 3
  MaxDelay = 3
SPECIFICATION FairSpecBackup
CHECK_DEADLOCK FALSE
INVARIANTS  StatusTruthful OnSchedule
PROPERTIES DumpsGoOn
