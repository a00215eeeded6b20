SPECIFICATION FairSpec
CONSTANTS
  Projects = {p1}
  Keys = {k1}
  Reqs = {r1, r2}
  NoKey = NoKey
  Limits = {1}
  Window = 2
  MaxTime = 2
  MaxCalls = 2
  Fns = {f1}
  MaxEdits = 2
  MaxRestarts = 1
INVARIANTS
  BooksBalance
  OnlyLiveKeysRun
  ReloadTakes
PROPERTIES
  EveryRequestAnswered
CHECK_DEADLOCK FALSE
