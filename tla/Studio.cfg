SPECIFICATION SpecStudio
CONSTANTS
  Ids = {1, 2}
  Page = 1
  Loads = {1, 2}
  Saves = {1, 2}
  Nobody = 0
  Settings <- MCSettings
  Projects = {p1, p2}
  Keys = {k1, k2}
  Requests = {1, 2}
  Nothing = Nothing
INVARIANTS GridTruthful KeysTruthful
PROPERTIES SavesAreFaithful LoadingEnds
CHECK_DEADLOCK FALSE
