CONSTANTS
  Terminals = {t1, t2}
  Names = {1, 2}
  Texts = {v1, v2}
  Checkouts <- MCCheckouts
  Repeatable = {1}
  Bounds <- MCBounds
  None = None
SPECIFICATION FairSpec
INVARIANTS LedgerTruthful
PROPERTIES EditedFilesRefused CatchesUp
