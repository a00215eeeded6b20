SPECIFICATION Spec
CONSTANTS
  Accounts = {a1, a2}
  Factors = {f1}
  Challenges = {c1}
  Slots = {s1, s2}
  NoOne = NoOne
  Window = 1
  ChallengeTTL = 1
  FactorAge = 1
  MaxTime = 2
  Tabs = {t1, t2}
  Listeners = {l1, l2}
  MaxSignIns = 2
  Budgets <- MCBudgets
SYMMETRY Symmetry
INVARIANTS
  ListenersAgree
  SignedOutStaysOut
  VerificationSound
PROPERTIES
  FactorsStayWithOwner
CHECK_DEADLOCK FALSE
