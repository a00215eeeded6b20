SPECIFICATION Spec
CONSTANTS
  n1 = n1
  e1 = e1
  p1 = p1
  g1 = g1
  Names = {n1}
  Emails = {e1}
  Phones = {p1}
  Subjects = {g1}
  EmailsOf <- EmailsOfDef
  None = None
  Requests = {r1, r2}
  MaxAttempts = 1
  MaxPassword = 2
  MaxUsers = 2
  MaxTokens = 3
  MaxTickets = 2
  MaxEvents <- MaxEventsDef
SYMMETRY Symmetry
INVARIANTS RevocationsTake UsedUp OneAccountPerIdentity
