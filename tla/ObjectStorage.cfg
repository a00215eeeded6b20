SPECIFICATION Spec
CONSTANTS
  Objects = {o1}
  Users = {u1, u2}
  Anonymous = Anonymous
  Slots = {s1, s2}
  Queries <- MCQueries
  MaxUploads = 3
  MaxOps = 4
  MaxFaults = 1
  MaxBuckets = 1
SYMMETRY Symmetry
INVARIANTS
  RowsMatchBytes
  
PROPERTIES
  OwnershipHolds
CHECK_DEADLOCK FALSE
