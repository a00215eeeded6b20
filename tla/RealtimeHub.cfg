SPECIFICATION Spec
CONSTANTS
  Socket = {"a", "b"}
  Channel = {t, u}
  Claims <- ClaimsDef
  OwnerColumns <- Columns
  BroadcastSelf = FALSE
  Notes <- SomeNotes
  Events = {"*"}
  Filters <- FiltersDef
  PStates = {"here"}
  NoRow = NoRow
  NoFilter = NoFilter
  MaxWire = 1
CHECK_DEADLOCK FALSE
SYMMETRY ChannelSymmetry
INVARIANTS ClientsToldTheTruth OwnerScoped
