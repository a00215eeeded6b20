SPECIFICATION FairSpecClient
CONSTANTS
  Socket = {1, 2, peer}
  Peer = peer
  NoSocket = NoSocket
  Channel = {t}
  Claims <- ClaimsDef
  OwnerColumns <- Columns
  BroadcastSelf = FALSE
  Notes <- NoNotes
  Events = {"*"}
  Filters <- NoFilters
  PStates = {"here"}
  NoRow = NoRow
  NoFilter = NoFilter
  MaxWire = 2
  Tokens = {"none", "good"}
  AppCalls = {"channel", "subscribe", "unsubscribe", "track", "untrack", "disconnect"}
  OfflineCalls = {"channel", "subscribe", "track", "untrack", "disconnect"}
  PendingCalls = {"channel", "untrack", "disconnect"}
  MaxCalls = 3
  MaxLosses = 1
CHECK_DEADLOCK FALSE
INVARIANTS EndsAgree SocketDiscipline
PROPERTIES EventuallyServed
