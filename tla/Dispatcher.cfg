\* One lost or failed connection, one other fault or edit.
CONSTANTS
  Clients = {1, 2, 3}
  NoClient = NoClient
  ErrorEvents = {1}
  MinBackoff = 1000
  MaxBackoff = 3000
  MaxFailures = 1
  Changes <- MCChanges
  Endpoints <- MCEndpoints
  Slots = {1, 2}
  MaxAttempts = 2
  MaxFaults = 1
SPECIFICATION FairSpecWorker
CHECK_DEADLOCK FALSE
INVARIANTS ListenerSound DeliveriesAccounted
PROPERTIES ComesBack
