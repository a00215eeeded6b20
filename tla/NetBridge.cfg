\* Two requests, two pass slots, one fault of each kind, one or two live clients.
CONSTANTS
  Requests = {1, 2}
  Pass = {p1, p2}
  NoRequest = NoRequest
  Copies = {1, 2}
  MaxBridgeFaults <- AllFaults
SPECIFICATION FairSpecBridge
CHECK_DEADLOCK FALSE
INVARIANTS NoNeedlessRepeat OutcomeKept
PROPERTIES ImplementsNetQueue DrainedUnlessDisturbed
