SPECIFICATION Spec
CONSTANTS
  Clients = {c1, c2}
  SubIDs = {s1, s2}
  Workers = {w1}
  SubscribeCap = 2
  UnsubscribeCap = 1
  RemoveCap = 1
  BroadcastCap = 2
  SendCap = 1
  LaggedCap = 1
  MaxPublished = 1
  MaxRequests = 2
  Options <- KeyAndRepeats
  Kinds <- OneKind
  Scopes <- TwoScopes
  NoRequest = NoRequest
  NoEvent = NoEvent
CHECK_DEADLOCK FALSE
SYMMETRY Symmetry
INVARIANTS WantedCounts NoSendOnClosed KeyReachesOptedIn
