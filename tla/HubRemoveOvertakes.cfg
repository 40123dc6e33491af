SPECIFICATION Spec
CONSTANTS
  Clients = {c1}
  SubIDs = {s1}
  Workers = {w1}
  SubscribeCap = 2
  UnsubscribeCap = 1
  RemoveCap = 1
  BroadcastCap = 2
  SendCap = 1
  LaggedCap = 1
  MaxPublished = 0
  MaxRequests = 2
  Options <- NoOptions
  Kinds <- OneKind
  Scopes <- OneScope
  NoRequest = NoRequest
  NoEvent = NoEvent
CHECK_DEADLOCK FALSE
INVARIANTS RemovalsTakeEffect
