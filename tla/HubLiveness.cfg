SPECIFICATION FairSpec
CONSTANTS
  Clients = {c1, c2}
  SubIDs = {s1}
  Workers = {w1}
  SubscribeCap = 1
  UnsubscribeCap = 1
  RemoveCap = 1
  BroadcastCap = 2
  SendCap = 1
  LaggedCap = 1
  MaxPublished = 2
  MaxRequests = 1
  Options <- NoOptions
  Kinds <- OneKind
  Scopes <- OneScope
  NoRequest = NoRequest
  NoEvent = NoEvent
CHECK_DEADLOCK FALSE
PROPERTIES HandlersGetThrough DeadPumpLeaves
