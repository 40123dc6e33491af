SPECIFICATION Spec
CONSTANTS
  Clients = {c1}
  SubIDs = {s1}
  Workers = {w1, w2}
  SubscribeCap = 2
  UnsubscribeCap = 1
  RemoveCap = 1
  BroadcastCap = 4
  SendCap = 2
  LaggedCap = 1
  MaxPublished = 5
  MaxRequests = 2
  Options <- RepeatsOn
  Kinds <- TwoKinds
  Scopes <- TwoScopes
  NoRequest = NoRequest
  NoEvent = NoEvent
CHECK_DEADLOCK FALSE
SYMMETRY Symmetry
INVARIANTS DeliveredInOrder NewestKept LossAnnounced RepeatsLeaveRoom
