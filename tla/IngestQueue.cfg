SPECIFICATION FairSpec
CONSTANTS
  Observers = {o1, o2}
  Lanes = {l1, l2}
  LaneCap = 2
  MaxBytes = 4
  Sizes = {1, 3}
  MaxArrivals = 4
  NoMessage = NoMessage
CHECK_DEADLOCK FALSE
INVARIANTS BytesExact ObserverOrder QuietAfterClose DropsReported
PROPERTIES CloseReturns
