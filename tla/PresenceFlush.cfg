SPECIFICATION Spec
CONSTANTS
  Workers = {w1, w2}
  StatusNames = {n}
  DeleteAfter = 3
  MayFail = {"ticker", "cleanup"}
  MaxTime = 5
  MaxHeard = 4
  Observers = {o1}
  Unnamed = Unnamed
  None = None
  Stopped = Stopped
CHECK_DEADLOCK FALSE
SYMMETRY WorkerSymmetry
INVARIANTS CountsConserved CachedHasRow FinishLeavesNothing
PROPERTIES RecentSurvives
