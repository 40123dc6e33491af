SPECIFICATION Spec
CONSTANTS
  Requests = {r1, r2, r3, r4}
  Keys = {k1}
  ClientCap = 2
  Shared = {r4}
  Tolerant = {r3}
  MaxStatements = 2
  NoKey = NoKey
CHECK_DEADLOCK FALSE
SYMMETRY RequestSymmetry
INVARIANTS TypeOK HoldersExact NoIdleSlot NoLostWakeup RunsWithSlot ObservedCountsLate
PROPERTIES OldestFirst
