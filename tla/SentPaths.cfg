SPECIFICATION Spec
CONSTANTS
  Workers = {w1, w2}
  Pairs = {p, q}
  Paths = {a, b}
  TTL = 2
  MaxEntries = 3
  MaxTime = 3
  MaxHeard = 5
  NoPath = NoPath
CHECK_DEADLOCK FALSE
SYMMETRY Symmetry
INVARIANTS InSync OnePathNoRepeat RepeatOncePerTTL
