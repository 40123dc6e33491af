SPECIFICATION Spec
CONSTANTS
  h1 = h1
  h2 = h2
  h3 = h3
  d1 = d1
  p1 = p1
  p2 = p2
  Batch = 1
  VerifyMessages = 1
  DropAfterDirty = 2
  RestoreAfterClean = 2
  Hearings = {h1, h2, h3}
  Decrypters = {}
  Packets = {p1, p2}
  packetOf <- Lanes
  Legacy = {h3}
  MaxFaults = 1
INVARIANTS TypeOK RecordedUnlessFailed
SYMMETRY EqualLanes
