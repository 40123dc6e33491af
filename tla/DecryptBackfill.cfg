SPECIFICATION LiveSpec
CONSTANTS
  c1 = c1
  c2 = c2
  p1 = p1
  p2 = p2
  All = All
  Channels = {c1, c2}
  Packets = {p1, p2}
  channelOf <- TwoChannels
  Configured = {}
  MaxImports = 2
  MaxFaults = 1
CHECK_DEADLOCK FALSE
INVARIANTS TypeOK WakeupComing
PROPERTIES ServesRequests KnownKeysDecrypt
