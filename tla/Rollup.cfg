SPECIFICATION LiveSpec
CONSTANTS
  HourLen = 1
  Clamp = 1
  Delay = 2
  Margin = 1
  Cap = 1
  PacketRetention = 2
  RollupRetention = 2
  MaxHearings = 2
  MaxPackets = 2
  MaxTime = 3
  MaxFaults = 1
INVARIANTS CompleteIsExact HeldHoursKeepRaw
PROPERTIES RevisionTracksView RollsSettle
