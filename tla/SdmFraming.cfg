SPECIFICATION FairSpec
CONSTANTS
  Bytes = {0, 2, 3, 4}
  Start = 2
  End = 3
  Header = 3
  Gap = 1
  Zeroed = {4}
  MaxField = 4
  MaxPacket = 9
  MaxStream = 7
INVARIANTS Sliced EveryStartAccounted HoldsLessThanAPacket ReadsDoNotMatter CleanPacketsFound OnlyCleanPackets
PROPERTY PushEnds
CHECK_DEADLOCK FALSE
