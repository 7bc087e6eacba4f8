SPECIFICATION Spec
CONSTANTS
  Bytes <- MCBytes
  Synthetic <- MCSynthetic
  MediaTek <- MCMediaTek
  NoLog = NoLog
  Header = 2
  MaxRecord = 4
  MaxStream = 7
INVARIANTS Tiled EndIsHonest
CHECK_DEADLOCK FALSE
