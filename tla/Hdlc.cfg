SPECIFICATION Spec
CONSTANTS
  Bytes = {0, 1, 2, 3}
  End = 2
  Esc = 3
  Flip <- MCFlip
  Crc <- MCCrc
  Packets <- MCPackets
  MaxSent = 3
  MaxFaults = 2
INVARIANTS LossIsLocal
