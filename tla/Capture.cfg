SPECIFICATION FairSpec
CONSTANTS
  Commands = {"capture", "replay", "frames", "records"}
  Options <- MCOptions
  Archives <- MCArchives
  MaxPieces = 2
  MaxRead = 2
  MaxRuns = 3
INVARIANTS RawCovers OutputsInStep ReplayedInFull
PROPERTY ReplayReturns
CHECK_DEADLOCK FALSE
