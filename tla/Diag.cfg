SPECIFICATION FairSpec
CONSTANTS
    Equips = {0, 1}
    MaxItem = 1
    LastItem <- MCLastItem
    InitialMask <- MCInitialMask
    Selections <- AllSelections
    Commands = {"capture", "probe", "disable"}
    Transport = "bridge"
    IdleLimit = 2
    MaxRuns = 3
    MaxLine = 3
    MaxFaults = 2
INVARIANTS NeverOutOfRange MaskIsASelection CaptureConfigured DisableSilences
PROPERTY QuietWaitEnds
CHECK_DEADLOCK FALSE
