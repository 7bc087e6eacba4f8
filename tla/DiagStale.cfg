SPECIFICATION Spec
CONSTANTS
    Equips = {0, 1}
    MaxItem = 1
    LastItem <- MCLastItem
    InitialMask <- MCInitialMask
    Selections <- AllSelections
    Commands = {"capture", "probe", "disable"}
    Transport = "serial"
    IdleLimit = 2
    MaxRuns = 3
    MaxLine = 3
    MaxFaults = 0
INVARIANTS EveryCaptureConfigured
CHECK_DEADLOCK FALSE
