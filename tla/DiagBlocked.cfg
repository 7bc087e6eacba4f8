SPECIFICATION FairModemSpec
CONSTANTS
    Equips = {0, 1}
    MaxItem = 1
    LastItem <- MCLastItem
    InitialMask <- MCInitialMask
    Selections <- OneMask
    Commands = {"capture"}
    Transport = "serial"
    IdleLimit = 5
    MaxRuns = 1
    MaxLine = 2
    MaxFaults = 1
PROPERTIES WaitEnds
CHECK_DEADLOCK FALSE
