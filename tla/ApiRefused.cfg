SPECIFICATION FairSpec
CONSTANTS
    Conns = {1, 2}
    Clients = {k1}
    Frames <- MCFrames
    Script <- Refused
    GsmtapOn = TRUE
    Ending = {1}
    Leaving = {k1}
    MaxWire = 2
    History = 2
    MaxQuery = 2
    Queries = {2}
    Cap = 2
INVARIANTS CleanEnd ErrorsExplained
PROPERTIES FrameFate
