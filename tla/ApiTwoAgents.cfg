SPECIFICATION Spec
CONSTANTS
    Conns = {1, 2}
    Clients = {k1}
    Frames <- MCFrames
    Script <- TwoAgents
    GsmtapOn = TRUE
    Ending = {}
    Leaving = {}
    MaxWire = 1
    History = 2
    MaxQuery = 2
    Queries = {2}
    Cap = 2
INVARIANTS InOrder LiveIsStored NoGap MirrorCovers
PROPERTY ImplementsParts
