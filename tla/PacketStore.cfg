SPECIFICATION FairSpec
CONSTANTS
    Writers = {w1, w2}
    Readers = {r1, r2}
    Packets <- MCPackets
    History = 2
    MaxQuery = 1
    Queries = {0, 3}
    MaxCommits = 3
INVARIANTS HistoryWindow
PROPERTIES ImplementsAtomic EveryRequestServed
