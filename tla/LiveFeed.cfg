SPECIFICATION MCSpec
CONSTANTS
    Clients = {c1, c2}
    Values = {0, 1}
    Cap = 2
    MaxPublished = 4
INVARIANTS TypeOK Placed OnlyOverwrittenSkipped
PROPERTIES ImplementsFeed EverythingReported GoneIsUncounted
CHECK_DEADLOCK FALSE
