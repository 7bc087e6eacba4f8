SPECIFICATION FairSession
CONSTANTS
  Procs = {p1, p2}
  Modes = {"signaling", "radio", "all", "passive", "stop"}
  MaxInbox = 2
INVARIANTS SelectionExact NotSilenced
PROPERTY ConfigurationTakesHold
CHECK_DEADLOCK FALSE
