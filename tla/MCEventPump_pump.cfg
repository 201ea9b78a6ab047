SPECIFICATION FairSpec
CONSTANTS
  Capacity = 2
  Batch = 2
  Foreign = {"net", "request", "other"}
  MaxForeign = 2
  MaxRounds = 1
INVARIANTS
  NothingLost
PROPERTIES
  TaskGoesOn
  ChangesApplied
CHECK_DEADLOCK FALSE
