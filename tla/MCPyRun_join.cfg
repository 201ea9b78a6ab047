SPECIFICATION FairSpec
CONSTANTS
  Transition = {a, b}
  Workers = 1
  MaxInserts = 1
  MaxRegisters = 2
INVARIANTS
  NetOfStart
  RegistryOfStart
PROPERTIES
  JoinComesBack
CHECK_DEADLOCK FALSE
