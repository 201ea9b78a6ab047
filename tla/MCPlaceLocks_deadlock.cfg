SPECIFICATION FairSpec
CONSTANTS
  a = a
  b = b
  a1 = a1
  a2 = a2
  b1 = b1
  Node = {a, b}
  Place = {1, 2}
  Task = {a1, b1}
  Home <- Home2
  StartPlaces <- OppositeStart
  TargetPlaces <- OppositeTarget
  MayFail = {}
  MaxRounds = 1
CHECK_DEADLOCK FALSE
PROPERTIES
  RequestedLockIsFreed
