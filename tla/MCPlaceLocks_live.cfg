SPECIFICATION FairSpec
CONSTANTS
  a = a
  b = b
  a1 = a1
  a2 = a2
  b1 = b1
  Node = {a, b}
  Place = {1, 2}
  Task = {a1, a2, b1}
  Home <- MCHome
  StartPlaces <- SharedStart
  TargetPlaces <- NoTarget
  MayFail = {}
  MaxRounds = 1
PROPERTIES
  RequestedLockIsFreed
  LockingTerminates
