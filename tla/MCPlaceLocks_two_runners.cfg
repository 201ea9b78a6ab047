SPECIFICATION Spec
CONSTANTS
  a = a
  b = b
  a1 = a1
  a2 = a2
  b1 = b1
  Node = {a, b}
  Place = {1}
  Task = {a1, a2, b1}
  Home <- MCHome
  StartPlaces <- OnePlace
  TargetPlaces <- OnePlaceTarget
  MayFail = {b}
  MaxRounds = 2
INVARIANTS
  TypeOK
  GuardExclusive
  GuardImpliesOwned
  NoLostRequest
PROPERTIES
  CommitFenced
  ImplementsPlaceMutex
