SPECIFICATION FairSpec
CONSTANTS
  a = a
  b = b
  c = c
  east = east
  west = west
  t1 = t1
  t2 = t2
  p1 = p1
  Runner = {a, b, c}
  Transition = {t1, t2}
  Place = {p1}
  NoName = NoName
  Region = {east, west}
  NoRegion = NoRegion
  RegionOf <- Regions
  Wants <- MCWants
  MaxStarts = 1
  MaxTokens = 2
INVARIANTS
  ReadyAgrees
  IdsUnique
PROPERTIES
  AssignmentEnds
CHECK_DEADLOCK FALSE
