SPECIFICATION FairSpec
CONSTANTS
  a1 = a1
  a2 = a2
  b1 = b1
  east = east
  west = west
  left = left
  right = right
  forth = forth
  rival = rival
  tok = tok
  Node = {a1, a2, b1}
  Region = {east, west}
  RegionOf <- Regions
  Transition = {forth, rival}
  Home <- Homes
  Place = {left, right}
  In <- Ins
  Out <- Outs
  OutputLocking = {left}
  MayDestroy = {forth}
  Token = {tok}
  Start <- Starts
  MayFail = {a1}
INVARIANTS
  TokenInOnePlace
PROPERTIES
  EndsOwnFiring
  InterruptedFiringEnds
CHECK_DEADLOCK FALSE
