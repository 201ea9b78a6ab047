SPECIFICATION FairSpec
CONSTANTS
  a = a
  b = b
  init = init
  tr1 = tr1
  tr2 = tr2
  x = x
  y = y
  NoPlace = NoPlace
  NoNode = NoNode
  Node = {a, b}
  Place = {1, 2}
  Token = {x, y}
  Transition = {init, tr1, tr2}
  NodeOf <- MCNodeOf
  InPlaces <- MCIn
  OutPlaces <- MCOut
  CondPlaces <- MCCond
  OutputLocking = {1, 2}
  Executor <- Examples
  Initial <- NoToken
  MaxTake = 1
  MaxLag = 2
INVARIANTS
  TypeOK
  AtMostOneToken
  SleepersNeedNotRun
PROPERTIES
  DecisionIsCurrent
  ImplementsTokenGame
  EmptyNetIsFilled
  TokensMoveOn
CHECK_DEADLOCK FALSE
