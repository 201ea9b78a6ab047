SPECIFICATION FairSpec
CONSTANTS
  Second = 4
  LeaseTtl = 50
  MinLease = 2
  OpenWithin = 32
  AnswerWithin = 8
  StreamEnds = TRUE
  StopWithin = 4
INVARIANTS
  LeaseOutlivesWork
  NoFalseAlarm
PROPERTIES
  CancelEndsLease
