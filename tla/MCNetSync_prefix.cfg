SPECIFICATION Spec
CONSTANTS
  p = p
  q = q
  u = u
  own = own
  other = other
  t1 = t1
  t10 = t10
  Place = {p, q, u}
  Transition = {own, other}
  Known = {p, q}
  Local = {own}
  NoData = NoData
  Token = {t1, t10}
  Data = {0, 1}
  InPlaces <- In
  OutPlaces <- Out
  Covers <- DecimalIds
  MaxTake = 2
  MaxLag = 2
PROPERTIES
  OnlyTakenTokensChange
