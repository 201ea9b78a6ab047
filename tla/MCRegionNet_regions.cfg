SPECIFICATION Spec
CONSTANTS
  Place = {p1, p2}
  Transition = {t1, t2}
  Region = {east, west}
  Variant = {"In", "Out", "InOut", "Cond", "OutCond"}
INVARIANTS
  TypeOK
  RegionsFitTogether
  RunsWhatWasValidated
SYMMETRY Renaming
CHECK_DEADLOCK FALSE
