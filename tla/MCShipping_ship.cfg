SPECIFICATION Spec
CONSTANTS
  Fulfilments = {f1, f2}
  Calls = {c1, c2}
  Payments = {p1}
  Winners = {w1, w2}
  Admin = admin
  None = None
  MaxStops = 1
  DbMayFail = TRUE
SYMMETRY Symmetry
CHECK_DEADLOCK FALSE
INVARIANTS
  DetailsKept
PROPERTIES
  HandedOverStands
