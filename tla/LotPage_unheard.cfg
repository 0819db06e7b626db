SPECIFICATION FairSpec
CONSTANTS
  Pages = {p1}
  Calls = {c1}
  Amounts = {1}
  MaxDrops = 0
  None = None
CHECK_DEADLOCK FALSE
PROPERTY HearsVerdict
