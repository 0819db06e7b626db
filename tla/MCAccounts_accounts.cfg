SPECIFICATION PortalSpec
CONSTANTS
  Calls = {c1, c2}
  Codes = {k1, k2, k3}
  Tokens = {n1, n2, n3}
  Windows = {w1, w2}
  Customers = {u1, u2}
  None = None
  Nobody = Nobody
  Groups <- MCGroups
  Crowded <- MCCrowded
  MaxAttempts = 1
  Lockout = 1
  CodeTtl = 1
  MaxTime = 2
  AccessTtl = 1
  MaxWrong = 2
  MaxMishaps = 1
SYMMETRY Symmetry
CHECK_DEADLOCK FALSE
INVARIANTS
  CodesBounded
  OneSession
  CookieLive
  CardOfCustomer
PROPERTIES
  NothingLost
  BidderApproved
