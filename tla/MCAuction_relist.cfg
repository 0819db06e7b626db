SPECIFICATION Spec
CONSTANTS
  Users = {u1, u2}
  Bids = {b1, b2}
  Amounts = {1, 2}
  Terms <- EvenTerms
  None = None
  MaxTime = 1
  MaxSchedules = 2
  MaxCrashes = 0
  LockMayExpire = FALSE
  BrokerMayFail = FALSE
SYMMETRY Symmetry
CHECK_DEADLOCK FALSE
INVARIANTS
  EngineSound
  VerdictStands
  SaleToHighest
  PagesAgree
  OpenHasTimer
PROPERTIES
  ImplementsBook
  HighestNeverFalls
  ExtendsForward
