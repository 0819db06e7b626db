SPECIFICATION FairSpec
CONSTANTS
  Users = {u1}
  Bids = {b1, b2}
  Amounts = {1}
  Terms <- EvenTerms
  None = None
  MaxTime = 2
  MaxSchedules = 1
  MaxCrashes = 0
  LockMayExpire = FALSE
  BrokerMayFail = FALSE
CHECK_DEADLOCK FALSE
PROPERTIES
  RequestsAnswered
  LotProgresses
