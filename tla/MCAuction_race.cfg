SPECIFICATION Spec
CONSTANTS
  Users = {u1, u2}
  Bids = {b1, b2}
  Amounts = {1, 2}
  Terms <- EvenTerms
  None = None
  MaxTime = 1
  MaxSchedules = 1
  MaxCrashes = 1
  LockMayExpire = TRUE
  BrokerMayFail = TRUE
SYMMETRY Symmetry
CONSTRAINT OneFault
CHECK_DEADLOCK FALSE
INVARIANTS
  LawfulHistory
  BidsRise
  OutbidNoticeTrue
  AnswersTrue
  AnnouncedOnce
  ReadModelSound
