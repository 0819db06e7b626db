SPECIFICATION Spec
CONSTANTS
  Invoices = {i1, i2}
  Requests = {r1, r2, r3}
  Consumer = Consumer
  Worker = Worker
  None = None
  Kinds = {"checkout", "savedCard", "webhook", "cancel", "extend"}
  Window = 1
  DueDates = {2}
  Closings = 1
  MaxTime = 1
  MaxCrashes = 1
  IdRefused = FALSE
  QueueMayFail = TRUE
  BrokerMayFail = TRUE
  StripeMayFail = TRUE
SYMMETRY Symmetry
CHECK_DEADLOCK FALSE
INVARIANTS
  PaymentSound
  OneInvoice
  PaidMeansPaid
  ReceivedOnce
PROPERTY
  SettledStands
