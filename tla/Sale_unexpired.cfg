SPECIFICATION FairSaleSpec
CONSTANTS
  Invoices = {i1}
  Requests = {r1}
  Consumer = Consumer
  Worker = Worker
  None = None
  Kinds = {"checkout", "savedCard", "cancel"}
  Window = 0
  DueDates = {2}
  Closings = 1
  MaxTime = 0
  MaxCrashes = 0
  MaxReloads = 0
  IdRefused = TRUE
  QueueMayFail = FALSE
  BrokerMayFail = FALSE
  StripeMayFail = FALSE
  Fulfilments = {f1}
  Calls = {}
  Winners = {w1}
  Winner = w1
  Admin = admin
  MaxStops = 0
  DbMayFail = FALSE
CHECK_DEADLOCK FALSE
PROPERTY
  AwaitingSettles
