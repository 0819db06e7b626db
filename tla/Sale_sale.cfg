SPECIFICATION FairSaleSpec
CONSTANTS
  Invoices = {i1}
  Requests = {r1, r2}
  Consumer = Consumer
  Worker = Worker
  None = None
  Kinds = {"checkout", "savedCard", "cancel", "webhook", "extend"}
  Window = 0
  DueDates = {2}
  Closings = 1
  MaxTime = 0
  MaxCrashes = 0
  MaxReloads = 1
  IdRefused = TRUE
  QueueMayFail = FALSE
  BrokerMayFail = FALSE
  StripeMayFail = TRUE
  Fulfilments = {f1, f2}
  Calls = {}
  Winners = {w1}
  Winner = w1
  Admin = admin
  MaxStops = 2
  DbMayFail = TRUE
CHECK_DEADLOCK FALSE
INVARIANTS
  OneFulfilment
  ChargedOnce
PROPERTIES
  FulfilmentFollows
