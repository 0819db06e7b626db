SPECIFICATION FairSpec
CONSTANTS
  Messages <- MCMessages
  Users = {"u1", "u2"}
  Kind <- MCKind
  Concerns <- MCConcerns
  MaxFailures = 2
  MaxCrashes = 1
CHECK_DEADLOCK FALSE
INVARIANTS
  LogTruthful
  NobodyForgotten
  MailedOnce
PROPERTY MessagesSettle
