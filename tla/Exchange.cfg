SPECIFICATION FairSpec
CONSTANTS
  Cell = {"c1", "c2"}
  Undeclared = {"c3"}
  Platform = "platform"
  None = "none"
  Requests <- MCRequests
  Registered <- MCRegistered
  MaxMessages = 3
CHECK_DEADLOCK FALSE
INVARIANTS
  HandledWhereAddressed
  ExactlyOneDurable
  AnsweredOnce
PROPERTY RoundTrip
