SPECIFICATION FairSpec
CONSTANTS
  Task = {publisher, commands, events}
  Timed = {commands, events}
INVARIANT ReportedOutcomeIsTrue
PROPERTY EventuallyExits
CHECK_DEADLOCK FALSE
