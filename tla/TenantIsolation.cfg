SPECIFICATION Spec
CONSTANTS
  t1 = t1
  t2 = t2
  n1 = n1
  here = here
  there = there
  None = None
  PlatformScope = PlatformScope
  CellScope = CellScope
  Task = {k1, k2}
  Connection = {x1, x2}
  Tenant = {t1, t2}
  Reassigned = {t1}
  Canary = {n1}
  MaxEpoch = 2
  MyCell = here
  OtherCell = there
  Calls <- MCCalls
INVARIANTS
  CommittedWorkWasAuthorized
PROPERTIES
  CanaryAndMessageTogether
  TouchedOnlyWhileAuthorized
CHECK_DEADLOCK FALSE
