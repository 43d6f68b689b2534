SPECIFICATION Spec
CONSTANTS
  Slot = {s1, s2}
  Manual = {dev}
  MaxRuns = 1
  Nobody = Nobody
INVARIANTS
  DisposableLeavesNothing
  ReadyUntilDown
PROPERTIES
  EvidenceIsKept
CHECK_DEADLOCK FALSE
