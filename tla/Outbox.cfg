SPECIFICATION FairSpec
CONSTANTS
  Message = {m1}
  Worker = {w1, w2}
  LeaseId = {l1, l2, l3}
  NoLease = NoLease
  BatchSize = 1
  Concurrency = 1
  LeaseTicks = 2
  MaxDelay = 1
  MaxAge = 1
INVARIANT
  PublishedImpliesAccepted
PROPERTIES
  LiveLeaseIsExclusive
  StaleFenceChangesNothing
  ImplementsOutbox
  EventuallyPublished
