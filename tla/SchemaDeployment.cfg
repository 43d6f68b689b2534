SPECIFICATION Spec
CONSTANTS
  d1 = d1
  c1 = c1
  c2 = c2
  NoOne = NoOne
  Migrator = {m1, m2}
  Runtime = {r1}
  Database = {d1}
  Cell = {c1, c2}
  Requests <- MCRequests
  Links <- MCLinks
  Files = 2
  Newest = 3
INVARIANTS
  MigrationsAreSerial
  ReportIsTrue
PROPERTIES
  OnlyTheMigratorChangesASchema
  DeployedMeansUsable
  LockIsReleased
CHECK_DEADLOCK FALSE
