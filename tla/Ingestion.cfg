SPECIFICATION Spec
CONSTANTS
  f1 = f1
  f2 = f2
  c1 = c1
  c2 = c2
  Files = {f1, f2}
  Clients = {c1}
  Uploads <- SomeUploads
  LegacyRows <- SomeLegacy
  MaxConcurrent = 1
  MaxTasks = 4
  Budget <- SomeBudget
CHECK_DEADLOCK FALSE
INVARIANTS
  TypeOK
  LaneIsHeld
  PendingIsWanted
  LocalStaysLocal
PROPERTIES
  ReadyStays
  UploadsEnd
