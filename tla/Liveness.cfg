SPECIFICATION FairSpec
CONSTANTS
  NumTasks = 2
  Requests <- LivenessRequests
  QueueMax = 2
  MaxAttempts = 2
  ReserveAfter = 1
  ReserveWindow = 1
  MemoryWait = 1
  OutageWait = 1
  DependencyWait = 1
  DependencyTimeout = 2
  MaxParallel = 1
  Deployments = {"remote"}
  Budget <- LivenessBudget
PROPERTIES
  NoTaskStranded
  DependencyWaitEnds
  CancelIsHonoured
