SPECIFICATION Spec
CONSTANTS
  NumTasks = 1
  Requests <- CloudRequests
  QueueMax = 2
  MaxAttempts = 2
  ReserveAfter = 2
  ReserveWindow = 1
  MemoryWait = 1
  OutageWait = 1
  DependencyWait = 1
  DependencyTimeout = 2
  MaxParallel = 1
  Deployments = {"remote"}
  Budget <- DemotionBudget
PROPERTY
  DemotionSparesCancelled
