SPECIFICATION Spec
CONSTANTS
  NumTasks = 3
  Requests <- LanesRequests
  QueueMax = 2
  MaxAttempts = 2
  ReserveAfter = 1
  ReserveWindow = 1
  MemoryWait = 1
  OutageWait = 1
  DependencyWait = 1
  DependencyTimeout = 1
  MaxParallel = 1
  Deployments = {"remote"}
  Budget <- LanesBudget
INVARIANTS
  OneInferenceWorkflow
  LaneCapacity
  PlacesAreDistinct
  PlacedInOrder
PROPERTY
  PlacedClaimsFollowPriority
