SPECIFICATION Spec
CONSTANTS
  NumTasks = 1
  Requests <- LifecycleRequests
  QueueMax = 2
  MaxAttempts = 2
  ReserveAfter = 1
  ReserveWindow = 1
  MemoryWait = 2
  OutageWait = 1
  DependencyWait = 1
  DependencyTimeout = 1
  MaxParallel = 1
  Deployments = {"local", "remote"}
  Budget <- LifecycleBudget
INVARIANTS
  TypeOK
  ActiveRowsAreHeld
  SingleCancelWins
  AtMostOneLateCall
  AttemptsAreBounded
  InvocationsClosed
  IInv
PROPERTIES
  FinishedIsFinal
  CancelledStaysDown
