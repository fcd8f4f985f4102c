SPECIFICATION FairSpec
CONSTANTS
  None = None
  Requests <- SomeRequests
  Histories <- SomeHistories
  Costs = {0, 1}
  MaxDocs = 1
  Interruptions = 1
  MaxReduceRounds = 2
  CasesRead = 3
  MinCases = 2
  EscalationRate = 50
  FailureRate = 60
  MaxParallel = 2
  MemoryBudget = 3
  WavesAllowed = TRUE
CHECK_DEADLOCK FALSE
INVARIANTS
  TypeOK
  PaidWorkIsKept
  PartialsMatchChunks
  QuorumHeld
  PlanIsTight
  SpendingIsBounded
  ReportedIsPaid
  ConversationIsWhole
  CancelEndsRun
PROPERTIES
  WorkflowEnds
