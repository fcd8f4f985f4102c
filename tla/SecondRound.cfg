SPECIFICATION Spec
CONSTANTS
  None = None
  Requests <- TwoRounds
  Histories <- NoHistory
  Costs = {0, 1}
  MaxDocs = 0
  Interruptions = 0
  MaxReduceRounds = 1
  CasesRead = 1
  MinCases = 1
  EscalationRate = 50
  FailureRate = 50
  MaxParallel = 1
  MemoryBudget = 0
  WavesAllowed = TRUE
CHECK_DEADLOCK FALSE
PROPERTY
  SecondRoundNeverWorse
