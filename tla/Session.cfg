SPECIFICATION CallFairSpec
CONSTANTS
  Steps = {s1}
  DependsOn <- Independent
  MaxAttempts = 2
  DebugImage = TRUE
  None = none
INVARIANTS RestartIsClean OutcomeHonest ServerIsStopped
PROPERTIES InterruptReturns DebugEnds 
CHECK_DEADLOCK FALSE
