CONSTANTS
  s1 = s1
  s2 = s2
  s3 = s3
  Steps = {s1, s2, s3}
  DependsOn <- Fork
  MaxAttempts = 1
  DebugImage = FALSE
  None = none
SPECIFICATION Spec
SYMMETRY Symmetry
INVARIANTS PromptHoldsDependents SuccessWasSeen FailureIsHeldFirst
CHECK_DEADLOCK FALSE
