CONSTANTS
  Calls = {n1, n2}
  Handlers = {h1, h2}
  HandlerErrors = {exit}
  None = none
  NoErr = nil
  OnGoing = ongoing
SPECIFICATION FairSpec
INVARIANTS NoLostWakeup PauseHasOwner ShownResultsResolve ResultHonest
PROPERTIES GateSpec OfferedIsResolved
CHECK_DEADLOCK FALSE
