SPECIFICATION Spec
CONSTANTS
  Resumes = {c1, c2}
  EagerResumes = {c1, c2}
  MaxBreaks = 2
  Clients = {"patient"}
INVARIANT StackTraceOfTheStop
CHECK_DEADLOCK FALSE
