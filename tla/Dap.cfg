SPECIFICATION FairSpec
CONSTANTS
  Resumes = {c1, c2}
  EagerResumes = {c1}
  MaxBreaks = 3
  Clients = {"patient", "eager"}
INVARIANTS NothingLeftWhenAnswered
PROPERTIES ResumesItsBreak ContinueStopsStepping EndOfConnectionEnds DisconnectEnds
CHECK_DEADLOCK FALSE
