SPECIFICATION IOFairSpec
CONSTANTS
  Frontends = {"shell", "dap"}
  Tty = TRUE
  MaxExecs = 2
  MaxInterrupts = 2
  Requests <- MCRequests
  Dests = {"/", "/src", "/cache"}
  Results = {"base", "context", "made", "other"}
  Root = "/"
  NoResult = "none"
  Image = "image"
INVARIANTS NothingLeaks RunsOnTheStep
PROPERTIES InterruptHandled ShutdownEnds ClientEnds
CHECK_DEADLOCK FALSE
