CONSTANTS
  Files = {"Dockerfile"}
  Lines = {1, 2, 3}
  OnFail = onfail
  Vertices <- MCVertices
  Locations <- MCLocations
  MaxIndex = 3
  StopOnEntry = TRUE
  DisableBreakpoints = FALSE
  LineCount = 6
  DefaultListRange = 1
  FlagValues <- MCFlagValues
  None = none
SPECIFICATION ListingSpec
INVARIANTS TargetIsFresh ListsTheWindow
PROPERTIES StopsWherePromised
CHECK_DEADLOCK FALSE
