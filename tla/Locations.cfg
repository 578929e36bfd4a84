CONSTANTS
  Solves = {1, 2, 3}
  Sources = {"a", "b"}
  SourceOf <- MCSourceOf
  Vertices = {"v1", "v2"}
  Mapped <- MCMapped
  Files = {"f"}
  Lines = {1, 2, 3, 4}
  OnFail = onFail
  Locations <- MCLocations
  MaxIndex = 4
  Requests = {"q1", "q2"}
  Arguments <- MCArguments
  Clients = {"stopped", "serial", "eager"}
  None = none
SPECIFICATION DecisionSpec
INVARIANTS LocatedWhileSolving AnswerIsRegistry
PROPERTY StopsWhereAnswered
CHECK_DEADLOCK FALSE
