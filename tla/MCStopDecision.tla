--------------------------- MODULE MCStopDecision ---------------------------
(* An instance of StopDecision for TLC: two calls of Solve share a source    *)
(* map, and a Dockerfile of four lines has its breakpoints set twice.        *)
EXTENDS StopDecision

MCSourceOf == [c \in Solves |-> IF c <= 2 THEN "a" ELSE "b"]
MCMapped == [s \in Sources |-> IF s = "a" THEN {"v1", "v2"} ELSE {"v2"}]
MCLocations == [v \in Vertices |->
  IF v = "v1" THEN {[file |-> "f", start |-> 1, end |-> 2]}
              ELSE {[file |-> "f", start |-> 2, end |-> 3]}]
MCArguments == [q \in Requests |->
  [file |-> "f", lines |-> IF q = "q1" THEN <<1, 2>> ELSE <<4, 3>>]]
=============================================================================
