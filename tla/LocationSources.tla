-------------------------- MODULE LocationSources --------------------------
(***************************************************************************)
(* pkg/buildkit/controller.go: the table of source maps.  Both debug       *)
(* wrappers of Solve (the gateway client's and the frontend bridge's) add  *)
(* the source map of the definition they solve before the call and delete  *)
(* it when the call returns.  A build solves several definitions at once,  *)
(* and two of them may carry the same *pb.Source, so the table counts.     *)
(* The handler looks a vertex up in whatever the table holds; all three    *)
(* operations run under sourcesMu and are single steps.                    *)
(***************************************************************************)
EXTENDS Naturals, FiniteSets

CONSTANTS
  Solves,          \* calls of Solve
  Sources,         \* *pb.Source pointers
  SourceOf,        \* the source map of the definition each call solves
  Vertices,
  Mapped           \* per source map: the vertices it has locations for

ASSUME SourcesAssumption ==
  /\ IsFiniteSet(Solves)
  /\ SourceOf \in [Solves -> Sources]
  /\ Mapped \in [Sources -> SUBSET Vertices]

VARIABLES
  sources,         \* reference counts; 0: not in the map
  phase            \* of each call: "idle", "solving", "returned"

vars == <<sources, phase>>

TypeOK ==
  /\ sources \in [Sources -> Nat]
  /\ phase \in [Solves -> {"idle", "solving", "returned"}]

Init ==
  /\ sources = [s \in Sources |-> 0]
  /\ phase = [c \in Solves |-> "idle"]

addLocationSource_SetBug(s) == sources' = [sources EXCEPT ![s] = 1]

addLocationSource(s) == sources' = [sources EXCEPT ![s] = @ + 1]

\* An absent source is left alone.
deleteLocationSource(s) ==
  sources' = [sources EXCEPT ![s] = IF @ > 0 THEN @ - 1 ELSE 0]

BeginSolve(c) ==
  /\ phase[c] = "idle"
  /\ phase' = [phase EXCEPT ![c] = "solving"]
  /\ addLocationSource(SourceOf[c])

\* Deferred: on success and on error alike.
EndSolve(c) ==
  /\ phase[c] = "solving"
  /\ phase' = [phase EXCEPT ![c] = "returned"]
  /\ deleteLocationSource(SourceOf[c])

Next == \E c \in Solves : BeginSolve(c) \/ EndSolve(c)

Spec == Init /\ [][Next]_vars

-----------------------------------------------------------------------------
(* Properties *)

InFlight(s) == {c \in Solves : phase[c] = "solving" /\ SourceOf[c] = s}

\* The table counts exactly the calls in flight (controller.go:69-92): nothing
\* is left when a build is over, whatever the order of the calls.
CountsInFlight == \A s \in Sources : sources[s] = Cardinality(InFlight(s))

\* getLocation.
Located(v) == \E s \in Sources : sources[s] > 0 /\ v \in Mapped[s]

\* A vertex can be located exactly while a definition that maps it is being
\* solved (controller.go:94-108, 145-170): no breakpoint is missed because
\* another Solve with the same source map returned first.
LocatedWhileSolving ==
  \A v \in Vertices :
    Located(v) <=> \E c \in Solves : phase[c] = "solving" /\ v \in Mapped[SourceOf[c]]
=============================================================================
