---------------------------- MODULE Breakpoints ----------------------------
(***************************************************************************)
(* pkg/buildkit/breakpoint.go: the registry of breakpoints and what each   *)
(* kind of breakpoint hits.  A breakpoint added without a key gets the     *)
(* next index as its key (printed in decimal: the number stands for the    *)
(* string); "on-fail" is both a key and the breakpoint it names.           *)
(***************************************************************************)
EXTENDS Naturals

CONSTANTS
  Files, Lines,    \* where line breakpoints may be set
  OnFail,          \* the key "on-fail" and its breakpoint
  Vertices,        \* build steps, as the solver names them
  Locations,       \* Vertices -> ranges [file, start, end] in the Dockerfile
  MaxIndex         \* bound: breakpoints numbered between two ClearAlls

ASSUME BreakpointsAssumption ==
  /\ Lines \subseteq Nat
  /\ Locations \in [Vertices -> SUBSET [file : Files, start : Nat, end : Nat]]
  /\ MaxIndex \in Nat
  /\ OnFail \notin Nat
  /\ OnFail \notin [file : Files, line : Lines]

VARIABLES breakpoints, breakpointIndex

registry == <<breakpoints, breakpointIndex>>

Keys == Nat \cup {OnFail}
LineBreakpoints == [file : Files, line : Lines]

\* A status the controller hands to the handler: a step, and its error.
Events == [vertex : Vertices, failed : BOOLEAN]

RegistryTypeOK ==
  /\ breakpoints = [k \in DOMAIN breakpoints |-> breakpoints[k]]
  /\ DOMAIN breakpoints \subseteq Keys
  /\ \A k \in DOMAIN breakpoints : breakpoints[k] \in LineBreakpoints \cup {OnFail}
  /\ breakpointIndex \in Nat

NoBreakpoints == [k \in {} |-> OnFail]
With(key, bp) == [k \in DOMAIN breakpoints \cup {key} |->
                    IF k = key THEN bp ELSE breakpoints[k]]
Without(key) == [k \in DOMAIN breakpoints \ {key} |-> breakpoints[k]]

\* What debugAction hands to Debug: on-fail only.
RegistryInit ==
  /\ breakpoints = [k \in {OnFail} |-> OnFail]
  /\ breakpointIndex = 0

\* Add under a key; an existing key is an error and nothing changes.
Put(key, bp) ==
  breakpoints' = IF key \in DOMAIN breakpoints THEN breakpoints ELSE With(key, bp)

\* Add("", bp): the index advances whether or not the key was free.
AddUnnamed(bp) ==
  /\ breakpointIndex < MaxIndex
  /\ breakpointIndex' = breakpointIndex + 1
  /\ Put(breakpointIndex, bp)

\* Add("on-fail", bp).
AddNamed(key, bp) ==
  /\ Put(key, bp)
  /\ UNCHANGED breakpointIndex

Clear(key) ==
  /\ breakpoints' = Without(key)
  /\ UNCHANGED breakpointIndex

ClearAll ==
  /\ breakpoints' = NoBreakpoints
  /\ breakpointIndex' = 0

-----------------------------------------------------------------------------
(* isTarget and getHitBreakpoints *)

OnFailIsTarget(ev) == ev.failed

LineIsTarget(bp, ev) ==
  \E r \in Locations[ev.vertex] :
    r.file = bp.file /\ r.start <= bp.line /\ bp.line <= r.end

IsTarget(bp, ev) == IF bp = OnFail THEN OnFailIsTarget(ev) ELSE LineIsTarget(bp, ev)

Hits(ev) == {k \in DOMAIN breakpoints : IsTarget(breakpoints[k], ev)}
=============================================================================
