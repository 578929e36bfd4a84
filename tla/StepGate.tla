------------------------------ MODULE StepGate ------------------------------
(***************************************************************************)
(* What the debug controller promises to a build: a step whose completion  *)
(* it intercepts does not get past the debugger before the break handler   *)
(* has judged it, it is judged at most once, and a step the handler        *)
(* refused (it returned an error: exit, reload, a read error) is never     *)
(* let through.  A cancelled step leaves the gate without being let        *)
(* through; the handler may still be judging it.                           *)
(***************************************************************************)
CONSTANT Calls          \* the interceptions, one per completed build step

VARIABLES
  step,                 \* where an intercepted step stands
  verdict               \* what the handler said about it

vars == <<step, verdict>>

TypeOK ==
  /\ step \in [Calls -> {"building", "held", "released", "aborted"}]
  /\ verdict \in [Calls -> {"none", "passed", "refused"}]

Init ==
  /\ step = [n \in Calls |-> "building"]
  /\ verdict = [n \in Calls |-> "none"]

\* The step completed and now waits at the gate.
Hold(n) ==
  /\ step[n] = "building"
  /\ step' = [step EXCEPT ![n] = "held"]
  /\ UNCHANGED verdict

\* The handler judges a step that reached the gate.
Judge(n, v) ==
  /\ step[n] \in {"held", "aborted"}
  /\ verdict[n] = "none"
  /\ verdict' = [verdict EXCEPT ![n] = v]
  /\ UNCHANGED step

\* The build proceeds past the step.
Release(n) ==
  /\ step[n] = "held"
  /\ verdict[n] = "passed"
  /\ step' = [step EXCEPT ![n] = "released"]
  /\ UNCHANGED verdict

\* The build gives the step up.
Abort(n) ==
  /\ step[n] \in {"building", "held"}
  /\ step' = [step EXCEPT ![n] = "aborted"]
  /\ UNCHANGED verdict

Next ==
  \E n \in Calls :
    \/ Hold(n)
    \/ \E v \in {"passed", "refused"} : Judge(n, v)
    \/ Release(n)
    \/ Abort(n)

Spec == Init /\ [][Next]_vars
=============================================================================
