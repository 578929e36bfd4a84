----------------------------- MODULE StopPolicy -----------------------------
(***************************************************************************)
(* Where a debugged build stops, as its user understands it.  The build    *)
(* reaches one event after another; whether it stops there depends on the  *)
(* way it was last resumed and on the breakpoints armed for that event,    *)
(* and the breakpoints only change while the build is stopped.             *)
(***************************************************************************)
CONSTANTS
  Keys,            \* names of breakpoints
  Events,          \* what the build can reach
  Located,         \* the events that have a place in the Dockerfile
  StopOnEntry,     \* does a fresh build stop at its first located event?
  Disabled,        \* are breakpoints switched off altogether?
  None             \* no event, no key

VARIABLES
  mode,            \* "running", "reached", "stopped" or "left"
  at,              \* the event reached
  resume,          \* how the build was set going: "entry", "next", "continue",
                   \* "target", or "none" while it is stopped
  target,          \* the key continued to
  armed            \* the keys that hit each event

vars == <<mode, at, resume, target, armed>>

Fresh == IF StopOnEntry THEN "entry" ELSE "continue"

\* Must the build stop at event e?
Wanted(e) ==
  /\ ~Disabled
  /\ e \in Located
  /\ \/ resume \in {"entry", "next"}
     \/ resume = "continue" /\ armed[e] # {}
     \/ resume = "target" /\ target \in armed[e]

Init ==
  /\ mode = "running"
  /\ at = None
  /\ resume = Fresh
  /\ target = None
  /\ armed \in [Events -> SUBSET Keys]

Reach(e) ==
  /\ mode = "running"
  /\ mode' = "reached"
  /\ at' = e
  /\ UNCHANGED <<resume, target, armed>>

Stop ==
  /\ mode = "reached"
  /\ Wanted(at)
  /\ mode' = "stopped"
  /\ resume' = "none"
  /\ target' = None
  /\ UNCHANGED <<at, armed>>

Pass ==
  /\ mode = "reached"
  /\ ~Wanted(at)
  /\ mode' = "running"
  /\ at' = None
  /\ UNCHANGED <<resume, target, armed>>

\* While stopped, the user arms and disarms breakpoints.
Edit ==
  /\ mode = "stopped"
  /\ armed' \in [Events -> SUBSET Keys]
  /\ UNCHANGED <<mode, at, resume, target>>

\* Set the build going again, or start it afresh.
Resume ==
  /\ mode = "stopped"
  /\ mode' = "running"
  /\ at' = None
  /\ \/ resume' \in {"next", "continue", Fresh} /\ target' = None
     \/ resume' = "target" /\ target' \in Keys
  /\ UNCHANGED armed

Leave ==
  /\ mode = "stopped"
  /\ mode' = "left"
  /\ UNCHANGED <<at, resume, target, armed>>

Next ==
  \/ \E e \in Events : Reach(e)
  \/ Stop
  \/ Pass
  \/ Edit
  \/ Resume
  \/ Leave

Spec == Init /\ [][Next]_vars
=============================================================================
