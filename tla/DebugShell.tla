----------------------------- MODULE DebugShell -----------------------------
(***************************************************************************)
(* pkg/buildkit/handler.go (Handler) and the command line's break handler  *)
(* (commands.go, break.go, reload.go, exit.go): which events stop the      *)
(* build, and what each command changes.                                   *)
(*                                                                         *)
(* Handler.handle runs under a mutex and is called by one handle() loop,   *)
(* and commands are read by the same goroutine, so there is one thread of  *)
(* control: an event arrives, the handler decides, and at a prompt the     *)
(* user gives commands until one resumes or leaves the build.  exec, list, *)
(* log and breakpoints change none of this state and are left out.  The    *)
(* Handler is made anew for each attempt; the registry and the             *)
(* commandHandler (targetBreakpoint) outlive it.                           *)
(***************************************************************************)
EXTENDS Breakpoints

CONSTANTS
  StopOnEntry, DisableBreakpoints,   \* DebugConfig
  None                               \* no event, no target

ASSUME ShellAssumption ==
  /\ StopOnEntry \in BOOLEAN /\ DisableBreakpoints \in BOOLEAN
  /\ None \notin Keys \cup Events

VARIABLES
  breakEachVertex, entried,   \* the flags of the Handler
  targetBreakpoint,           \* commandHandler.targetBreakpoint
  mode,                       \* "running", "handling", "prompt" or "left"
  event,                      \* the event in hand
  asked, askedKey             \* history: how the user last set the build going
                              \* ("start", "next", "continue", or "target" and a
                              \* key; "none" at a prompt).  No action reads it.

handlerFlags == <<breakEachVertex, entried>>
request == <<asked, askedKey>>
vars == <<registry, handlerFlags, targetBreakpoint, mode, event, request>>

TypeOK ==
  /\ RegistryTypeOK
  /\ breakEachVertex \in BOOLEAN
  /\ entried \in BOOLEAN
  /\ targetBreakpoint \in Keys \cup {None}
  /\ mode \in {"running", "handling", "prompt", "left"}
  /\ event \in Events \cup {None}
  /\ asked \in {"start", "next", "continue", "target", "none"}
  /\ askedKey \in Keys \cup {None}
  /\ (event = None) <=> (mode = "running")

Init ==
  /\ RegistryInit
  /\ breakEachVertex = FALSE
  /\ entried = FALSE
  /\ targetBreakpoint = None
  /\ mode = "running"
  /\ event = None
  /\ asked = "start"
  /\ askedKey = None

-----------------------------------------------------------------------------
(* Handler.handle and breakHandler *)

\* The controller found an event on eventCh.
Arrive(e) ==
  /\ mode = "running"
  /\ mode' = "handling"
  /\ event' = e
  /\ UNCHANGED <<registry, handlerFlags, targetBreakpoint, request>>

\* No location for the vertex, or none of the reasons to break.
Skipped ==
  \/ Locations[event.vertex] = {}
  \/ DisableBreakpoints
  \/ (~StopOnEntry \/ entried) /\ ~breakEachVertex /\ Hits(event) = {}

\* "ignoring non-target breakpoint"
NotTheTarget == targetBreakpoint # None /\ targetBreakpoint \notin Hits(event)

Resumed ==
  /\ mode' = "running"
  /\ event' = None

\* history only: which command resumed the build, for the properties
Asks(what, key) ==
  /\ asked' = what
  /\ askedKey' = key

Skip ==
  /\ mode = "handling"
  /\ Skipped
  /\ Resumed
  /\ UNCHANGED <<registry, handlerFlags, targetBreakpoint, request>>

\* The handler counts as entered although breakHandler returns at once.
Ignore ==
  /\ mode = "handling"
  /\ ~Skipped
  /\ NotTheTarget
  /\ entried' = TRUE
  /\ Resumed
  /\ UNCHANGED <<registry, breakEachVertex, targetBreakpoint, request>>

Prompt_KeepTargetBug ==
  /\ mode = "handling"
  /\ ~Skipped
  /\ ~NotTheTarget
  /\ entried' = TRUE
  /\ mode' = "prompt"
  /\ Asks("none", None)
  /\ UNCHANGED <<registry, breakEachVertex, targetBreakpoint, event>>

Prompt ==
  /\ mode = "handling"
  /\ ~Skipped
  /\ ~NotTheTarget
  /\ entried' = TRUE
  /\ targetBreakpoint' = None
  /\ mode' = "prompt"
  /\ Asks("none", None)
  /\ UNCHANGED <<registry, breakEachVertex, event>>

-----------------------------------------------------------------------------
(* Commands *)

AtPrompt == mode = "prompt"
StayAtPrompt == UNCHANGED <<handlerFlags, targetBreakpoint, mode, event, request>>

\* break LINE: in the file of the first location of the step (the locations
\* come from a map: any of them may be the first).
Break(line) ==
  /\ AtPrompt
  /\ \E r \in Locations[event.vertex] : AddUnnamed([file |-> r.file, line |-> line])
  /\ StayAtPrompt

BreakOnFail ==
  /\ AtPrompt
  /\ AddNamed(OnFail, OnFail)
  /\ StayAtPrompt

\* An unknown key is an error.
ClearCommand(key) ==
  /\ AtPrompt
  /\ key \in DOMAIN breakpoints
  /\ Clear(key)
  /\ StayAtPrompt

ClearAllCommand ==
  /\ AtPrompt
  /\ ClearAll
  /\ StayAtPrompt

NextCommand ==
  /\ AtPrompt
  /\ breakEachVertex' = TRUE
  /\ Resumed
  /\ Asks("next", None)
  /\ UNCHANGED <<registry, entried, targetBreakpoint>>

ContinueCommand_StickyBug ==
  /\ AtPrompt
  /\ Resumed
  /\ Asks("continue", None)
  /\ UNCHANGED <<registry, handlerFlags, targetBreakpoint>>

ContinueCommand ==
  /\ AtPrompt
  /\ breakEachVertex' = FALSE
  /\ Resumed
  /\ Asks("continue", None)
  /\ UNCHANGED <<registry, entried, targetBreakpoint>>

\* continue KEY; an unknown key is an error and the prompt stays.
ContinueTo(key) ==
  /\ AtPrompt
  /\ key \in DOMAIN breakpoints
  /\ targetBreakpoint' = key
  /\ breakEachVertex' = FALSE
  /\ Resumed
  /\ Asks("target", key)
  /\ UNCHANGED <<registry, entried>>

\* ErrReload ends the attempt; the next one has a new Handler.
ReloadCommand ==
  /\ AtPrompt
  /\ breakEachVertex' = FALSE
  /\ entried' = FALSE
  /\ Resumed
  /\ Asks("start", None)
  /\ UNCHANGED <<registry, targetBreakpoint>>

\* exit, the end of the input, or an error reading it.
ExitCommand ==
  /\ AtPrompt
  /\ mode' = "left"
  /\ UNCHANGED <<registry, handlerFlags, targetBreakpoint, event, request>>

Command ==
  \/ \E l \in Lines : Break(l)
  \/ BreakOnFail
  \/ \E k \in DOMAIN breakpoints : ClearCommand(k) \/ ContinueTo(k)
  \/ ClearAllCommand
  \/ NextCommand
  \/ ContinueCommand
  \/ ReloadCommand
  \/ ExitCommand

Next ==
  \/ \E e \in Events : Arrive(e)
  \/ Skip
  \/ Ignore
  \/ Prompt
  \/ Command

Spec == Init /\ [][Next]_vars

-----------------------------------------------------------------------------
(* Properties *)

\* The counter stays above every number in use (breakpoint.go:42-70), so a line
\* breakpoint is never refused and never takes the key of another one.
IndexAboveKeys == \A k \in DOMAIN breakpoints \ {OnFail} : k < breakpointIndex

\* A target is only ever pending in a Handler that has already stopped, with
\* stepping switched off (commands.go:76-90, break.go:127-134): a reload does not
\* inherit it, and the entry stop of the new attempt cannot be ignored.
TargetIsFresh ==
  targetBreakpoint # None => entried /\ ~breakEachVertex /\ mode # "prompt"

\* The three flags implement the stop policy (handler.go:108-131,
\* commands.go:72-110): entry, next, continue and continue-to-key each stop at
\* the first event they should, and at no other.
PolicyResume ==
  IF asked # "start" THEN asked ELSE IF StopOnEntry THEN "entry" ELSE "continue"

PolicyMode ==
  IF mode = "handling" THEN "reached" ELSE IF mode = "prompt" THEN "stopped" ELSE mode

Policy == INSTANCE StopPolicy WITH
  Located <- {e \in Events : Locations[e.vertex] # {}},
  Disabled <- DisableBreakpoints,
  mode <- PolicyMode,
  at <- event,
  resume <- PolicyResume,
  target <- askedKey,
  armed <- [e \in Events |-> Hits(e)]

StopsWherePromised == Policy!Spec
=============================================================================
