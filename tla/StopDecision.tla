---------------------------- MODULE StopDecision ----------------------------
(***************************************************************************)
(* How the dap server decides where to stop while its client edits the     *)
(* breakpoints: handle (controller.go) looks up the step's location in the *)
(* table of LocationSources, getHitBreakpoints goes over the registry of   *)
(* Breakpoints key by key, and onSetBreakpointsRequest clears and refills  *)
(* that registry entry by entry, in a goroutine of its own and without a   *)
(* lock.  Entry stops and switched-off breakpoints are in DebugShell.      *)
(***************************************************************************)
EXTENDS LocationSources, Sequences

CONSTANTS
  Files, Lines, OnFail, Locations, MaxIndex,   \* of the registry
  Requests,        \* setBreakpoints requests
  Arguments,       \* of each: the file and its lines, [file, lines]
  Clients,         \* "stopped" edits at stops and before the launch only,
                   \* "serial" has one request outstanding, "eager" many
  None

VARIABLES
  breakpoints, breakpointIndex,
  client,          \* which client it is; never changes
  process,         \* "up", "panicked"
  launched,
  reached,         \* vertices that have come to their gate
  pending,         \* events at the gate
  handler,         \* "idle", "judging", "stopped"
  judged,          \* the event the handler has
  keys,            \* ForEach: the keys it has still to visit
  hits,            \* the breakpoints found hit
  breakEach,       \* Handler.BreakEachVertex
  request,         \* of each: how far it is, and the ids it will answer
  answer           \* what the client was answered last: ids and breakpoints

R == INSTANCE Breakpoints

ASSUME DecisionAssumption ==
  /\ R!BreakpointsAssumption
  /\ Arguments \in [Requests -> [file : Files, lines : Seq(Lines)]]
  /\ Clients \subseteq {"stopped", "serial", "eager"}

registryVars == <<breakpoints, breakpointIndex>>
handlerVars == <<handler, judged, keys, hits, breakEach>>
gateVars == <<launched, reached, pending>>
requestVars == <<request, answer>>
decisionVars == <<client, process, vars, registryVars, handlerVars, gateVars, requestVars>>

DecisionInit ==
  /\ Init /\ R!RegistryInit
  /\ client \in Clients /\ process = "up"
  /\ launched = FALSE /\ reached = {} /\ pending = {}
  /\ handler = "idle" /\ judged = None /\ keys = {} /\ hits = {} /\ breakEach = FALSE
  /\ request = [q \in Requests |-> [at |-> "none", next |-> 1, ids |-> R!NoBreakpoints]]
  /\ answer = R!NoBreakpoints

Editing == {q \in Requests : request[q].at \notin {"none", "answered"}}
Wanted(v) == \E c \in Solves : phase[c] = "solving" /\ v \in Mapped[SourceOf[c]]

Panic ==
  /\ process' = "panicked"
  /\ UNCHANGED <<vars, registryVars, handlerVars, gateVars, requestVars>>

-----------------------------------------------------------------------------
(* The build *)

Launch ==
  /\ ~launched /\ (client = "stopped" => Editing = {})
  /\ launched' = TRUE
  /\ UNCHANGED <<process, vars, registryVars, handlerVars, reached, pending, requestVars>>

Solve(c) ==
  /\ launched /\ (BeginSolve(c) \/ EndSolve(c))
  /\ UNCHANGED <<process, registryVars, handlerVars, gateVars, requestVars>>

Reach(ev) ==
  /\ Wanted(ev.vertex) /\ ev.vertex \notin reached
  /\ reached' = reached \cup {ev.vertex} /\ pending' = pending \cup {ev}
  /\ UNCHANGED <<process, vars, registryVars, handlerVars, launched, requestVars>>

\* A step nobody waits for any more is cancelled at its gate.
GiveUp(ev) ==
  /\ ev \in pending /\ ~Wanted(ev.vertex)
  /\ pending' = pending \ {ev}
  /\ UNCHANGED <<process, vars, registryVars, handlerVars, launched, reached, requestVars>>

-----------------------------------------------------------------------------
(* handle and Handler.handle *)

\* A step without a location passes; otherwise ForEach collects the keys.
Take(ev) ==
  /\ handler = "idle" /\ ev \in pending
  /\ pending' = pending \ {ev}
  /\ IF Located(ev.vertex)
     THEN handler' = "judging" /\ judged' = ev /\ keys' = DOMAIN breakpoints /\ hits' = {}
     ELSE UNCHANGED <<handler, judged, keys, hits>>
  /\ UNCHANGED <<process, vars, registryVars, breakEach, launched, reached, requestVars>>

\* In the order of sort.Strings: "on-fail" is last.
NextKey ==
  CHOOSE k \in keys : \A j \in keys \ {k} : j = OnFail \/ (k # OnFail /\ k <= j)

Visit_FirstOnlyBug ==
  /\ handler = "judging" /\ keys # {}
  /\ IF NextKey \in DOMAIN breakpoints /\ R!IsTarget(breakpoints[NextKey], judged)
     THEN hits' = {NextKey} /\ keys' = {}
     ELSE hits' = hits /\ keys' = keys \ {NextKey}
  /\ UNCHANGED <<process, vars, registryVars, handler, judged, breakEach, gateVars, requestVars>>

\* The entry is read again: one that is gone is a nil Breakpoint, whose method
\* cannot be called.
Visit ==
  /\ handler = "judging" /\ keys # {}
  /\ IF NextKey \notin DOMAIN breakpoints
     THEN Panic
     ELSE /\ hits' = IF R!IsTarget(breakpoints[NextKey], judged) THEN hits \cup {NextKey} ELSE hits
          /\ keys' = keys \ {NextKey}
          /\ UNCHANGED <<process, vars, registryVars, handler, judged, breakEach, gateVars, requestVars>>

Decide ==
  /\ handler = "judging" /\ keys = {}
  /\ IF hits # {} \/ breakEach
     THEN handler' = "stopped" /\ UNCHANGED <<judged, hits>>
     ELSE handler' = "idle" /\ judged' = None /\ hits' = {}
  /\ UNCHANGED <<process, vars, registryVars, keys, breakEach, gateVars, requestVars>>

\* continue, next.
Resume(next) ==
  /\ handler = "stopped" /\ (client = "stopped" => Editing = {})
  /\ handler' = "idle" /\ judged' = None /\ hits' = {}
  /\ breakEach' = next
  /\ UNCHANGED <<process, vars, registryVars, keys, gateVars, requestVars>>

-----------------------------------------------------------------------------
(* onSetBreakpointsRequest *)

RequestGoes(q, to) == request' = [request EXCEPT ![q].at = to]

Send(q) ==
  /\ request[q].at = "none"
  /\ client # "eager" => Editing = {}
  /\ client = "stopped" => ~launched \/ handler = "stopped"
  /\ RequestGoes(q, "clear")
  /\ UNCHANGED <<process, vars, registryVars, handlerVars, gateVars, answer>>

SetClear_KeepBug(q) ==
  /\ request[q].at = "clear" /\ RequestGoes(q, "onFail")
  /\ UNCHANGED <<process, vars, registryVars, handlerVars, gateVars, answer>>

SetClear(q) ==
  /\ request[q].at = "clear" /\ RequestGoes(q, "onFail")
  /\ R!ClearAll
  /\ UNCHANGED <<process, vars, handlerVars, gateVars, answer>>

SetOnFail(q) ==
  /\ request[q].at = "onFail" /\ RequestGoes(q, "adding")
  /\ R!AddNamed(OnFail, OnFail)
  /\ UNCHANGED <<process, vars, handlerVars, gateVars, answer>>

\* An Add that fails is left out of the answer.
SetAdd(q) ==
  LET i == request[q].next
      bp == [file |-> Arguments[q].file, line |-> Arguments[q].lines[i]]
      ids == request[q].ids
  IN
  /\ request[q].at = "adding" /\ i <= Len(Arguments[q].lines)
  /\ R!AddUnnamed(bp)
  /\ request' = [request EXCEPT ![q].next = i + 1,
                   ![q].ids = IF breakpointIndex \in DOMAIN breakpoints THEN ids
                              ELSE [k \in DOMAIN ids \cup {breakpointIndex} |->
                                      IF k = breakpointIndex THEN bp ELSE ids[k]]]
  /\ UNCHANGED <<process, vars, handlerVars, gateVars, answer>>

SetAnswer(q) ==
  /\ request[q].at = "adding" /\ request[q].next > Len(Arguments[q].lines)
  /\ RequestGoes(q, "answered") /\ answer' = request[q].ids
  /\ UNCHANGED <<process, vars, registryVars, handlerVars, gateVars>>

\* Two goroutines use the map at the same time and one of them writes: the
\* runtime may notice and end the process.
RuntimeAborts ==
  /\ Editing # {} /\ (Cardinality(Editing) > 1 \/ handler = "judging")
  /\ Panic

-----------------------------------------------------------------------------
SetStep(q) == Send(q) \/ SetClear(q) \/ SetOnFail(q) \/ SetAdd(q) \/ SetAnswer(q)

DecisionNext ==
  /\ process = "up" /\ UNCHANGED client
  /\ \/ Launch \/ \E c \in Solves : Solve(c)
     \/ \E ev \in R!Events : Reach(ev) \/ GiveUp(ev) \/ Take(ev)
     \/ Visit \/ Decide \/ \E next \in BOOLEAN : Resume(next)
     \/ \E q \in Requests : SetStep(q)
     \/ RuntimeAborts

DecisionSpec == DecisionInit /\ [][DecisionNext]_decisionVars

-----------------------------------------------------------------------------
(* Properties *)

\* A client that sends one setBreakpoints at a time has been told the truth:
\* the ids answered last are the keys of the registry, and each names the
\* breakpoint that was asked for; on-fail is back (dap.go:360-386).
AnswerIsRegistry ==
  client # "eager" /\ Editing = {} /\ (\E q \in Requests : request[q].at = "answered") =>
    /\ DOMAIN breakpoints = DOMAIN answer \cup {OnFail}
    /\ \A k \in DOMAIN answer : breakpoints[k] = answer[k]

\* For a client that edits at stops only: a step stops the build exactly if it
\* failed, the user is stepping, or a breakpoint of the last answer is on its
\* lines; the stop names those; the iteration never meets a breakpoint that is
\* gone; and no step passes unjudged while a call of Solve wants it
\* (breakpoint.go:72-83, handler.go:116-125, controller.go:52-57).
StopsWhereAnswered ==
  [][client = "stopped" =>
       /\ process' = "up"
       /\ handler = "judging" /\ handler' # "judging" =>
            LET named == {k \in DOMAIN answer : R!LineIsTarget(answer[k], judged)}
            IN  /\ hits \ {OnFail} = named
                /\ handler' = "stopped" <=> named # {} \/ judged.failed \/ breakEach
       /\ \A ev \in pending \ pending' : judged' = ev \/ ~Wanted(ev.vertex)]_decisionVars
=============================================================================
