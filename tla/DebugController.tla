-------------------------- MODULE DebugController --------------------------
(***************************************************************************)
(* pkg/buildkit/controller.go: the rendezvous between build steps and the  *)
(* debugger.                                                               *)
(*                                                                         *)
(* Every wrapped solver operation ends in notifyAndWait: it registers the  *)
(* results of the step, registers a pause channel under a fresh DebugID,   *)
(* offers the event on the unbuffered eventCh and waits for the pause      *)
(* channel to be closed, giving up at either select when its context is    *)
(* cancelled.  handle() receives one event at a time, calls the break      *)
(* handler and closes the channel of that event (continueID), unless the   *)
(* handler returned an error: then it returns and the step stays held.     *)
(*                                                                         *)
(* A DebugID is drawn afresh by each call, so a call and its DebugID are   *)
(* one identifier here.  handle() only ever runs under                     *)
(* context.Background() (handler.go:36): its ctx.Done case cannot fire.    *)
(***************************************************************************)
EXTENDS FiniteSets

CONSTANTS
  Calls,           \* calls of notifyAndWait, and their DebugIDs
  Handlers,        \* calls of handle()
  HandlerErrors,   \* errors a break handler returns (exit, reload, ...)
  None,            \* no call
  NoErr,           \* the nil error
  OnGoing          \* the error "on going handler exists"

ASSUME NoneAssumption == None \notin Calls
ASSUME ErrAssumption ==
  /\ NoErr # OnGoing
  /\ {NoErr, OnGoing} \cap HandlerErrors = {}

\* Operators whose name ends in _Bug are not part of the specification: each is
\* a plausible mistake in the operator that follows it, and the runs must
\* notice the exchange.

VARIABLES
  call,            \* control point of each call of notifyAndWait
  event,           \* the inner operation behind the call: "cached" (LoadCacheHook),
                   \* or an Exec that succeeded ("ok") or returned an error ("failed")
  result,          \* what the wrapper returned to the solver
  workerRefByID,   \* which results of which call the worker can look up
  pause,           \* DebugIDs with an entry in the pause map
  closed,          \* DebugIDs whose pause channel has been closed
  ctxDone,         \* calls whose context is cancelled
  handleStarted,   \* the flag of the same name
  loop,            \* control point of each call of handle()
  msg,             \* the event handle() is working on
  herr             \* the error of handle()

callVars == <<call, event, result, workerRefByID>>
handleVars == <<handleStarted, loop, msg, herr>>
vars == <<callVars, pause, closed, ctxDone, handleVars>>

Events == {"cached", "ok", "failed"}
Results == {"pending", "ok", "opError", "notifyError"}
Parts == {"inputs", "mounts"}       \* the two calls of registerResultIDs

CallStates == {"idle", "inputs", "mounts", "registered", "sending", "waiting",
               "unregistered", "cancelled", "continued"}
LoopStates == {"none", "checked", "listening", "handling", "continuing",
               "failing", "returned", "refused"}

\* handle() holds no event.
Empty == {"none", "checked", "listening", "refused"}
\* notifyAndWait has returned, with an error in the first two cases.
Ended == {"unregistered", "cancelled", "continued"}
\* The event of the call has been handed to a handler, or may still be.
AtGate == {"sending", "waiting"}

TypeOK ==
  /\ call \in [Calls -> CallStates]
  /\ event \in [Calls -> Events \cup {"none"}]
  /\ result \in [Calls -> Results]
  /\ workerRefByID \subseteq Calls \X Parts
  /\ pause \subseteq Calls
  /\ closed \subseteq Calls
  /\ ctxDone \subseteq Calls
  /\ handleStarted \in BOOLEAN
  /\ loop \in [Handlers -> LoopStates]
  /\ msg \in [Handlers -> Calls \cup {None}]
  /\ herr \in [Handlers -> HandlerErrors \cup {NoErr, OnGoing}]
  /\ \A h \in Handlers : (msg[h] = None) <=> (loop[h] \in Empty)

Init ==
  /\ call = [n \in Calls |-> "idle"]
  /\ event = [n \in Calls |-> "none"]
  /\ result = [n \in Calls |-> "pending"]
  /\ workerRefByID = {}
  /\ pause = {}
  /\ closed = {}
  /\ ctxDone = {}
  /\ handleStarted = FALSE
  /\ loop = [h \in Handlers |-> "none"]
  /\ msg = [h \in Handlers |-> None]
  /\ herr = [h \in Handlers |-> NoErr]

-----------------------------------------------------------------------------
(* notifyAndWait and the wrappers around it *)

CallGoes(n, from, to) ==
  /\ call[n] = from
  /\ call' = [call EXCEPT ![n] = to]

\* The inner operation is over (or its result came from the cache): the
\* wrapper calls notifyAndWait.
Notify(n, e) ==
  /\ CallGoes(n, "idle", "inputs")
  /\ event' = [event EXCEPT ![n] = e]
  /\ UNCHANGED <<result, workerRefByID, pause, closed, ctxDone, handleVars>>

RegisterResultIDs_InputsBug(n) ==
  /\ CallGoes(n, "inputs", "registered")
  /\ workerRefByID' = workerRefByID \cup {<<n, "inputs">>}
  /\ UNCHANGED <<event, result, pause, closed, ctxDone, handleVars>>

\* registerResultIDs makes the inputs, then the mounts, available by ID.
RegisterResultIDs(n) ==
  /\ \/ /\ CallGoes(n, "inputs", "mounts")
        /\ workerRefByID' = workerRefByID \cup {<<n, "inputs">>}
     \/ /\ CallGoes(n, "mounts", "registered")
        /\ workerRefByID' = workerRefByID \cup {<<n, "mounts">>}
  /\ UNCHANGED <<event, result, pause, closed, ctxDone, handleVars>>

\* A result that is not a worker ref: notifyAndWait returns the error at once.
RegisterFails(n) ==
  /\ CallGoes(n, call[n], "unregistered")
  /\ call[n] \in {"inputs", "mounts"}
  /\ UNCHANGED <<event, result, workerRefByID, pause, closed, ctxDone, handleVars>>

Wait_NoEntryBug(n) ==
  /\ CallGoes(n, "registered", "sending")
  /\ UNCHANGED <<event, result, workerRefByID, pause, closed, ctxDone, handleVars>>

\* wait(): the pause channel is in the map before the event is offered.
Wait(n) ==
  /\ CallGoes(n, "registered", "sending")
  /\ pause' = pause \cup {n}
  /\ UNCHANGED <<event, result, workerRefByID, closed, ctxDone, handleVars>>

\* The rendezvous on eventCh.
Deliver(n, h) ==
  /\ CallGoes(n, "sending", "waiting")
  /\ loop[h] = "listening"
  /\ loop' = [loop EXCEPT ![h] = "handling"]
  /\ msg' = [msg EXCEPT ![h] = n]
  /\ UNCHANGED <<event, result, workerRefByID, pause, closed, ctxDone,
                 handleStarted, herr>>

GiveUp_EitherBug(n) ==
  /\ call[n] \in AtGate
  /\ CallGoes(n, call[n], "cancelled")
  /\ UNCHANGED <<event, result, workerRefByID, pause, closed, ctxDone, handleVars>>

\* The ctx.Done case of either select; the pause entry stays in the map.
GiveUp(n) ==
  /\ call[n] \in AtGate
  /\ n \in ctxDone
  /\ CallGoes(n, call[n], "cancelled")
  /\ UNCHANGED <<event, result, workerRefByID, pause, closed, ctxDone, handleVars>>

Wake_EarlyBug(n) ==
  /\ CallGoes(n, "waiting", "continued")
  /\ UNCHANGED <<event, result, workerRefByID, pause, closed, ctxDone, handleVars>>

\* The waitCh case of the second select.
Wake(n) ==
  /\ CallGoes(n, "waiting", "continued")
  /\ n \in closed
  /\ UNCHANGED <<event, result, workerRefByID, pause, closed, ctxDone, handleVars>>

ResultOf_MaskBug(n) ==
  IF event[n] = "cached" THEN "ok"
  ELSE IF call[n] # "continued" THEN "notifyError"
  ELSE IF event[n] = "failed" THEN "opError" ELSE "ok"

\* LoadCacheHook drops the error of notifyAndWait; Exec returns the error of
\* the operation, and that of notifyAndWait only if the operation had none.
ResultOf(n) ==
  IF event[n] = "cached" THEN "ok"
  ELSE IF event[n] = "failed" THEN "opError"
  ELSE IF call[n] = "continued" THEN "ok" ELSE "notifyError"

Return(n) ==
  /\ call[n] \in Ended
  /\ result[n] = "pending"
  /\ result' = [result EXCEPT ![n] = ResultOf(n)]
  /\ UNCHANGED <<call, event, workerRefByID, pause, closed, ctxDone, handleVars>>

\* The solver cancels the context of the operation.
Cancel(n) ==
  /\ n \notin ctxDone
  /\ ctxDone' = ctxDone \cup {n}
  /\ UNCHANGED <<callVars, pause, closed, handleVars>>

-----------------------------------------------------------------------------
(* handle() *)

LoopGoes(h, from, to) ==
  /\ loop[h] = from
  /\ loop' = [loop EXCEPT ![h] = to]

\* handleStarted is read and written without a lock: two steps.
HandleRefused(h) ==
  /\ handleStarted
  /\ LoopGoes(h, "none", "refused")
  /\ herr' = [herr EXCEPT ![h] = OnGoing]
  /\ UNCHANGED <<callVars, pause, closed, ctxDone, handleStarted, msg>>

HandleCheck(h) ==
  /\ ~handleStarted
  /\ LoopGoes(h, "none", "checked")
  /\ UNCHANGED <<callVars, pause, closed, ctxDone, handleStarted, msg, herr>>

HandleStart(h) ==
  /\ LoopGoes(h, "checked", "listening")
  /\ handleStarted' = TRUE
  /\ UNCHANGED <<callVars, pause, closed, ctxDone, msg, herr>>

\* Handler.handle returns e, or (NoErr) is skipped for want of a location.
Judge(h, e) ==
  /\ LoopGoes(h, "handling", IF e = NoErr THEN "continuing" ELSE "failing")
  /\ herr' = [herr EXCEPT ![h] = e]
  /\ UNCHANGED <<callVars, pause, closed, ctxDone, handleStarted, msg>>

ContinueID_KeepBug(h) ==
  /\ LoopGoes(h, "continuing", "listening")
  /\ closed' = closed \cup ({msg[h]} \cap pause)
  /\ msg' = [msg EXCEPT ![h] = None]
  /\ UNCHANGED <<callVars, pause, ctxDone, handleStarted, herr>>

ContinueID_NoCloseBug(h) ==
  /\ LoopGoes(h, "continuing", "listening")
  /\ pause' = pause \ {msg[h]}
  /\ msg' = [msg EXCEPT ![h] = None]
  /\ UNCHANGED <<callVars, closed, ctxDone, handleStarted, herr>>

\* continueID(): close the pause channel and delete its entry.
ContinueID(h) ==
  /\ LoopGoes(h, "continuing", "listening")
  /\ closed' = closed \cup ({msg[h]} \cap pause)
  /\ pause' = pause \ {msg[h]}
  /\ msg' = [msg EXCEPT ![h] = None]
  /\ UNCHANGED <<callVars, ctxDone, handleStarted, herr>>

HandleReturn_ContinueBug(h) ==
  /\ LoopGoes(h, "failing", "returned")
  /\ handleStarted' = FALSE
  /\ closed' = closed \cup ({msg[h]} \cap pause)
  /\ pause' = pause \ {msg[h]}
  /\ UNCHANGED <<callVars, ctxDone, msg, herr>>

\* The handler's error ends the loop; the deferred function resets the flag.
HandleReturn(h) ==
  /\ LoopGoes(h, "failing", "returned")
  /\ handleStarted' = FALSE
  /\ UNCHANGED <<callVars, pause, closed, ctxDone, msg, herr>>

-----------------------------------------------------------------------------

CallNext(n) ==
  \/ \E e \in Events : Notify(n, e)
  \/ RegisterResultIDs(n)
  \/ RegisterFails(n)
  \/ Wait(n)
  \/ GiveUp(n)
  \/ Wake(n)
  \/ Return(n)
  \/ Cancel(n)

HandleNext(h) ==
  \/ HandleRefused(h)
  \/ HandleCheck(h)
  \/ HandleStart(h)
  \/ \E e \in HandlerErrors \cup {NoErr} : Judge(h, e)
  \/ ContinueID(h)
  \/ HandleReturn(h)

Next ==
  \/ \E n \in Calls : CallNext(n)
  \/ \E h \in Handlers : HandleNext(h)
  \/ \E n \in Calls, h \in Handlers : Deliver(n, h)

Spec == Init /\ [][Next]_vars

\* Scheduling: a goroutine that can run does; someone answers every prompt,
\* and GiveUp is taken once the context is cancelled.
Fairness ==
  /\ \A n \in Calls :
       /\ WF_vars(RegisterResultIDs(n))
       /\ WF_vars(Wait(n))
       /\ WF_vars(GiveUp(n))
       /\ WF_vars(Wake(n))
       /\ WF_vars(Return(n))
  /\ \A h \in Handlers :
       /\ WF_vars(HandleStart(h))
       /\ WF_vars(\E e \in HandlerErrors \cup {NoErr} : Judge(h, e))
       /\ WF_vars(ContinueID(h))
       /\ WF_vars(HandleReturn(h))
       /\ \A n \in Calls : WF_vars(Deliver(n, h))

FairSpec == Spec /\ Fairness

-----------------------------------------------------------------------------
(* Properties *)

\* The handler has refused the step: it returned an error on it.
Refused(n) ==
  \E h \in Handlers : msg[h] = n /\ loop[h] \in {"failing", "returned"}

Passed(n) ==
  n \in closed \/ \E h \in Handlers : msg[h] = n /\ loop[h] = "continuing"

\* No wakeup is lost (controller.go:236, 118-125): a step blocked on its pause
\* channel either finds it closed, or the channel is in the map where
\* continueID will find it and exactly one handler is working on the step.
NoLostWakeup ==
  \A n \in Calls :
    call[n] = "waiting" /\ n \notin closed =>
      /\ n \in pause
      /\ \E h \in Handlers :
           msg[h] = n /\ \A k \in Handlers \ {h} : msg[k] # n

\* continueID closes each channel once and removes it (controller.go:121-124),
\* so the only entries that outlive their step are those of steps cancelled at
\* a select (controller.go:240, 254).
PauseHasOwner ==
  /\ pause \cap closed = {}
  /\ \A n \in pause : call[n] \in AtGate \/ (call[n] = "cancelled" /\ n \in ctxDone)

\* When a handler looks at a step, every result of the step can be looked up
\* by its ID (controller.go:228-235): a prompt can always start a container.
ShownResultsResolve ==
  \A h \in Handlers : msg[h] # None => {msg[h]} \X Parts \subseteq workerRefByID

\* The outcome of an operation survives the notification (controller.go:310-323):
\* a failed one is never reported as anything else, and an executed one is
\* reported as successful only after a handler let it pass.
ResultHonest ==
  \A n \in Calls :
    /\ event[n] = "failed" => result[n] \in {"pending", "opError"}
    /\ event[n] = "ok" /\ result[n] = "ok" => n \in closed

\* The controller implements the gate (controller.go:40-67, 227-258).
GateStep ==
  [n \in Calls |->
     IF call[n] \in AtGate THEN "held"
     ELSE IF call[n] = "continued" THEN "released"
     ELSE IF call[n] \in Ended THEN "aborted" ELSE "building"]

GateVerdict ==
  [n \in Calls |-> IF Passed(n) THEN "passed"
                   ELSE IF Refused(n) THEN "refused" ELSE "none"]

Gate == INSTANCE StepGate WITH step <- GateStep, verdict <- GateVerdict

GateSpec == Gate!Spec

\* A step offered to a handler that listens is resolved: it leaves
\* notifyAndWait, or a handler refused it or returned (controller.go:53-66).
OfferedIsResolved ==
  \A n \in Calls, h \in Handlers :
    (call[n] = "sending" /\ loop[h] = "listening")
      ~> (call[n] \in Ended \/ Refused(n) \/ loop[h] = "returned")
=============================================================================
