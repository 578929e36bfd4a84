---------------------------- MODULE DebugSession ----------------------------
(***************************************************************************)
(* pkg/buildkit/client.go (Debug, debug) and handler.go (withDebug): one   *)
(* debug session.  Each attempt runs, under one errgroup,                  *)
(*   - c.Build, which calls the buildFunc that withDebug wraps; the steps  *)
(*     of the Dockerfile run below it and go through the controller,       *)
(*   - the goroutine withDebug starts: it calls handle() and then offers   *)
(*     its error on handleError, or gives up when buildFunc has returned,  *)
(*   - a watcher that takes that error, or gives up when c.Build is over.  *)
(* The first error of the errgroup is the result of the attempt; ErrReload *)
(* starts another attempt with the same controller.                        *)
(*                                                                         *)
(* The solver is outside src/: a step runs once the steps it depends on    *)
(* have succeeded, and its context is cancelled at some time after the     *)
(* errgroup's, after another step failed or after the build is over.  A    *)
(* step of an earlier attempt may still be on its way then.                *)
(***************************************************************************)
EXTENDS Naturals, FiniteSets

CONSTANTS
  Steps,           \* the wrapped operations of the Dockerfile
  DependsOn,       \* the steps each of them needs
  MaxAttempts,     \* bound: attempts in a session (the user reloads less often)
  DebugImage,      \* is an image for the debugger solved first?
  None

ASSUME SessionAssumption ==
  /\ DependsOn \in [Steps -> SUBSET Steps]
  /\ MaxAttempts \in Nat \ {0}
  /\ DebugImage \in BOOLEAN
  /\ None \notin (1 .. MaxAttempts) \X Steps

Attempts == 1 .. MaxAttempts
Calls == Attempts \X Steps
NoErr == "nil"
OnGoing == "ongoing"
\* What a break handler answers when it does not let the step pass: ErrExit,
\* ErrReload, or a failure to read the answer.
HandlerErrors == {"exit", "reload", "readError"}
\* How c.Build fails: a step failed, the context was cancelled, or anything
\* else (the connection, the frontend, the debug image, the export).
BuildErrors == {"stepFailed", "cancelled", "fault"}

VARIABLES
  call, event, result, workerRefByID, pause, closed, ctxDone,
  handleStarted, loop, msg, herr,    \* the variables of DebugController
  attempt,         \* the attempt that runs
  goroutine,       \* per attempt: the goroutine withDebug starts
  watcher,         \* per attempt: the errgroup's reader of handleErrorCh
  build,           \* per attempt: progress of c.Build and buildFunc
  solving,         \* attempts whose steps have been handed to the solver
  buildErr,        \* per attempt: the error of buildFunc and c.Build
  egErr,           \* per attempt: the first error of the errgroup
  interrupted,     \* the context of Debug() is cancelled
  outcome,         \* what debug() returned, or "running"
  phase, returned, maker, server, accept, dial, done  \* Debug around it: DebugCall

C == INSTANCE DebugController WITH Handlers <- Attempts

controllerVars == <<call, event, result, workerRefByID, pause, closed, ctxDone,
                    handleStarted, loop, msg, herr>>
sessionVars == <<attempt, goroutine, watcher, build, solving, buildErr,
                 egErr, interrupted, outcome>>
startVars == <<phase, returned, maker, server, accept, dial, done>>
otherVars == <<controllerVars, startVars>>
vars == <<controllerVars, sessionVars, startVars>>

TypeOK ==
  /\ C!TypeOK
  /\ attempt \in Attempts
  /\ goroutine \in [Attempts -> {"none", "handle", "offer", "done"}]
  /\ watcher \in [Attempts -> {"none", "select", "done"}]
  /\ build \in [Attempts -> {"none", "connecting", "image", "frontend",
                             "funcDone", "done"}]
  /\ solving \subseteq Attempts
  /\ buildErr \in [Attempts -> BuildErrors \cup {NoErr}]
  /\ egErr \in [Attempts -> BuildErrors \cup HandlerErrors \cup {NoErr, OnGoing}]
  /\ interrupted \in BOOLEAN
  /\ outcome \in BuildErrors \cup HandlerErrors \cup {NoErr, OnGoing, "running"}

Init ==
  /\ C!Init
  /\ attempt = 1
  /\ goroutine = [a \in Attempts |-> "none"]
  /\ watcher = [a \in Attempts |-> IF a = 1 THEN "select" ELSE "none"]
  /\ build = [a \in Attempts |-> IF a = 1 THEN "connecting" ELSE "none"]
  /\ solving = {}
  /\ buildErr = [a \in Attempts |-> NoErr]
  /\ egErr = [a \in Attempts |-> NoErr]
  /\ interrupted = FALSE
  /\ outcome = "running"
  \* Debug has a client, and the server has its connection.
  /\ phase = "debugging" /\ returned = "none" /\ maker = "made"
  /\ server = "serving" /\ accept = "select" /\ dial = "up" /\ done = FALSE

egCtxDone(a) == interrupted \/ egErr[a] # NoErr \/ outcome # "running"

\* errgroup keeps the first error only.
FirstError(a, e) == [egErr EXCEPT ![a] = IF @ = NoErr THEN e ELSE @]

-----------------------------------------------------------------------------
(* buildFunc and c.Build *)

BuildGoes(a, from, to) ==
  /\ build[a] = from
  /\ build' = [build EXCEPT ![a] = to]

\* c.Build calls the function withDebug returned, which starts handle().
CallBuildFunc(a) ==
  /\ BuildGoes(a, "connecting", IF DebugImage THEN "image" ELSE "frontend")
  /\ goroutine' = [goroutine EXCEPT ![a] = "handle"]
  /\ solving' = IF DebugImage THEN solving ELSE solving \cup {a}
  /\ UNCHANGED <<otherVars, attempt, watcher, buildErr, egErr, interrupted, outcome>>

\* The debug image is solved with an operation that is not wrapped.
ImageSolved(a) ==
  /\ BuildGoes(a, "image", "frontend")
  /\ solving' = solving \cup {a}
  /\ UNCHANGED <<otherVars, attempt, goroutine, watcher, buildErr, egErr,
                 interrupted, outcome>>

\* buildFunc returns without error: every step succeeded.
BuildSucceeds(a) ==
  /\ BuildGoes(a, "frontend", "funcDone")
  /\ \A s \in Steps : result[<<a, s>>] = "ok"
  /\ UNCHANGED <<otherVars, attempt, goroutine, watcher, solving, buildErr, egErr,
                 interrupted, outcome>>

BuildErrorHappens(a, e) ==
  CASE e = "stepFailed" ->
         build[a] = "frontend" /\ \E s \in Steps : result[<<a, s>>] \in {"opError", "notifyError"}
    [] e = "cancelled" -> egCtxDone(a)
    [] e = "fault" -> TRUE

\* buildFunc returns an error, or was never called.
BuildFails(a, e) ==
  /\ build[a] \in {"connecting", "image", "frontend"}
  /\ BuildErrorHappens(a, e)
  /\ BuildGoes(a, build[a], "funcDone")
  /\ buildErr' = [buildErr EXCEPT ![a] = e]
  /\ UNCHANGED <<otherVars, attempt, goroutine, watcher, solving, egErr, interrupted, outcome>>

\* c.Build returns; its goroutine of the errgroup closes doneCh and ends.
BuildReturns(a) ==
  /\ BuildGoes(a, "funcDone", "done")
  /\ egErr' = FirstError(a, buildErr[a])
  /\ UNCHANGED <<otherVars, attempt, goroutine, watcher, solving, buildErr, interrupted,
                 outcome>>

-----------------------------------------------------------------------------
(* The goroutine of withDebug and the watcher of debug() *)

\* The operand of the select is evaluated first: nothing is offered, and
\* doneCh is not looked at, before handle() returns.
OfferHandleError(a) ==
  /\ goroutine[a] = "handle"
  /\ loop[a] \in {"returned", "refused"}
  /\ goroutine' = [goroutine EXCEPT ![a] = "offer"]
  /\ UNCHANGED <<otherVars, attempt, watcher, build, solving, buildErr, egErr,
                 interrupted, outcome>>

\* handleError <- ... meets <-handleErrorCh.
HandleErrorTaken(a) ==
  /\ goroutine[a] = "offer"
  /\ watcher[a] = "select"
  /\ goroutine' = [goroutine EXCEPT ![a] = "done"]
  /\ watcher' = [watcher EXCEPT ![a] = "done"]
  /\ egErr' = FirstError(a, herr[a])
  /\ UNCHANGED <<otherVars, attempt, build, solving, buildErr, interrupted, outcome>>

\* buildFunc has returned (or is about to) and nobody takes the error.
HandleErrorDropped(a) ==
  /\ goroutine[a] = "offer"
  /\ build[a] \in {"funcDone", "done"}
  /\ goroutine' = [goroutine EXCEPT ![a] = "done"]
  /\ UNCHANGED <<otherVars, attempt, watcher, build, solving, buildErr, egErr,
                 interrupted, outcome>>

WatcherEnds_NoDoneBug(a) ==
  /\ watcher[a] = "select"
  /\ goroutine[a] = "done"
  /\ watcher' = [watcher EXCEPT ![a] = "done"]
  /\ UNCHANGED <<otherVars, attempt, goroutine, build, solving, buildErr, egErr,
                 interrupted, outcome>>

\* handleErrorCh was closed, or doneCh: the watcher ends without an error.
WatcherEnds(a) ==
  /\ watcher[a] = "select"
  /\ goroutine[a] = "done" \/ build[a] = "done"
  /\ watcher' = [watcher EXCEPT ![a] = "done"]
  /\ UNCHANGED <<otherVars, attempt, goroutine, build, solving, buildErr, egErr,
                 interrupted, outcome>>

-----------------------------------------------------------------------------
(* eg.Wait, reload and the result of Debug *)

Reloads_AnyErrorBug(a) == egErr[a] \in {"reload", "stepFailed"} /\ a < MaxAttempts


Reloads(a) == egErr[a] = "reload"

WaitOver(a) == attempt = a /\ outcome = "running" /\ watcher[a] = "done" /\ build[a] = "done"

Reload(a) ==
  /\ WaitOver(a)
  /\ Reloads(a)
  /\ attempt' = a + 1
  /\ watcher' = [watcher EXCEPT ![a + 1] = "select"]
  /\ build' = [build EXCEPT ![a + 1] = "connecting"]
  /\ UNCHANGED <<otherVars, goroutine, solving, buildErr, egErr, interrupted, outcome>>

DebugResult_ReadErrorBug(e) == IF e \in HandlerErrors THEN NoErr ELSE e

\* Debug hides ErrExit.
DebugResult(e) == IF e = "exit" THEN NoErr ELSE e

Finish(a) ==
  /\ WaitOver(a)
  /\ ~Reloads(a)
  /\ outcome' = DebugResult(egErr[a])
  /\ UNCHANGED <<otherVars, attempt, goroutine, watcher, build, solving, buildErr, egErr,
                 interrupted>>

\* SIGINT, or in DAP a disconnect, cancels the context given to Debug.
Interrupt ==
  /\ ~interrupted
  /\ outcome = "running"
  /\ returned = "none"
  /\ interrupted' = TRUE
  /\ UNCHANGED <<otherVars, attempt, goroutine, watcher, build, solving, buildErr, egErr,
                 outcome>>

-----------------------------------------------------------------------------
(* The steps and the handler, through the controller *)

\* A step whose dependencies succeeded comes to its end.
StepEnds(a, s, e) ==
  /\ a \in solving
  /\ \A t \in DependsOn[s] : result[<<a, t>>] = "ok"
  /\ C!Notify(<<a, s>>, e)

StepFailed(a) == \E s \in Steps : result[<<a, s>>] \in {"opError", "notifyError"}

SolverCancels(a, s) ==
  /\ a \in solving
  /\ egCtxDone(a) \/ StepFailed(a) \/ build[a] \in {"funcDone", "done"}
  /\ C!Cancel(<<a, s>>)

\* The user answers the prompt of attempt a (at most MaxAttempts - 1 reloads).
Answer(a, e) ==
  /\ e = "reload" => a < MaxAttempts
  /\ C!Judge(a, e)

StepNext(a, s) ==
  LET n == <<a, s>> IN
  \/ \E e \in C!Events : StepEnds(a, s, e)
  \/ SolverCancels(a, s)
  \/ C!RegisterResultIDs(n)
  \/ C!RegisterFails(n)
  \/ C!Wait(n)
  \/ C!GiveUp(n)
  \/ C!Wake(n)
  \/ C!Return(n)
  \/ \E h \in Attempts : C!Deliver(n, h)

HandlerNext(a) ==
  \/ goroutine[a] = "handle" /\ (C!HandleRefused(a) \/ C!HandleCheck(a))
  \/ C!HandleStart(a)
  \/ \E e \in HandlerErrors \cup {NoErr} : Answer(a, e)
  \/ C!ContinueID(a)
  \/ C!HandleReturn(a)

ControllerNext ==
  /\ \E a \in Attempts : HandlerNext(a) \/ \E s \in Steps : StepNext(a, s)
  /\ UNCHANGED <<sessionVars, startVars>>

SessionNext(a) ==
  \/ CallBuildFunc(a)
  \/ ImageSolved(a)
  \/ BuildSucceeds(a)
  \/ \E e \in BuildErrors : BuildFails(a, e)
  \/ BuildReturns(a)
  \/ OfferHandleError(a)
  \/ HandleErrorTaken(a)
  \/ HandleErrorDropped(a)
  \/ WatcherEnds(a)
  \/ Reload(a)
  \/ Finish(a)

Next ==
  \/ ControllerNext
  \/ \E a \in Attempts : SessionNext(a)
  \/ Interrupt

Spec == Init /\ [][Next]_vars

Internal(A) == A /\ UNCHANGED <<sessionVars, startVars>>

\* Goroutines that can run do; inner operations end; the solver cancels what it
\* no longer wants and c.Build ends once it has a reason to.  No one is obliged
\* to answer a prompt, to interrupt, or to fail.
Fairness ==
  \A a \in Attempts :
    /\ WF_vars(CallBuildFunc(a)) /\ WF_vars(ImageSolved(a))
    /\ WF_vars(BuildSucceeds(a)) /\ WF_vars(BuildReturns(a))
    /\ WF_vars(BuildFails(a, "stepFailed")) /\ WF_vars(BuildFails(a, "cancelled"))
    /\ WF_vars(OfferHandleError(a)) /\ WF_vars(HandleErrorTaken(a))
    /\ WF_vars(HandleErrorDropped(a)) /\ WF_vars(WatcherEnds(a))
    /\ WF_vars(Reload(a)) /\ WF_vars(Finish(a))
    /\ WF_vars(Internal(goroutine[a] = "handle" /\ (C!HandleRefused(a) \/ C!HandleCheck(a))))
    /\ WF_vars(Internal(C!HandleStart(a)))
    /\ WF_vars(Internal(C!ContinueID(a)))
    /\ WF_vars(Internal(C!HandleReturn(a)))
    /\ \A s \in Steps :
         /\ WF_vars(Internal(\E e \in C!Events : StepEnds(a, s, e)))
         /\ WF_vars(Internal(SolverCancels(a, s)))
         /\ WF_vars(Internal(C!RegisterResultIDs(<<a, s>>)))
         /\ WF_vars(Internal(C!Wait(<<a, s>>)))
         /\ WF_vars(Internal(C!GiveUp(<<a, s>>)))
         /\ WF_vars(Internal(C!Wake(<<a, s>>)))
         /\ WF_vars(Internal(C!Return(<<a, s>>)))
         /\ \A h \in Attempts : WF_vars(Internal(C!Deliver(<<a, s>>, h)))

\* Every prompt is answered in the end: not assumed, a hypothesis of
\* DebugCall's DebugEnds.
Answers ==
  \A a \in Attempts :
    WF_vars(Internal(\E e \in HandlerErrors \cup {NoErr} : Answer(a, e)))

-----------------------------------------------------------------------------
(* Properties *)

\* A new attempt finds the controller free (controller.go:41-45, client.go:168-171):
\* handle() of every earlier attempt has returned, so no "on going handler
\* exists", and no old handler takes the events of the new attempt.
RestartIsClean ==
  /\ \A a \in Attempts : loop[a] # "refused"
  /\ \A a \in Attempts : a < attempt => loop[a] = "returned"

\* While a step is at the prompt and not cancelled, nothing that depends on it
\* has run (controller.go:310-323, 249-257): the build is really paused there.
PromptHoldsDependents ==
  \A h \in Attempts : loop[h] = "handling" /\ msg[h] \notin ctxDone =>
    \A t \in Steps :
      msg[h][2] \in DependsOn[t] => event[<<msg[h][1], t>>] = "none"

\* A build that succeeds was seen whole by the debugger: if nobody interrupted
\* it, every step went through a handler that let it pass, but for a cached
\* step whose results could not be registered (controller.go:286-294).
SuccessWasSeen ==
  outcome = NoErr /\ egErr[attempt] = NoErr /\ ~interrupted =>
    \A s \in Steps : LET n == <<attempt, s>> IN
      \/ call[n] = "continued" /\ n \in closed
      \/ call[n] = "unregistered" /\ event[n] = "cached"

\* An attempt does not fail because of a step before someone let that step
\* pass (controller.go:310-323): the failure was held at the gate first, unless
\* the session was interrupted or the results could not be registered.
FailureIsHeldFirst ==
  \A a \in Attempts : egErr[a] = "stepFailed" /\ ~interrupted =>
    \E s \in Steps : LET n == <<a, s>> IN
      \/ event[n] = "failed" /\ n \in closed
      \/ call[n] = "unregistered"

\* Debug() reports success only for a build that succeeded or a user who left,
\* and never reports a reload (client.go:106-113, 168-175).
OutcomeHonest ==
  /\ outcome \notin {"reload", "exit"}
  /\ outcome = NoErr =>
       \/ herr[attempt] = "exit"
       \/ \A s \in Steps : result[<<attempt, s>>] = "ok"

=============================================================================
