--------------------------- MODULE DebugCallProofs ---------------------------
(***************************************************************************)
(* Proofs about DebugCall, for any number of attempts and any steps with   *)
(* any dependencies: a restart finds the controller free, the outcome of   *)
(* Debug is what happened, and the server it started is stopped.           *)
(***************************************************************************)
EXTENDS DebugCall, TLAPS

Active == {"listening", "handling", "continuing", "failing"}

\* Only the handler of the attempt that runs is at work: earlier ones have
\* returned, later ones were not started, and the flag says which it is.
OneHandler ==
  /\ \A a \in Attempts : a < attempt => loop[a] = "returned"
  /\ \A a \in Attempts : a > attempt =>
       loop[a] = "none" /\ goroutine[a] = "none" /\ build[a] = "none"
  /\ handleStarted <=> loop[attempt] \in Active
  /\ \A a \in Attempts :
       /\ loop[a] # "refused"
       /\ goroutine[a] = "none" => loop[a] = "none"
       /\ goroutine[a] \in {"offer", "done"} => loop[a] = "returned"

\* Where the errors of an attempt come from.
ErrorsTraced ==
  \A a \in Attempts :
    /\ herr[a] = "reload" => a < MaxAttempts
    /\ egErr[a] \in HandlerErrors => egErr[a] = herr[a] /\ loop[a] = "returned"
    /\ build[a] \in {"funcDone", "done"} /\ buildErr[a] = NoErr =>
         \A s \in Steps : result[<<a, s>>] = "ok"
    /\ build[a] = "done" /\ egErr[a] = NoErr => buildErr[a] = NoErr

OutcomeTraced ==
  /\ outcome \notin {"reload", "exit"}
  /\ outcome = NoErr =>
       \/ loop[attempt] = "returned" /\ herr[attempt] = "exit"
       \/ \A s \in Steps : result[<<attempt, s>>] = "ok"

\* The session and the server start once newClient is done, and Debug waits for
\* the session before it stops the server.
StartInv ==
  /\ build[1] = "none" => attempt = 1 /\ outcome = "running"
  /\ build[1] # "none" => phase # "starting" /\ maker = "made"
  /\ phase = "debugging" => maker = "made"
  /\ returned # "none" <=> phase = "returned"
  /\ maker = "opening" => server = "none"
  /\ maker = "connecting" => server = "serving"
  /\ maker \in {"failed", "ended"} => server # "serving"
  /\ maker = "made" /\ server = "stopped" => outcome # "running"
  /\ phase = "returned" /\ server = "serving" => build[1] = "none"

IInv == TypeOK /\ OneHandler /\ ErrorsTraced /\ OutcomeTraced /\ StartInv

LEMMA One == 1 \in Attempts /\ Attempts \subseteq Nat
BY SessionAssumption DEF Attempts

-----------------------------------------------------------------------------
(* The initial states *)

LEMMA InitIInv == CallInit => IInv
<1> SUFFICES ASSUME CallInit PROVE IInv
  OBVIOUS
<1> USE One DEF CallInit
<1>1. C!TypeOK
  <2>1. handleStarted \in BOOLEAN
    BY DEF C!Init
  <2> QED BY <2>1 DEF C!Init, C!TypeOK, C!CallStates, C!Events, C!Results, C!Parts,
               C!LoopStates, C!Empty, NoErr
<1>2. interrupted \in BOOLEAN
  OBVIOUS
<1>3. TypeOK
  BY <1>1, <1>2 DEF TypeOK
<1>4. OneHandler
  <2>1. handleStarted <=> loop[attempt] \in Active
    BY DEF Active, C!Init
  <2>2. \A a \in Attempts : ~(a < attempt)
    BY DEF Attempts
  <2> QED BY <2>1, <2>2 DEF OneHandler, C!Init
<1>5. ErrorsTraced /\ OutcomeTraced /\ StartInv
  BY DEF ErrorsTraced, OutcomeTraced, StartInv, C!Init, NoErr, HandlerErrors
<1> QED BY <1>3, <1>4, <1>5 DEF IInv

LEMMA SessionInitIInv == Init => IInv
<1> SUFFICES ASSUME Init PROVE IInv
  OBVIOUS
<1> USE One DEF Init
<1>1. C!TypeOK
  <2>1. handleStarted \in BOOLEAN
    BY DEF C!Init
  <2> QED BY <2>1 DEF C!Init, C!TypeOK, C!CallStates, C!Events, C!Results, C!Parts,
               C!LoopStates, C!Empty, NoErr
<1>2. TypeOK
  BY <1>1 DEF TypeOK
<1>3. OneHandler
  <2>1. handleStarted <=> loop[attempt] \in Active
    BY DEF Active, C!Init
  <2>2. \A a \in Attempts : ~(a < attempt)
    BY DEF Attempts
  <2> QED BY <2>1, <2>2 DEF OneHandler, C!Init
<1>4. ErrorsTraced /\ OutcomeTraced /\ StartInv
  BY DEF ErrorsTraced, OutcomeTraced, StartInv, C!Init, NoErr, HandlerErrors
<1> QED BY <1>2, <1>3, <1>4 DEF IInv

-----------------------------------------------------------------------------
(* The steps of the build *)

\* What a step of the build changes: its own result, once, and no handler
\* but the one that takes it.
StepKeeps(a, s) ==
  /\ handleStarted' = handleStarted /\ herr' = herr
  /\ \A b \in Attempts :
       loop'[b] = loop[b] \/ (loop[b] = "listening" /\ loop'[b] = "handling")
  /\ \A n \in Calls : result'[n] = result[n] \/ result[n] = "pending"

LEMMA StepTyped ==
  ASSUME TypeOK, NEW a \in Attempts, NEW s \in Steps, StepNext(a, s)
  PROVE  C!TypeOK' /\ StepKeeps(a, s)
<1> DEFINE n == <<a, s>>
<1>1. n \in Calls
  BY DEF Calls
<1> HIDE DEF n
<1>0. StepNext(a, s) =>
        \/ \E e \in C!Events : C!Notify(n, e)
        \/ C!Cancel(n) \/ C!RegisterResultIDs(n) \/ C!RegisterFails(n) \/ C!Wait(n)
        \/ C!GiveUp(n) \/ C!Wake(n) \/ C!Return(n)
        \/ \E h \in Attempts : C!Deliver(n, h)
  BY DEF StepNext, StepEnds, SolverCancels, n
<1> USE <1>1 DEF TypeOK, C!TypeOK, StepKeeps, C!CallStates, C!Events, C!Results, C!Parts,
        C!LoopStates, C!Empty
<1>2. CASE \E e \in C!Events : C!Notify(n, e)
  BY <1>2 DEF C!Notify, C!CallGoes, C!handleVars
<1>3. CASE C!Cancel(n)
  BY <1>3 DEF C!Cancel, C!callVars, C!handleVars
<1>4. CASE C!RegisterResultIDs(n)
  BY <1>4 DEF C!RegisterResultIDs, C!CallGoes, C!handleVars
<1>5. CASE C!RegisterFails(n)
  BY <1>5 DEF C!RegisterFails, C!CallGoes, C!handleVars
<1>6. CASE C!Wait(n)
  BY <1>6 DEF C!Wait, C!CallGoes, C!handleVars
<1>7. CASE C!GiveUp(n)
  BY <1>7 DEF C!GiveUp, C!CallGoes, C!handleVars
<1>8. CASE C!Wake(n)
  BY <1>8 DEF C!Wake, C!CallGoes, C!handleVars
<1>9. CASE C!Return(n)
  BY <1>9 DEF C!Return, C!ResultOf, C!handleVars
<1>10. CASE \E h \in Attempts : C!Deliver(n, h)
  BY <1>10, SessionAssumption DEF C!Deliver, C!CallGoes, Calls, Attempts
<1> QED BY <1>0, <1>2, <1>3, <1>4, <1>5, <1>6, <1>7, <1>8, <1>9, <1>10, StepNext(a, s)

LEMMA StepIInv ==
  ASSUME IInv, NEW a \in Attempts, NEW s \in Steps, StepNext(a, s),
         UNCHANGED <<sessionVars, startVars>>
  PROVE  IInv'
<1>1. C!TypeOK' /\ StepKeeps(a, s)
  BY StepTyped DEF IInv
<1> USE One DEF IInv, sessionVars, startVars
<1>2. TypeOK'
  BY <1>1 DEF TypeOK
<1>3. OneHandler'
  BY <1>1 DEF StepKeeps, OneHandler, Active, TypeOK
<1>4. \A b \in Attempts, t \in Steps : result[<<b, t>>] = "ok" => result'[<<b, t>>] = "ok"
  BY <1>1 DEF StepKeeps, Calls
<1>5. ErrorsTraced'
  BY <1>1, <1>4 DEF StepKeeps, ErrorsTraced
<1>6. OutcomeTraced'
  BY <1>1, <1>4 DEF StepKeeps, OutcomeTraced, TypeOK
<1>7. StartInv'
  BY DEF StartInv
<1> QED BY <1>2, <1>3, <1>5, <1>6, <1>7

-----------------------------------------------------------------------------
(* The steps of the handlers *)

\* Only the handler of the attempt that runs can move.
LEMMA OnlyTheLast ==
  ASSUME IInv, NEW a \in Attempts, loop[a] # "returned", goroutine[a] # "none"
  PROVE  a = attempt
BY One DEF IInv, TypeOK, OneHandler

LEMMA HandlerTyped ==
  ASSUME IInv, NEW a \in Attempts, HandlerNext(a), UNCHANGED sessionVars
  PROVE  C!TypeOK' /\ OneHandler'
<1> USE One DEF IInv, TypeOK, OneHandler, Active, sessionVars, C!TypeOK, C!CallStates,
        C!Events, C!Results, C!Parts, C!LoopStates, C!Empty
<1>1. CASE goroutine[a] = "handle" /\ C!HandleRefused(a)
  <2>1. a = attempt
    BY <1>1, OnlyTheLast DEF C!HandleRefused, C!LoopGoes
  <2> QED BY <1>1, <2>1 DEF C!HandleRefused, C!LoopGoes
<1>2. CASE goroutine[a] = "handle" /\ C!HandleCheck(a)
  <2>1. a = attempt
    BY <1>2, OnlyTheLast DEF C!HandleCheck, C!LoopGoes
  <2> QED BY <1>2, <2>1 DEF C!HandleCheck, C!LoopGoes, C!callVars
<1>3. CASE C!HandleStart(a)
  <2>1. a = attempt
    BY <1>3, OnlyTheLast DEF C!HandleStart, C!LoopGoes
  <2> QED BY <1>3, <2>1 DEF C!HandleStart, C!LoopGoes, C!callVars
<1>4. CASE \E e \in HandlerErrors \cup {NoErr} : Answer(a, e)
  <2>1. a = attempt
    BY <1>4, OnlyTheLast DEF Answer, C!Judge, C!LoopGoes
  <2> QED BY <1>4, <2>1 DEF Answer, C!Judge, C!LoopGoes, C!callVars
<1>5. CASE C!ContinueID(a)
  <2>1. a = attempt
    BY <1>5, OnlyTheLast DEF C!ContinueID, C!LoopGoes
  <2> QED BY <1>5, <2>1 DEF C!ContinueID, C!LoopGoes, C!callVars
<1>6. CASE C!HandleReturn(a)
  <2>1. a = attempt
    BY <1>6, OnlyTheLast DEF C!HandleReturn, C!LoopGoes
  <2>2. ~handleStarted' /\ handleStarted' \in BOOLEAN
    BY <1>6 DEF C!HandleReturn
  <2>3. C!TypeOK'
    BY <1>6, <2>2 DEF C!HandleReturn, C!LoopGoes, C!callVars
  <2>4. OneHandler'
    BY <1>6, <2>1, <2>2 DEF C!HandleReturn, C!LoopGoes, C!callVars
  <2> QED BY <2>3, <2>4
<1> QED BY <1>1, <1>2, <1>3, <1>4, <1>5, <1>6 DEF HandlerNext

\* What a handler's step changes of what the errors depend on.
LEMMA HandlerKeeps ==
  ASSUME IInv, NEW a \in Attempts, HandlerNext(a), UNCHANGED sessionVars
  PROVE  /\ result' = result
         /\ \A b \in Attempts : loop[b] = "returned" => loop'[b] = "returned" /\ herr'[b] = herr[b]
         /\ \A b \in Attempts : herr'[b] = "reload" => herr[b] = "reload" \/ b < MaxAttempts
<1> USE DEF IInv, TypeOK, OneHandler, C!TypeOK, NoErr, OnGoing
<1>1. CASE goroutine[a] = "handle" /\ C!HandleRefused(a)
  BY <1>1 DEF C!HandleRefused, C!LoopGoes, C!callVars
<1>2. CASE goroutine[a] = "handle" /\ C!HandleCheck(a)
  BY <1>2 DEF C!HandleCheck, C!LoopGoes, C!callVars
<1>3. CASE C!HandleStart(a)
  BY <1>3 DEF C!HandleStart, C!LoopGoes, C!callVars
<1>4. CASE \E e \in HandlerErrors \cup {NoErr} : Answer(a, e)
  BY <1>4 DEF Answer, C!Judge, C!LoopGoes, C!callVars
<1>5. CASE C!ContinueID(a)
  BY <1>5 DEF C!ContinueID, C!LoopGoes, C!callVars
<1>6. CASE C!HandleReturn(a)
  BY <1>6 DEF C!HandleReturn, C!LoopGoes, C!callVars
<1> QED BY <1>1, <1>2, <1>3, <1>4, <1>5, <1>6 DEF HandlerNext

LEMMA HandlerIInv ==
  ASSUME IInv, NEW a \in Attempts, HandlerNext(a),
         UNCHANGED <<sessionVars, startVars>>
  PROVE  IInv'
<1>1. C!TypeOK' /\ OneHandler'
  BY HandlerTyped
<1> USE HandlerKeeps, One DEF IInv, sessionVars, startVars
<1>2. TypeOK'
  BY <1>1 DEF TypeOK
<1>3. ErrorsTraced'
  BY DEF ErrorsTraced
<1>4. OutcomeTraced'
  BY DEF OutcomeTraced, TypeOK
<1>5. StartInv'
  BY DEF StartInv
<1> QED BY <1>1, <1>2, <1>3, <1>4, <1>5

-----------------------------------------------------------------------------
(* The steps of the session *)

LEMMA ControllerUnchanged ==
  ASSUME IInv, UNCHANGED controllerVars
  PROVE  C!TypeOK'
BY DEF IInv, TypeOK, C!TypeOK, controllerVars

LEMMA BuildIInv ==
  ASSUME IInv, NEW a \in Attempts,
         \/ CallBuildFunc(a) \/ ImageSolved(a) \/ BuildSucceeds(a)
         \/ \E e \in BuildErrors : BuildFails(a, e)
         \/ BuildReturns(a)
  PROVE  IInv'
<1> USE One, ControllerUnchanged DEF IInv, BuildGoes, otherVars, startVars, controllerVars
<1>0. UNCHANGED <<controllerVars, startVars, attempt, outcome, interrupted>>
  BY DEF CallBuildFunc, ImageSolved, BuildSucceeds, BuildFails, BuildReturns
<1>t. TypeOK'
  <2>1. CASE CallBuildFunc(a)
    BY <2>1, <1>0 DEF CallBuildFunc, TypeOK
  <2>2. CASE ImageSolved(a)
    BY <2>2, <1>0 DEF ImageSolved, TypeOK
  <2>3. CASE BuildSucceeds(a)
    BY <2>3, <1>0 DEF BuildSucceeds, TypeOK
  <2>4. CASE \E e \in BuildErrors : BuildFails(a, e)
    BY <2>4, <1>0 DEF BuildFails, TypeOK
  <2>5. CASE BuildReturns(a)
    BY <2>5, <1>0 DEF BuildReturns, FirstError, TypeOK
  <2> QED BY <2>1, <2>2, <2>3, <2>4, <2>5
<1>b. /\ build[1] = "none" <=> build'[1] = "none"
      /\ build[a] # "none"
      /\ \A b \in Attempts \ {a} : build'[b] = build[b] /\ goroutine'[b] = goroutine[b]
      /\ goroutine'[a] \in {goroutine[a], "handle"}
  BY DEF CallBuildFunc, ImageSolved, BuildSucceeds, BuildFails, BuildReturns, TypeOK
<1>1. OneHandler'
  BY <1>0, <1>b DEF OneHandler, Active, TypeOK
<1>2. ErrorsTraced'
  <2>1. CASE CallBuildFunc(a)
    BY <2>1, <1>0 DEF CallBuildFunc, ErrorsTraced, TypeOK
  <2>2. CASE ImageSolved(a)
    <3>1. \A b \in Attempts : build'[b] \in {"funcDone", "done"} => build'[b] = build[b]
      BY <2>2, <1>0 DEF ImageSolved, TypeOK
    <3> QED BY <2>2, <3>1, <1>0 DEF ImageSolved, ErrorsTraced
  <2>3. CASE BuildSucceeds(a)
    <3>1. /\ \A b \in Attempts : build'[b] \in {"funcDone", "done"} => b = a \/ build'[b] = build[b]
          /\ build'[a] = "funcDone"
          /\ \A s \in Steps : result[<<a, s>>] = "ok"
      BY <2>3, <1>0 DEF BuildSucceeds, TypeOK
    <3> QED BY <2>3, <3>1, <1>0 DEF BuildSucceeds, ErrorsTraced
  <2>4. CASE \E e \in BuildErrors : BuildFails(a, e)
    BY <2>4, <1>0 DEF BuildFails, ErrorsTraced, TypeOK, BuildErrors, NoErr
  <2>5. CASE BuildReturns(a)
    BY <2>5, <1>0 DEF BuildReturns, FirstError, ErrorsTraced, TypeOK, BuildErrors,
       HandlerErrors, NoErr
  <2> QED BY <2>1, <2>2, <2>3, <2>4, <2>5
<1>3. OutcomeTraced'
  BY <1>0 DEF OutcomeTraced
<1>4. StartInv'
  BY <1>0, <1>b DEF StartInv
<1> QED BY <1>t, <1>1, <1>2, <1>3, <1>4

LEMMA AttemptIInv ==
  ASSUME IInv, NEW a \in Attempts,
         \/ OfferHandleError(a) \/ HandleErrorTaken(a) \/ HandleErrorDropped(a)
         \/ WatcherEnds(a) \/ Interrupt
  PROVE  IInv'
<1> USE One, ControllerUnchanged DEF IInv, otherVars, startVars, controllerVars
<1>0. UNCHANGED <<controllerVars, startVars, attempt, build, buildErr, outcome>>
  BY DEF OfferHandleError, HandleErrorTaken, HandleErrorDropped, WatcherEnds, Interrupt
<1>1. StartInv' /\ OutcomeTraced'
  BY <1>0 DEF StartInv, OutcomeTraced
<1>2. CASE OfferHandleError(a)
  <2>1. TypeOK'
    BY <1>2, <1>0 DEF OfferHandleError, TypeOK
  <2>2. OneHandler' /\ ErrorsTraced'
    BY <1>2, <1>0 DEF OfferHandleError, OneHandler, ErrorsTraced, TypeOK
  <2> QED BY <1>1, <2>1, <2>2
<1>3. CASE HandleErrorTaken(a)
  <2>1. herr[a] \in HandlerErrors \cup {NoErr, OnGoing}
    BY DEF TypeOK, C!TypeOK
  <2>2. TypeOK'
    BY <1>3, <1>0, <2>1 DEF HandleErrorTaken, FirstError, TypeOK
  <2>3. OneHandler'
    BY <1>3, <1>0 DEF HandleErrorTaken, OneHandler, Active, TypeOK
  <2>4. ErrorsTraced'
    BY <1>3, <1>0, <2>1 DEF HandleErrorTaken, FirstError, OneHandler, ErrorsTraced, TypeOK
  <2> QED BY <1>1, <2>2, <2>3, <2>4
<1>4. CASE HandleErrorDropped(a)
  <2>1. TypeOK'
    BY <1>4, <1>0 DEF HandleErrorDropped, TypeOK
  <2>2. OneHandler' /\ ErrorsTraced'
    BY <1>4, <1>0 DEF HandleErrorDropped, OneHandler, ErrorsTraced, TypeOK
  <2> QED BY <1>1, <2>1, <2>2
<1>5. CASE WatcherEnds(a) \/ Interrupt
  <2>1. TypeOK'
    BY <1>5, <1>0 DEF WatcherEnds, Interrupt, TypeOK
  <2>2. UNCHANGED <<attempt, loop, herr, handleStarted, goroutine, build, buildErr, egErr, result>>
    BY <1>5, <1>0 DEF WatcherEnds, Interrupt
  <2>3. OneHandler'
    BY <2>2 DEF OneHandler
  <2>4. ErrorsTraced'
    BY <2>2 DEF ErrorsTraced
  <2> QED BY <1>1, <2>1, <2>3, <2>4
<1> QED BY <1>2, <1>3, <1>4, <1>5

\* A reload was asked for while another attempt was allowed, and finds the
\* handler that asked for it gone.
LEMMA ReloadIInv ==
  ASSUME IInv, NEW a \in Attempts, Reload(a)
  PROVE  IInv'
<1> USE One, ControllerUnchanged
    DEF IInv, otherVars, startVars, controllerVars, Reload, WaitOver, Reloads
<1>1. a < MaxAttempts /\ loop[a] = "returned"
  BY DEF ErrorsTraced, HandlerErrors
<1>2. a + 1 \in Attempts /\ a + 1 # 1
  BY <1>1, SessionAssumption DEF Attempts
<1>3. TypeOK'
  BY <1>2 DEF TypeOK
<1>4. OneHandler'
  <2>1. loop[a + 1] = "none" /\ goroutine[a + 1] = "none" /\ ~handleStarted
    BY <1>1, <1>2 DEF OneHandler, Active
  <2>2. \A b \in Attempts : b < a + 1 => loop[b] = "returned"
    BY <1>1 DEF OneHandler
  <2>3. \A b \in Attempts : b > a + 1 => b > a /\ b # a + 1
    BY DEF OneHandler
  <2> QED BY <1>2, <2>1, <2>2, <2>3 DEF OneHandler, Active, TypeOK
<1>5. ErrorsTraced'
  BY <1>2 DEF ErrorsTraced, TypeOK
<1>6. OutcomeTraced'
  BY DEF OutcomeTraced, NoErr
<1>7. StartInv'
  BY <1>2 DEF StartInv, TypeOK
<1> QED BY <1>3, <1>4, <1>5, <1>6, <1>7

LEMMA FinishIInv ==
  ASSUME IInv, NEW a \in Attempts, Finish(a)
  PROVE  IInv'
<1> USE One, ControllerUnchanged
    DEF IInv, otherVars, startVars, controllerVars, Finish, WaitOver, Reloads
<1>1. egErr[a] \in BuildErrors \cup HandlerErrors \cup {NoErr, OnGoing}
  BY DEF TypeOK
<1>2. TypeOK'
  BY <1>1 DEF TypeOK, DebugResult
<1>3. OneHandler' /\ ErrorsTraced'
  BY DEF OneHandler, ErrorsTraced
<1>4. OutcomeTraced'
  BY <1>1 DEF OutcomeTraced, ErrorsTraced, DebugResult, BuildErrors, HandlerErrors, NoErr, OnGoing
<1>5. outcome' # "running" /\ build[1] # "none"
  BY <1>1 DEF StartInv, DebugResult, BuildErrors, HandlerErrors, NoErr, OnGoing
<1>6. StartInv'
  BY <1>5 DEF StartInv
<1> QED BY <1>2, <1>3, <1>4, <1>6

-----------------------------------------------------------------------------
(* The steps of Debug and newClient *)

LEMMA CallUnchanged ==
  ASSUME IInv, UNCHANGED inSession
  PROVE  TypeOK' /\ OneHandler' /\ ErrorsTraced' /\ OutcomeTraced'
<1> USE DEF IInv, inSession, sessionVars
<1>1. TypeOK'
  BY ControllerUnchanged DEF TypeOK
<1>2. OneHandler' /\ ErrorsTraced'
  BY DEF controllerVars, OneHandler, ErrorsTraced
<1>3. OutcomeTraced'
  BY DEF controllerVars, OutcomeTraced
<1> QED BY <1>1, <1>2, <1>3

LEMMA StartDebugIInv ==
  ASSUME IInv, StartDebug
  PROVE  IInv'
<1> USE One, ControllerUnchanged DEF IInv, StartDebug, otherVars, startVars, controllerVars
<1>1. attempt = 1
  BY DEF StartInv
<1>2. TypeOK'
  BY DEF TypeOK
<1>3. \A b \in Attempts : b > 1 => build'[b] = build[b]
  BY DEF TypeOK
<1>4. OneHandler'
  BY <1>1, <1>3 DEF OneHandler
<1>5. \A b \in Attempts : build'[b] \in {"funcDone", "done"} => build'[b] = build[b]
  BY DEF TypeOK
<1>6. ErrorsTraced'
  BY <1>5 DEF ErrorsTraced
<1>7. OutcomeTraced' /\ StartInv'
  BY DEF OutcomeTraced, StartInv, TypeOK
<1> QED BY <1>2, <1>4, <1>6, <1>7

LEMMA CallIInv ==
  ASSUME IInv,
         \/ CallStep \/ Serve \/ OpeningFails \/ ConnectingFails
         \/ GiveUpStarting("timeout") \/ GiveUpStarting("cancelled")
  PROVE  IInv'
<1>1. CASE StartDebug
  BY <1>1, StartDebugIInv
<1>2. CASE ~StartDebug
  <2>1. UNCHANGED inSession
    BY <1>2 DEF CallStep, ClientMade, Accept, Dial, Connect, Created, StartFails, GracefulStop,
       DebugReturns, Serve, OpeningFails, ConnectingFails, GiveUpStarting, ReturnsWith
  <2>2. outcome \in BuildErrors \cup HandlerErrors \cup {NoErr, OnGoing, "running"}
    BY DEF IInv, TypeOK
  <2>3. UNCHANGED <<build, attempt, outcome>>
    BY <2>1 DEF inSession, sessionVars
  <2>4. StartInv'
    <3> USE <2>2, <2>3 DEF IInv, StartInv
    <3>1. CASE ClientMade \/ Created
      BY <3>1 DEF ClientMade, Created
    <3>7. CASE Accept \/ Dial \/ Connect
      <4>1. UNCHANGED <<phase, returned, maker, server>>
        BY <3>7 DEF Accept, Dial, Connect
      <4> QED BY <4>1
    <3>2. CASE StartFails
      BY <3>2 DEF StartFails, ReturnsWith
    <3>3. CASE GracefulStop
      BY <3>3 DEF GracefulStop
    <3>4. CASE DebugReturns
      BY <3>4 DEF DebugReturns, ReturnsWith, BuildErrors, HandlerErrors, NoErr, OnGoing
    <3>5. CASE Serve \/ OpeningFails \/ ConnectingFails
      BY <3>5 DEF Serve, OpeningFails, ConnectingFails
    <3>6. CASE GiveUpStarting("timeout") \/ GiveUpStarting("cancelled")
      BY <3>6 DEF GiveUpStarting, ReturnsWith
    <3> QED BY <1>2, <3>1, <3>2, <3>3, <3>4, <3>5, <3>6, <3>7 DEF CallStep
  <2> QED BY <2>1, <2>4, CallUnchanged DEF IInv
<1> QED BY <1>1, <1>2

-----------------------------------------------------------------------------
(* Theorems *)

\* Of a call of Debug, and of a session that starts with a connected client.
LEMMA Inductive == CallSpec \/ Spec => []IInv
<1>1. IInv /\ [CallNext]_vars => IInv'
  <2> SUFFICES ASSUME IInv, [CallNext]_vars PROVE IInv'
    OBVIOUS
  <2>1. CASE UNCHANGED vars
    <3>1. UNCHANGED inSession /\ StartInv'
      BY <2>1 DEF vars, inSession, startVars, sessionVars, IInv, StartInv
    <3> QED BY <3>1, CallUnchanged DEF IInv
  <2>2. CASE ControllerNext
    <3>1. PICK a \in Attempts : HandlerNext(a) \/ \E s \in Steps : StepNext(a, s)
      BY <2>2 DEF ControllerNext
    <3>2. UNCHANGED <<sessionVars, startVars>>
      BY <2>2 DEF ControllerNext
    <3> QED BY <2>2, <3>1, <3>2, HandlerIInv, StepIInv
  <2>3. CASE Interrupt
    BY <2>3, One, AttemptIInv
  <2>4. ASSUME NEW a \in Attempts, SessionNext(a)
        PROVE  IInv'
    BY <2>4, BuildIInv, AttemptIInv, ReloadIInv, FinishIInv DEF SessionNext
  <2>5. CASE \/ CallStep \/ Serve \/ OpeningFails \/ ConnectingFails
             \/ GiveUpStarting("timeout") \/ GiveUpStarting("cancelled")
    BY <2>5, CallIInv
  <2> QED BY <2>1, <2>2, <2>3, <2>4, <2>5 DEF CallNext, Next
<1>2. [Next]_vars => [CallNext]_vars
  BY DEF CallNext
<1> QED BY InitIInv, SessionInitIInv, <1>1, <1>2, PTL DEF CallSpec, Spec

\* The variables of the session and of its controller keep their types, for any
\* number of attempts and steps (client.go:118-176, controller.go:33-67).
THEOREM TypeCorrect == CallSpec \/ Spec => []TypeOK
BY Inductive, PTL DEF IInv

\* Every restart finds the controller free (controller.go:41-45, client.go:168-171):
\* handle() is never refused, and no handler of an earlier attempt is left.
THEOREM RestartsAreClean == CallSpec \/ Spec => []RestartIsClean
<1>1. IInv => RestartIsClean
  BY DEF IInv, OneHandler, RestartIsClean
<1> QED BY <1>1, Inductive, PTL

\* Debug reports success only if every step succeeded or the user left, and a
\* reload never (client.go:106-113, 168-175).
THEOREM OutcomesAreHonest == CallSpec \/ Spec => []OutcomeHonest
<1>1. IInv => OutcomeHonest
  BY DEF IInv, OutcomeTraced, OutcomeHonest
<1> QED BY <1>1, Inductive, PTL

\* Debug stops the server it started, after the session and before it returns,
\* unless it gave up waiting for newClient (client.go:85-95, 256-260).
THEOREM ServersAreStopped == CallSpec => []ServerIsStopped
<1>1. IInv => ServerIsStopped
  BY DEF IInv, StartInv, ServerIsStopped
<1> QED BY <1>1, Inductive, PTL

-----------------------------------------------------------------------------
(* The controller of the session is a DebugController *)

P == INSTANCE DebugControllerProofs WITH Handlers <- Attempts

LEMMA ControllerAssumptions ==
  /\ None \notin Calls
  /\ NoErr # OnGoing
  /\ {NoErr, OnGoing} \cap HandlerErrors = {}
BY SessionAssumption DEF Calls, Attempts, NoErr, OnGoing, HandlerErrors

LEMMA StepIsController ==
  ASSUME NEW a \in Attempts, NEW s \in Steps, StepNext(a, s)
  PROVE  P!Next
<1> DEFINE n == <<a, s>>
<1>1. n \in Calls
  BY DEF Calls
<1> HIDE DEF n
<1>2. \/ \E e \in C!Events : C!Notify(n, e)
      \/ C!Cancel(n) \/ C!RegisterResultIDs(n) \/ C!RegisterFails(n) \/ C!Wait(n)
      \/ C!GiveUp(n) \/ C!Wake(n) \/ C!Return(n)
      \/ \E h \in Attempts : C!Deliver(n, h)
  BY DEF StepNext, StepEnds, SolverCancels, n
<1> USE DEF C!CallGoes, P!CallGoes, C!handleVars, P!handleVars, C!callVars, P!callVars
<1>3. CASE \E e \in C!Events : C!Notify(n, e)
  BY <1>1, <1>3 DEF C!Notify, P!Notify, C!Events, P!Events, P!CallNext, P!Next
<1>4. CASE C!Cancel(n)
  BY <1>1, <1>4 DEF C!Cancel, P!Cancel, P!CallNext, P!Next
<1>5. CASE C!RegisterResultIDs(n) \/ C!RegisterFails(n)
  BY <1>1, <1>5 DEF C!RegisterResultIDs, P!RegisterResultIDs, C!RegisterFails, P!RegisterFails,
     P!CallNext, P!Next
<1>6. CASE C!Wait(n) \/ C!Wake(n)
  BY <1>1, <1>6 DEF C!Wait, P!Wait, C!Wake, P!Wake, P!CallNext, P!Next
<1>7. CASE C!GiveUp(n)
  BY <1>1, <1>7 DEF C!GiveUp, P!GiveUp, C!AtGate, P!AtGate, P!CallNext, P!Next
<1>8. CASE C!Return(n)
  BY <1>1, <1>8 DEF C!Return, P!Return, C!ResultOf, P!ResultOf, C!Ended, P!Ended, P!CallNext, P!Next
<1>9. CASE \E h \in Attempts : C!Deliver(n, h)
  BY <1>1, <1>9 DEF C!Deliver, P!Deliver, P!Next
<1> QED BY <1>2, <1>3, <1>4, <1>5, <1>6, <1>7, <1>8, <1>9

LEMMA HandlerIsController ==
  ASSUME NEW a \in Attempts, HandlerNext(a)
  PROVE  P!Next
<1> USE DEF C!LoopGoes, P!LoopGoes, C!callVars, P!callVars, P!HandleNext, P!Next
<1>1. CASE C!HandleRefused(a) \/ C!HandleCheck(a) \/ C!HandleStart(a)
  BY <1>1 DEF C!HandleRefused, P!HandleRefused, C!HandleCheck, P!HandleCheck,
     C!HandleStart, P!HandleStart
<1>2. CASE \E e \in HandlerErrors \cup {NoErr} : Answer(a, e)
  BY <1>2 DEF Answer, C!Judge, P!Judge
<1>3. CASE C!ContinueID(a)
  BY <1>3 DEF C!ContinueID, P!ContinueID
<1>4. CASE C!HandleReturn(a)
  BY <1>4 DEF C!HandleReturn, P!HandleReturn
<1> QED BY <1>1, <1>2, <1>3, <1>4 DEF HandlerNext

LEMMA CallIsController == [CallNext]_vars => [P!Next]_(P!vars)
<1> SUFFICES ASSUME [CallNext]_vars PROVE [P!Next]_(P!vars)
  OBVIOUS
<1>1. CASE ControllerNext
  BY <1>1, StepIsController, HandlerIsController DEF ControllerNext
<1>2. CASE UNCHANGED controllerVars
  BY <1>2 DEF controllerVars, P!vars, P!callVars, P!handleVars
<1>3. CASE Interrupt \/ \E a \in Attempts : SessionNext(a)
  <2>1. UNCHANGED controllerVars
    BY <1>3 DEF Interrupt, SessionNext, CallBuildFunc, ImageSolved, BuildSucceeds, BuildFails,
       BuildReturns, OfferHandleError, HandleErrorTaken, HandleErrorDropped, WatcherEnds,
       Reload, Finish, otherVars
  <2> QED BY <1>2, <2>1
<1>4. CASE \/ CallStep \/ Serve \/ OpeningFails \/ ConnectingFails
           \/ GiveUpStarting("timeout") \/ GiveUpStarting("cancelled")
  <2>1. UNCHANGED controllerVars
    BY <1>4 DEF CallStep, StartDebug, ClientMade, Accept, Dial, Connect, Created, StartFails,
       GracefulStop, DebugReturns, Serve, OpeningFails, ConnectingFails, GiveUpStarting,
       ReturnsWith, inSession
  <2> QED BY <1>2, <2>1
<1> QED BY <1>1, <1>2, <1>3, <1>4 DEF CallNext, Next, vars

LEMMA CallInitIsController == CallInit \/ Init => P!Init
BY DEF CallInit, Init, C!Init, P!Init, NoErr

\* The controller in a call of Debug does what the controller does anywhere
\* (client.go:137-168, handler.go:33-45), so what is proved of it holds here.
THEOREM SessionRunsController == CallSpec \/ Spec => P!Spec
<1>1. [Next]_vars => [CallNext]_vars
  BY DEF CallNext
<1> QED BY CallInitIsController, CallIsController, <1>1, PTL DEF CallSpec, Spec, P!Spec

\* The build sees the gate of StepGate, through reloads, interrupts and late
\* steps (controller.go:40-67, 227-258).
THEOREM CallImplementsGate == CallSpec \/ Spec => P!GateSpec
BY SessionRunsController, ControllerAssumptions, P!ControllerImplementsGate

LEMMA ControllerIInv == CallSpec \/ Spec => []P!IInv
BY SessionRunsController, ControllerAssumptions, P!Invariance

-----------------------------------------------------------------------------
(* What the gate means for the build *)

Over == {"funcDone", "done"}
StepErrors == {"opError", "notifyError"}

\* A step runs after those it needs, and never before its operation is known.
DepsDone ==
  /\ \A a \in Attempts, t \in Steps : event[<<a, t>>] # "none" =>
       \A d \in DependsOn[t] : result[<<a, d>>] = "ok"
  /\ \A n \in Calls : call[n] # "idle" => event[n] # "none"

\* An attempt is left when its build is over; its steps run after it began.
BuildsOver ==
  \A a \in Attempts :
    /\ a < attempt \/ (a = attempt /\ outcome # "running") => build[a] = "done"
    /\ a \in solving => build[a] # "none"

\* A failed step of the attempt was let through, or its results were no refs.
Held(a) ==
  \E s \in Steps : LET n == <<a, s>> IN
    \/ event[n] = "failed" /\ n \in closed
    \/ call[n] = "unregistered"

Excused(a) == interrupted \/ egErr[a] # NoErr \/ build[a] \in Over \/ Held(a)

\* Nothing of an attempt fails or is cancelled without a reason outside it.
CancelsExcused ==
  \A a \in Attempts, s \in Steps :
    \/ <<a, s>> \in ctxDone
    \/ call[<<a, s>>] = "cancelled"
    \/ result[<<a, s>>] \in StepErrors
    => Excused(a)

ErrorsHeld ==
  \A a \in Attempts :
    /\ buildErr[a] # NoErr => build[a] \in Over
    /\ egErr[a] \in BuildErrors => build[a] = "done"
    /\ buildErr[a] = "stepFailed" =>
         interrupted \/ Held(a) \/ egErr[a] \notin {NoErr, "stepFailed"}
    /\ egErr[a] = "stepFailed" => interrupted \/ Held(a)

Spoiled(a) ==
  \/ interrupted \/ egErr[a] # NoErr \/ buildErr[a] # NoErr
  \/ \E s \in Steps : result[<<a, s>>] \in StepErrors

\* A step that was cancelled at its gate spoils the attempt.
CancelsSpoil ==
  \A a \in Attempts, s \in Steps :
    /\ <<a, s>> \in ctxDone => Spoiled(a) \/ build[a] \in Over
    /\ call[<<a, s>>] = "cancelled" => Spoiled(a)

HeldInv == DepsDone /\ BuildsOver /\ CancelsExcused /\ ErrorsHeld /\ CancelsSpoil

LEMMA InitHeldInv == CallInit \/ Init => HeldInv
<1> SUFFICES ASSUME CallInit \/ Init PROVE HeldInv
  OBVIOUS
<1>1. \A a \in Attempts, s \in Steps : <<a, s>> \in Calls
  BY DEF Calls
<1>2. \A n \in Calls : call[n] = "idle" /\ event[n] = "none" /\ result[n] = "pending"
  BY DEF CallInit, Init, C!Init
<1>3. DepsDone /\ CancelsExcused /\ CancelsSpoil
  BY <1>1, <1>2 DEF CallInit, Init, C!Init, DepsDone, CancelsExcused, CancelsSpoil, StepErrors
<1>4. attempt = 1 /\ outcome = "running" /\ solving = {}
  BY DEF CallInit, Init
<1>5. \A a \in Attempts : ~(a < 1)
  BY DEF Attempts
<1>6. BuildsOver
  BY <1>4, <1>5 DEF BuildsOver
<1>7. \A a \in Attempts : buildErr[a] = NoErr /\ egErr[a] = NoErr
  BY DEF CallInit, Init
<1>8. NoErr \notin BuildErrors /\ NoErr # "stepFailed"
  BY DEF BuildErrors, NoErr
<1>9. ErrorsHeld
  BY <1>7, <1>8 DEF ErrorsHeld
<1> QED BY <1>3, <1>6, <1>9 DEF HeldInv

-----------------------------------------------------------------------------
(* The steps of the build *)

Others(n) ==
  /\ closed' = closed
  /\ \A m \in Calls \ {n} :
       /\ call'[m] = call[m] /\ event'[m] = event[m] /\ result'[m] = result[m]
       /\ m \in ctxDone' <=> m \in ctxDone

Moves(n) ==
  /\ UNCHANGED <<event, result, ctxDone>>
  /\ call[n] \notin {"idle", "unregistered"} /\ call'[n] \notin {"idle", "cancelled"}

Notifies(a, s) ==
  LET n == <<a, s>> IN
  /\ UNCHANGED <<result, ctxDone>>
  /\ call[n] = "idle" /\ call'[n] = "inputs" /\ event'[n] \in C!Events
  /\ a \in solving /\ \A d \in DependsOn[s] : result[<<a, d>>] = "ok"

IsCancelled(a) ==
  /\ UNCHANGED <<call, event, result>>
  /\ a \in solving
  /\ egCtxDone(a) \/ StepFailed(a) \/ build[a] \in Over

GivesUp(n) ==
  /\ UNCHANGED <<event, result, ctxDone>>
  /\ call[n] \in C!AtGate /\ n \in ctxDone /\ call'[n] = "cancelled"

Returns(n) ==
  /\ UNCHANGED <<call, event, ctxDone>>
  /\ call[n] \in C!Ended /\ result[n] = "pending" /\ result'[n] = C!ResultOf(n)

\* What each step of the build changes of what HeldInv is about.
LEMMA StepEffect ==
  ASSUME TypeOK, NEW a \in Attempts, NEW s \in Steps, StepNext(a, s)
  PROVE  LET n == <<a, s>> IN
         /\ Others(n)
         /\ Moves(n) \/ Notifies(a, s) \/ IsCancelled(a) \/ GivesUp(n) \/ Returns(n)
<1> DEFINE n == <<a, s>>
<1>1. n \in Calls
  BY DEF Calls
<1>2. \/ (\E e \in C!Events : C!Notify(n, e)) /\ a \in solving
         /\ \A d \in DependsOn[s] : result[<<a, d>>] = "ok"
      \/ C!Cancel(n) /\ a \in solving /\ (egCtxDone(a) \/ StepFailed(a) \/ build[a] \in Over)
      \/ C!RegisterResultIDs(n) \/ C!RegisterFails(n) \/ C!Wait(n)
      \/ C!GiveUp(n) \/ C!Wake(n) \/ C!Return(n)
      \/ \E h \in Attempts : C!Deliver(n, h)
  BY DEF StepNext, StepEnds, SolverCancels, Over
<1>s. SUFFICES /\ Others(n)
               /\ \/ Moves(n) \/ IsCancelled(a) \/ GivesUp(n) \/ Returns(n)
                  \/ /\ UNCHANGED <<result, ctxDone>>
                     /\ call[n] = "idle" /\ call'[n] = "inputs" /\ event'[n] \in C!Events
                     /\ a \in solving /\ \A d \in DependsOn[s] : result[<<a, d>>] = "ok"
  BY DEF Notifies
<1> HIDE DEF n
<1> USE <1>1 DEF TypeOK, C!TypeOK, Others, Moves, C!CallGoes, C!handleVars, C!callVars
<1>3. CASE C!RegisterResultIDs(n) \/ C!RegisterFails(n)
  BY <1>3 DEF C!RegisterResultIDs, C!RegisterFails
<1>4. CASE C!Wait(n) \/ C!Wake(n)
  BY <1>4 DEF C!Wait, C!Wake
<1>5. CASE \E h \in Attempts : C!Deliver(n, h)
  BY <1>5 DEF C!Deliver
<1>6. CASE C!GiveUp(n)
  BY <1>6 DEF C!GiveUp, GivesUp
<1>7. CASE C!Return(n)
  BY <1>7 DEF C!Return, Returns
<1>8. CASE C!Cancel(n) /\ a \in solving /\ (egCtxDone(a) \/ StepFailed(a) \/ build[a] \in Over)
  BY <1>8 DEF C!Cancel, IsCancelled
<1>9. CASE (\E e \in C!Events : C!Notify(n, e)) /\ a \in solving
           /\ \A d \in DependsOn[s] : result[<<a, d>>] = "ok"
  BY <1>9 DEF C!Notify
<1> QED BY <1>2, <1>3, <1>4, <1>5, <1>6, <1>7, <1>8, <1>9

LEMMA StepHeldInv ==
  ASSUME IInv, P!IInv, HeldInv, NEW a \in Attempts, NEW s \in Steps, StepNext(a, s),
         UNCHANGED <<sessionVars, startVars>>
  PROVE  HeldInv'
<1> DEFINE n == <<a, s>>
<1>1. n \in Calls /\ \A b \in Attempts, t \in Steps : <<b, t>> \in Calls
  BY DEF Calls
<1>2. Others(n) /\ (Moves(n) \/ Notifies(a, s) \/ IsCancelled(a) \/ GivesUp(n) \/ Returns(n))
  BY StepEffect DEF IInv
<1>3. UNCHANGED <<attempt, build, buildErr, egErr, interrupted, outcome, solving>>
  BY DEF sessionVars
<1>4. /\ call \in [Calls -> C!CallStates] /\ result \in [Calls -> C!Results]
      /\ event \in [Calls -> C!Events \cup {"none"}]
  BY DEF IInv, TypeOK, C!TypeOK
<1>5. /\ \A m \in Calls : call[m] = "idle" => m \notin closed /\ result[m] = "pending"
      /\ \A m \in Calls : result[m] # "pending" => call[m] \in C!Ended
      /\ \A m \in Calls : call[m] = "continued" => m \in closed
  BY DEF P!IInv, P!GateInv, P!FreshUnknown, P!BeforeGate, P!ResultInv, P!ContinuedIsClosed,
     P!Ended, C!Ended
<1>6. \A b \in Attempts, t \in Steps :
        LET m == <<b, t>> IN
        /\ result[m] # "pending" => result'[m] = result[m]
        /\ event[m] # "none" /\ call[m] # "idle" => event'[m] = event[m]
        /\ call[m] = "unregistered" => call'[m] = "unregistered"
  BY <1>1, <1>2, <1>5 DEF Others, Moves, Notifies, IsCancelled, GivesUp, Returns, C!AtGate
<1>7. \A b \in Attempts : Held(b) => Held(b)'
  BY <1>1, <1>2, <1>5, <1>6 DEF Held, Others
<1>8. \A b \in Attempts : Excused(b) => Excused(b)'
  BY <1>3, <1>7 DEF Excused
<1>9. \A b \in Attempts : Spoiled(b) => Spoiled(b)'
  BY <1>1, <1>3, <1>6 DEF Spoiled, StepErrors
<1>10. DepsDone'
  <2>1. ASSUME NEW b \in Attempts, NEW t \in Steps, event'[<<b, t>>] # "none",
               NEW d \in DependsOn[t]
        PROVE  result'[<<b, d>>] = "ok"
    <3>1. d \in Steps
      BY SessionAssumption
    <3>2. result[<<b, d>>] = "ok"
      BY <1>1, <1>2, <2>1, <3>1 DEF HeldInv, DepsDone, Others, Moves, Notifies,
         IsCancelled, GivesUp, Returns
    <3> QED BY <1>6, <3>1, <3>2
  <2>2. \A m \in Calls : call'[m] # "idle" => event'[m] # "none"
    BY <1>1, <1>2, <1>4 DEF HeldInv, DepsDone, Others, Moves, Notifies,
       IsCancelled, GivesUp, Returns, C!Events, C!AtGate
  <2> QED BY <2>1, <2>2 DEF DepsDone
<1>11. BuildsOver'
  BY <1>3 DEF HeldInv, BuildsOver
<1>12. CancelsExcused'
  <2> SUFFICES ASSUME NEW b \in Attempts, NEW t \in Steps,
                      \/ <<b, t>> \in ctxDone'
                      \/ call'[<<b, t>>] = "cancelled"
                      \/ result'[<<b, t>>] \in StepErrors
               PROVE  Excused(b)'
    BY DEF CancelsExcused
  <2>1. CASE \/ <<b, t>> \in ctxDone \/ call[<<b, t>>] = "cancelled"
             \/ result[<<b, t>>] \in StepErrors
    BY <2>1, <1>8 DEF HeldInv, CancelsExcused
  <2>2. CASE <<b, t>> \notin ctxDone /\ <<b, t>> \in ctxDone'
    <3>1. b = a /\ IsCancelled(a)
      BY <1>1, <1>2, <2>2 DEF Others, Moves, Notifies, GivesUp, Returns
    <3>2. CASE StepFailed(a)
      BY <3>1, <3>2, <1>8 DEF StepFailed, HeldInv, CancelsExcused, StepErrors
    <3>3. CASE egCtxDone(a) \/ build[a] \in Over
      <4>1. outcome # "running" => build[a] \in Over
        BY <3>1, SessionAssumption
         DEF HeldInv, BuildsOver, Over, IsCancelled, IInv, OneHandler, TypeOK, Attempts
      <4>2. Excused(a)
        BY <3>3, <4>1 DEF egCtxDone, Excused
      <4> QED BY <3>1, <4>2, <1>8
    <3> QED BY <3>1, <3>2, <3>3 DEF IsCancelled
  <2>3. CASE result[<<b, t>>] \notin StepErrors /\ result'[<<b, t>>] \in StepErrors
    <3>1. <<b, t>> = n /\ Returns(n) /\ event[n] # "cached"
      BY <1>1, <1>2, <2>3 DEF Others, Moves, Notifies, IsCancelled, GivesUp, Returns,
         C!ResultOf, StepErrors
    <3>2. event[n] \in {"ok", "failed"}
      BY <3>1, <1>1, <1>4 DEF HeldInv, DepsDone, Returns, C!Ended, C!Events
    <3>3. CASE call[n] = "cancelled"
      BY <3>1, <3>3, <1>8 DEF HeldInv, CancelsExcused
    <3>4. CASE call[n] = "unregistered"
      <4>1. Held(a)
        BY <3>4 DEF Held
      <4> QED BY <3>1, <4>1, <1>8 DEF Excused
    <3>5. CASE call[n] = "continued"
      <4>1. event[n] = "failed" /\ n \in closed
        BY <1>1, <1>5, <2>3, <3>1, <3>2, <3>5 DEF Returns, C!ResultOf, StepErrors
      <4>2. Held(a)
        BY <4>1 DEF Held
      <4> QED BY <3>1, <4>2, <1>8 DEF Excused
    <3> QED BY <3>1, <3>3, <3>4, <3>5 DEF Returns, C!Ended
  <2>4. CASE call[<<b, t>>] # "cancelled" /\ call'[<<b, t>>] = "cancelled"
    <3>1. b = a /\ <<b, t>> \in ctxDone
      BY <1>1, <1>2, <2>4 DEF Others, Moves, Notifies, IsCancelled, GivesUp, Returns
    <3> QED BY <3>1, <1>8 DEF HeldInv, CancelsExcused
  <2> QED BY <2>1, <2>2, <2>3, <2>4
<1>13. ErrorsHeld'
  BY <1>3, <1>7 DEF HeldInv, ErrorsHeld
<1>14. CancelsSpoil'
  <2> SUFFICES ASSUME NEW b \in Attempts, NEW t \in Steps
               PROVE  /\ <<b, t>> \in ctxDone' => Spoiled(b)' \/ build'[b] \in Over
                      /\ call'[<<b, t>>] = "cancelled" => Spoiled(b)'
    BY DEF CancelsSpoil
  <2>1. CASE <<b, t>> = n /\ IsCancelled(a)
    <3>1. outcome # "running" => build[a] \in Over
      BY <2>1, SessionAssumption
         DEF HeldInv, BuildsOver, Over, IsCancelled, IInv, OneHandler, TypeOK, Attempts
    <3>2. Spoiled(a) \/ build[a] \in Over
      BY <2>1, <3>1 DEF IsCancelled, egCtxDone, Spoiled, StepFailed, StepErrors
    <3> QED BY <2>1, <3>2, <1>1, <1>3, <1>9 DEF IsCancelled, HeldInv, CancelsSpoil
  <2>2. CASE <<b, t>> = n /\ GivesUp(n)
    <3>1. result[n] # "ok"
      BY <2>2, <1>1, <1>5 DEF GivesUp, C!AtGate, C!Ended
    <3>2. build[a] \in Over => buildErr[a] # NoErr
      BY <3>1 DEF IInv, ErrorsTraced, Over
    <3>3. Spoiled(a)
      BY <2>2, <3>2 DEF GivesUp, HeldInv, CancelsSpoil, Spoiled
    <3> QED BY <2>2, <3>3, <1>9
  <2>3. CASE <<b, t>> # n \/ Moves(n) \/ Notifies(a, s) \/ Returns(n)
    <3>1. /\ <<b, t>> \in ctxDone' => <<b, t>> \in ctxDone
          /\ call'[<<b, t>>] = "cancelled" => call[<<b, t>>] = "cancelled"
      BY <2>3, <1>1, <1>2 DEF Others, Moves, Notifies, Returns
    <3> QED BY <3>1, <1>3, <1>9 DEF HeldInv, CancelsSpoil
  <2> QED BY <1>2, <2>1, <2>2, <2>3
<1> QED BY <1>10, <1>11, <1>12, <1>13, <1>14 DEF HeldInv

-----------------------------------------------------------------------------
(* The steps of the handlers, of the session and of Debug *)

LEMMA HandlerHeldInv ==
  ASSUME IInv, HeldInv, NEW a \in Attempts, HandlerNext(a), UNCHANGED <<sessionVars, startVars>>
  PROVE  HeldInv'
<1>1. UNCHANGED <<call, event, result, ctxDone>> /\ closed \subseteq closed'
  BY DEF HandlerNext, Answer, C!HandleRefused, C!HandleCheck, C!HandleStart, C!Judge, C!ContinueID,
     C!HandleReturn, C!callVars
<1>2. UNCHANGED <<attempt, build, buildErr, egErr, interrupted, outcome, solving>>
  BY DEF sessionVars
<1>3. \A b \in Attempts : Held(b) => Held(b)'
  BY <1>1 DEF Held
<1>4. \A b \in Attempts : (Excused(b) => Excused(b)') /\ (Spoiled(b) => Spoiled(b)')
  BY <1>1, <1>2, <1>3 DEF Excused, Spoiled
<1>5. DepsDone' /\ BuildsOver'
  BY <1>1, <1>2 DEF HeldInv, DepsDone, BuildsOver
<1>6. CancelsExcused' /\ ErrorsHeld'
  BY <1>1, <1>2, <1>3, <1>4 DEF HeldInv, CancelsExcused, ErrorsHeld
<1>7. CancelsSpoil'
  BY <1>1, <1>2, <1>4 DEF HeldInv, CancelsSpoil
<1> QED BY <1>5, <1>6, <1>7 DEF HeldInv

\* The controller does not move, and what an attempt has seen is not forgotten.
Forward ==
  /\ UNCHANGED controllerVars
  /\ interrupted => interrupted'
  /\ \A b \in Attempts :
       /\ egErr[b] # NoErr => egErr'[b] = egErr[b]
       /\ build[b] \in Over => build'[b] \in Over
       /\ buildErr[b] # NoErr => buildErr'[b] = buildErr[b]

LEMMA ForwardHeldInv ==
  ASSUME HeldInv, Forward
  PROVE  /\ DepsDone' /\ CancelsExcused' /\ CancelsSpoil'
         /\ \A b \in Attempts : (Held(b) <=> Held(b)') /\ (StepFailed(b) <=> StepFailed(b)')
<1>1. UNCHANGED <<call, event, result, ctxDone, closed>>
  BY DEF Forward, controllerVars
<1>2. \A b \in Attempts : (Held(b) <=> Held(b)') /\ (StepFailed(b) <=> StepFailed(b)')
  BY <1>1 DEF Held, StepFailed
<1>3. \A b \in Attempts : (Excused(b) => Excused(b)') /\ (Spoiled(b) => Spoiled(b)')
  BY <1>1, <1>2 DEF Excused, Spoiled, Forward
<1>4. DepsDone' /\ CancelsExcused'
  BY <1>1, <1>3 DEF HeldInv, DepsDone, CancelsExcused
<1>5. CancelsSpoil'
  BY <1>1, <1>3 DEF HeldInv, CancelsSpoil, Forward
<1> QED BY <1>2, <1>4, <1>5

LEMMA BuildHeldInv ==
  ASSUME IInv, HeldInv, NEW a \in Attempts,
         \/ CallBuildFunc(a) \/ ImageSolved(a) \/ BuildSucceeds(a)
         \/ \E e \in BuildErrors : BuildFails(a, e)
         \/ BuildReturns(a)
  PROVE  HeldInv'
<1> USE DEF IInv, TypeOK, BuildGoes, Over
<1>1. UNCHANGED <<controllerVars, attempt, interrupted, outcome>>
  BY DEF CallBuildFunc, ImageSolved, BuildSucceeds, BuildFails, BuildReturns, otherVars
<1>2. CASE CallBuildFunc(a) \/ ImageSolved(a)
  <2>1. Forward
    BY <1>1, <1>2 DEF CallBuildFunc, ImageSolved, Forward
  <2>2. BuildsOver'
    BY <1>1, <1>2 DEF CallBuildFunc, ImageSolved, HeldInv, BuildsOver
  <2>3. ErrorsHeld'
    <3>1. /\ UNCHANGED <<egErr, buildErr>>
          /\ \A b \in Attempts : build[b] = "done" => build'[b] = "done"
      BY <1>2 DEF CallBuildFunc, ImageSolved
    <3> QED BY <1>1, <2>1, <3>1, ForwardHeldInv DEF HeldInv, ErrorsHeld, Forward
  <2> QED BY <2>1, <2>2, <2>3, ForwardHeldInv DEF HeldInv
<1>3. CASE BuildSucceeds(a)
  <2>1. Forward
    BY <1>1, <1>3 DEF BuildSucceeds, Forward
  <2>2. BuildsOver'
    BY <1>1, <1>3 DEF BuildSucceeds, HeldInv, BuildsOver
  <2>3. ErrorsHeld'
    <3>1. /\ UNCHANGED <<egErr, buildErr>>
          /\ \A b \in Attempts : build[b] = "done" => build'[b] = "done"
      BY <1>3 DEF BuildSucceeds
    <3> QED BY <1>1, <2>1, <3>1, ForwardHeldInv DEF HeldInv, ErrorsHeld, Forward
  <2> QED BY <2>1, <2>2, <2>3, ForwardHeldInv DEF HeldInv
<1>4. ASSUME NEW e \in BuildErrors, BuildFails(a, e)
      PROVE  HeldInv'
  <2>0. buildErr[a] = NoErr
    BY <1>4 DEF BuildFails, HeldInv, ErrorsHeld
  <2>1. Forward
    BY <1>1, <1>4, <2>0 DEF BuildFails, Forward
  <2>2. BuildsOver'
    BY <1>1, <1>4 DEF BuildFails, HeldInv, BuildsOver
  <2>3. ErrorsHeld'
    <3>1. UNCHANGED egErr /\ \A b \in Attempts : build[b] = "done" => build'[b] = "done"
      BY <1>4 DEF BuildFails
    <3>2. \A b \in Attempts \ {a} : buildErr'[b] = buildErr[b]
      BY <1>4 DEF BuildFails
    <3>3. e = "stepFailed" => interrupted \/ Held(a) \/ egErr[a] \notin {NoErr, "stepFailed"}
      <4>1. e = "stepFailed" => Excused(a)
        BY <1>4 DEF BuildFails, BuildErrorHappens, StepErrors, HeldInv, CancelsExcused
      <4>2. egErr[a] # "stepFailed"
        BY <1>4 DEF BuildFails, HeldInv, ErrorsHeld, BuildErrors
      <4> QED BY <1>4, <4>1, <4>2 DEF Excused, BuildFails
    <3>4. buildErr'[a] = e
      BY <1>4 DEF BuildFails
    <3>5. build'[a] \in Over /\ \A b \in Attempts \ {a} : build'[b] = build[b]
      BY <1>4 DEF BuildFails
    <3>6. \A b \in Attempts : Held(b) <=> Held(b)'
      BY <2>1, ForwardHeldInv
    <3> HIDE DEF Over
    <3>7. \A b \in Attempts : buildErr'[b] # NoErr => build'[b] \in Over
      BY <3>2, <3>5 DEF HeldInv, ErrorsHeld
    <3>8. \A b \in Attempts : buildErr'[b] = "stepFailed" =>
             interrupted \/ Held(b) \/ egErr[b] \notin {NoErr, "stepFailed"}
      BY <3>2, <3>3, <3>4 DEF HeldInv, ErrorsHeld
    <3> QED BY <1>1, <3>1, <3>6, <3>7, <3>8 DEF HeldInv, ErrorsHeld
  <2> QED BY <2>1, <2>2, <2>3, ForwardHeldInv DEF HeldInv
<1>5. CASE BuildReturns(a)
  <2>1. Forward
    BY <1>1, <1>5 DEF BuildReturns, FirstError, Forward
  <2>2. BuildsOver'
    BY <1>1, <1>5 DEF BuildReturns, HeldInv, BuildsOver
  <2>3. ErrorsHeld'
    <3>1. /\ UNCHANGED buildErr /\ build'[a] = "done"
          /\ egErr'[a] = IF egErr[a] = NoErr THEN buildErr[a] ELSE egErr[a]
          /\ \A b \in Attempts \ {a} : egErr'[b] = egErr[b] /\ build'[b] = build[b]
      BY <1>5 DEF BuildReturns, FirstError
    <3> QED BY <1>1, <2>1, <3>1, ForwardHeldInv DEF HeldInv, ErrorsHeld, NoErr
  <2> QED BY <2>1, <2>2, <2>3, ForwardHeldInv DEF HeldInv
<1> QED BY <1>2, <1>3, <1>4, <1>5

LEMMA AttemptHeldInv ==
  ASSUME IInv, HeldInv, NEW a \in Attempts,
         \/ OfferHandleError(a) \/ HandleErrorTaken(a) \/ HandleErrorDropped(a)
         \/ WatcherEnds(a) \/ Interrupt
  PROVE  HeldInv'
<1> USE DEF IInv, TypeOK
<1>1. UNCHANGED <<controllerVars, attempt, build, buildErr, solving, outcome>>
  BY DEF OfferHandleError, HandleErrorTaken, HandleErrorDropped, WatcherEnds, Interrupt, otherVars
<1>2. /\ interrupted => interrupted'
      /\ \A b \in Attempts : egErr'[b] = egErr[b] \/ (egErr[b] = NoErr /\ egErr'[b] = herr[b])
  BY DEF OfferHandleError, HandleErrorTaken, HandleErrorDropped, WatcherEnds, Interrupt, FirstError
<1>3. Forward
  BY <1>1, <1>2 DEF Forward
<1>4. BuildsOver'
  BY <1>1 DEF HeldInv, BuildsOver
<1>5. \A b \in Attempts : herr[b] \notin BuildErrors
  BY DEF C!TypeOK, BuildErrors, HandlerErrors, NoErr, OnGoing
<1>6. ErrorsHeld'
  BY <1>1, <1>2, <1>3, <1>5, ForwardHeldInv DEF HeldInv, ErrorsHeld, BuildErrors, NoErr
<1> QED BY <1>3, <1>4, <1>6, ForwardHeldInv DEF HeldInv

LEMMA WaitHeldInv ==
  ASSUME IInv, HeldInv, NEW a \in Attempts, Reload(a) \/ Finish(a)
  PROVE  HeldInv'
<1> USE One DEF IInv, TypeOK
<1>1. UNCHANGED <<controllerVars, interrupted, buildErr, egErr, solving>>
  BY DEF Reload, Finish, otherVars
<1>2. attempt = a /\ build[a] = "done" /\ outcome = "running"
  BY DEF Reload, Finish, WaitOver
<1>3. CASE Reload(a)
  <2>1. a < MaxAttempts /\ a + 1 \in Attempts
    BY <1>3, SessionAssumption DEF Reload, Reloads, ErrorsTraced, HandlerErrors, Attempts
  <2>2. build[a + 1] = "none"
    BY <1>2, <2>1 DEF OneHandler
  <2>3. /\ attempt' = a + 1 /\ outcome' = "running" /\ build'[a + 1] = "connecting"
        /\ \A b \in Attempts \ {a + 1} : build'[b] = build[b]
    BY <1>2, <1>3, <2>1 DEF Reload
  <2>4. Forward
    BY <1>1, <2>2, <2>3 DEF Forward, Over
  <2>5. BuildsOver'
    BY <1>1, <1>2, <2>3 DEF HeldInv, BuildsOver
  <2>6. ErrorsHeld'
    BY <1>1, <2>2, <2>3, <2>4, ForwardHeldInv DEF HeldInv, ErrorsHeld, Over
  <2> QED BY <2>4, <2>5, <2>6, ForwardHeldInv DEF HeldInv
<1>4. CASE Finish(a)
  <2>1. UNCHANGED <<attempt, build>>
    BY <1>4 DEF Finish
  <2>2. Forward
    BY <1>1, <2>1 DEF Forward
  <2>3. BuildsOver'
    BY <1>1, <1>2, <2>1 DEF HeldInv, BuildsOver
  <2>4. ErrorsHeld'
    BY <1>1, <2>1, <2>2, ForwardHeldInv DEF HeldInv, ErrorsHeld
  <2> QED BY <2>2, <2>3, <2>4, ForwardHeldInv DEF HeldInv
<1> QED BY <1>3, <1>4

LEMMA StartHeldInv ==
  ASSUME IInv, HeldInv, StartDebug \/ UNCHANGED inSession
  PROVE  HeldInv'
<1> USE One DEF IInv, TypeOK
<1>1. UNCHANGED <<controllerVars, attempt, interrupted, buildErr, egErr, solving, outcome>>
  BY DEF StartDebug, inSession, sessionVars
<1>2. \A b \in Attempts : build'[b] = build[b] \/ (build[b] = "none" /\ build'[b] = "connecting")
  BY DEF StartDebug, inSession, sessionVars
<1>3. Forward
  BY <1>1, <1>2 DEF Forward, Over
<1>4. BuildsOver'
  BY <1>1, <1>2 DEF HeldInv, BuildsOver
<1>5. ErrorsHeld'
  BY <1>1, <1>2, <1>3, ForwardHeldInv DEF HeldInv, ErrorsHeld, Over
<1> QED BY <1>3, <1>4, <1>5, ForwardHeldInv DEF HeldInv

LEMMA HeldInductive == CallSpec \/ Spec => []HeldInv
<1>1. IInv /\ P!IInv /\ HeldInv /\ [CallNext]_vars => HeldInv'
  <2> SUFFICES ASSUME IInv, P!IInv, HeldInv, [CallNext]_vars PROVE HeldInv'
    OBVIOUS
  <2>1. CASE UNCHANGED vars
    BY <2>1, StartHeldInv DEF vars, inSession
  <2>2. CASE ControllerNext
    <3>1. PICK a \in Attempts : HandlerNext(a) \/ \E s \in Steps : StepNext(a, s)
      BY <2>2 DEF ControllerNext
    <3>2. UNCHANGED <<sessionVars, startVars>>
      BY <2>2 DEF ControllerNext
    <3> QED BY <3>1, <3>2, HandlerHeldInv, StepHeldInv
  <2>3. CASE Interrupt
    BY <2>3, One, AttemptHeldInv
  <2>4. ASSUME NEW a \in Attempts, SessionNext(a)
        PROVE  HeldInv'
    BY <2>4, BuildHeldInv, AttemptHeldInv, WaitHeldInv DEF SessionNext
  <2>5. CASE \/ CallStep \/ Serve \/ OpeningFails \/ ConnectingFails
             \/ GiveUpStarting("timeout") \/ GiveUpStarting("cancelled")
    <3>1. StartDebug \/ UNCHANGED inSession
      BY <2>5 DEF CallStep, ClientMade, Accept, Dial, Connect, Created, StartFails, GracefulStop,
         DebugReturns, Serve, OpeningFails, ConnectingFails, GiveUpStarting, ReturnsWith
    <3> QED BY <3>1, StartHeldInv
  <2> QED BY <2>1, <2>2, <2>3, <2>4, <2>5 DEF CallNext, Next
<1>2. [Next]_vars => [CallNext]_vars
  BY DEF CallNext
<1> QED BY InitHeldInv, Inductive, ControllerIInv, <1>1, <1>2, PTL DEF CallSpec, Spec

\* While a step is at the prompt and its context is not cancelled, nothing that
\* depends on it has run (controller.go:310-323, 249-257): the build is really
\* paused there, however many steps run at once.
THEOREM PromptsHoldDependents == CallSpec \/ Spec => []PromptHoldsDependents
<1>1. IInv /\ P!IInv /\ HeldInv => PromptHoldsDependents
  <2> SUFFICES ASSUME IInv, P!IInv, HeldInv, NEW h \in Attempts,
                      loop[h] = "handling", msg[h] \notin ctxDone,
                      NEW t \in Steps, msg[h][2] \in DependsOn[t]
               PROVE  event[<<msg[h][1], t>>] = "none"
    BY DEF PromptHoldsDependents
  <2>1. msg[h] # None /\ msg[h] \in Calls
    BY DEF IInv, TypeOK, C!TypeOK, C!Empty
  <2>2. msg[h] = <<msg[h][1], msg[h][2]>> /\ msg[h][1] \in Attempts
    BY <2>1 DEF Calls
  <2>3. call[msg[h]] = "waiting"
    BY <2>1 DEF P!IInv, P!GateInv, P!ShownIsOpen, P!PauseHasOwner, P!AtGate
  <2>4. result[msg[h]] # "ok"
    BY <2>1, <2>3 DEF P!IInv, P!ResultInv, P!Ended
  <2> QED BY <2>2, <2>4 DEF HeldInv, DepsDone
<1> QED BY <1>1, Inductive, ControllerIInv, HeldInductive, PTL

\* A build that succeeds was seen whole by the debugger (controller.go:286-294,
\* 310-323): every step went through a handler that let it pass, but for cached
\* steps without refs.
THEOREM SuccessesWereSeen == CallSpec \/ Spec => []SuccessWasSeen
<1>1. IInv /\ P!IInv /\ HeldInv => SuccessWasSeen
  <2> SUFFICES ASSUME IInv, P!IInv, HeldInv,
                      outcome = NoErr, egErr[attempt] = NoErr, ~interrupted, NEW s \in Steps
               PROVE  \/ call[<<attempt, s>>] = "continued" /\ <<attempt, s>> \in closed
                      \/ call[<<attempt, s>>] = "unregistered" /\ event[<<attempt, s>>] = "cached"
    BY DEF SuccessWasSeen
  <2> DEFINE n == <<attempt, s>>
  <2>1. attempt \in Attempts /\ n \in Calls
    BY DEF IInv, TypeOK, Calls
  <2>2. build[attempt] = "done"
    BY <2>1 DEF HeldInv, BuildsOver, NoErr
  <2>3. buildErr[attempt] = NoErr /\ \A t \in Steps : result[<<attempt, t>>] = "ok"
    BY <2>1, <2>2 DEF IInv, ErrorsTraced
  <2>4. call[n] # "cancelled"
    BY <2>1, <2>3 DEF HeldInv, CancelsSpoil, Spoiled, StepErrors
  <2>5. call[n] \in {"continued", "unregistered"}
    BY <2>1, <2>3, <2>4 DEF P!IInv, P!ResultInv, P!Ended
  <2>6. /\ call[n] = "continued" => n \in closed
        /\ call[n] = "unregistered" => n \notin closed
        /\ event[n] # "failed" /\ (event[n] = "ok" => n \in closed)
    BY <2>1, <2>3 DEF P!IInv, P!GateInv, P!ContinuedIsClosed, P!FreshUnknown, P!BeforeGate,
       P!ResultInv, P!ResultHonest
  <2>7. event[n] \in C!Events
    BY <2>1, <2>5 DEF IInv, TypeOK, C!TypeOK, HeldInv, DepsDone
  <2> QED BY <2>5, <2>6, <2>7 DEF C!Events
<1> QED BY <1>1, Inductive, ControllerIInv, HeldInductive, PTL

\* No attempt fails because of a step before someone let that step pass
\* (controller.go:310-323): the user was at the gate first, unless the session
\* was interrupted or results could not be registered.
THEOREM FailuresAreHeldFirst == CallSpec \/ Spec => []FailureIsHeldFirst
<1>1. HeldInv => FailureIsHeldFirst
  BY DEF HeldInv, ErrorsHeld, Held, FailureIsHeldFirst
<1> QED BY <1>1, HeldInductive, PTL
=============================================================================
