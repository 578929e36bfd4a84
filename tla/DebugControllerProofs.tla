----------------------- MODULE DebugControllerProofs -----------------------
(***************************************************************************)
(* Theorems about DebugController, for every set of calls, handlers and    *)
(* handler errors.  The inductive invariant ties each control point of a   *)
(* call to its pause entry and to the handler working on it.               *)
(***************************************************************************)
EXTENDS DebugController, TLAPS

\* Before wait() the DebugID is unknown to the controller.
BeforeGate == {"idle", "inputs", "mounts", "registered", "unregistered"}

FreshUnknown ==
  \A n \in Calls : call[n] \in BeforeGate =>
    n \notin pause /\ n \notin closed /\ \A h \in Handlers : msg[h] # n

\* An offered event has its pause entry and no handler yet.
OfferedRegistered ==
  \A n \in Calls : call[n] = "sending" =>
    n \in pause /\ \A h \in Handlers : msg[h] # n

\* Two handlers never work on one event.
OneReceiver ==
  \A h, k \in Handlers : msg[h] = msg[k] /\ msg[h] # None => h = k

\* The event a handler works on was delivered and its channel is still open.
ShownIsOpen ==
  \A h \in Handlers : msg[h] # None =>
    msg[h] \in pause /\ call[msg[h]] \in {"waiting", "cancelled"}

\* A step blocked on its channel was let through or is with a handler.
WaitingIsOwned ==
  \A n \in Calls : call[n] = "waiting" =>
    n \in closed \/ \E h \in Handlers : msg[h] = n

ContinuedIsClosed ==
  \A n \in Calls : call[n] = "continued" => n \in closed

GateInv ==
  /\ FreshUnknown
  /\ OfferedRegistered
  /\ OneReceiver
  /\ ShownIsOpen
  /\ WaitingIsOwned
  /\ ContinuedIsClosed
  /\ PauseHasOwner

RefsInv ==
  /\ \A n \in Calls : call[n] \in {"mounts", "registered", "sending", "waiting"} =>
       <<n, "inputs">> \in workerRefByID
  /\ \A n \in Calls : call[n] \in {"registered", "sending", "waiting"} =>
       <<n, "mounts">> \in workerRefByID
  /\ ShownResultsResolve

ResultInv ==
  /\ \A n \in Calls : result[n] # "pending" => call[n] \in Ended
  /\ ResultHonest

IInv == TypeOK /\ GateInv /\ RefsInv /\ ResultInv

-----------------------------------------------------------------------------
\* Every step keeps the variables in their types (controller.go:40-125, 227-324).
LEMMA TypeStep ==
  ASSUME TypeOK, [Next]_vars
  PROVE  TypeOK'
<1> USE NoneAssumption, ErrAssumption DEF TypeOK, CallStates, LoopStates, Events, Results, Parts, Empty, callVars, handleVars
<1>1. ASSUME NEW n \in Calls, NEW e \in Events, Notify(n, e)
      PROVE  TypeOK'
  BY <1>1 DEF Notify, CallGoes
<1>2. ASSUME NEW n \in Calls, RegisterResultIDs(n)
      PROVE  TypeOK'
  BY <1>2 DEF RegisterResultIDs, CallGoes
<1>3. ASSUME NEW n \in Calls, RegisterFails(n)
      PROVE  TypeOK'
  BY <1>3 DEF RegisterFails, CallGoes
<1>4. ASSUME NEW n \in Calls, Wait(n)
      PROVE  TypeOK'
  BY <1>4 DEF Wait, CallGoes
<1>5. ASSUME NEW n \in Calls, GiveUp(n)
      PROVE  TypeOK'
  BY <1>5 DEF GiveUp, CallGoes
<1>6. ASSUME NEW n \in Calls, Wake(n)
      PROVE  TypeOK'
  BY <1>6 DEF Wake, CallGoes
<1>7. ASSUME NEW n \in Calls, Return(n)
      PROVE  TypeOK'
  BY <1>7 DEF Return, ResultOf
<1>8. ASSUME NEW n \in Calls, Cancel(n)
      PROVE  TypeOK'
  BY <1>8 DEF Cancel
<1>9. ASSUME NEW h \in Handlers, HandleRefused(h)
      PROVE  TypeOK'
  BY <1>9 DEF HandleRefused, LoopGoes
<1>10. ASSUME NEW h \in Handlers, HandleCheck(h)
      PROVE  TypeOK'
  BY <1>10 DEF HandleCheck, LoopGoes
<1>11. ASSUME NEW h \in Handlers, HandleStart(h)
      PROVE  TypeOK'
  BY <1>11 DEF HandleStart, LoopGoes
<1>12. ASSUME NEW h \in Handlers, NEW e \in HandlerErrors \cup {NoErr}, Judge(h, e)
      PROVE  TypeOK'
  BY <1>12 DEF Judge, LoopGoes, ResultOf
<1>13. ASSUME NEW h \in Handlers, ContinueID(h)
      PROVE  TypeOK'
  BY <1>13 DEF ContinueID, LoopGoes
<1>14. ASSUME NEW h \in Handlers, HandleReturn(h)
      PROVE  TypeOK'
  BY <1>14 DEF HandleReturn, LoopGoes
<1>15. ASSUME NEW n \in Calls, NEW h \in Handlers, Deliver(n, h)
      PROVE  TypeOK'
  BY <1>15 DEF Deliver, CallGoes
<1>16. CASE UNCHANGED vars
  BY <1>16 DEF vars
<1>17. QED
  BY <1>1, <1>2, <1>3, <1>4, <1>5, <1>6, <1>7, <1>8, <1>9, <1>10, <1>11, <1>12, <1>13, <1>14, <1>15, <1>16 DEF Next, CallNext, HandleNext

\* Every step keeps pause entries, calls and handlers tied (controller.go:110-125).
LEMMA GateStepInv ==
  ASSUME TypeOK, GateInv, [Next]_vars
  PROVE  GateInv'
<1> USE NoneAssumption, ErrAssumption DEF TypeOK, GateInv, FreshUnknown, OfferedRegistered, OneReceiver, ShownIsOpen, WaitingIsOwned, ContinuedIsClosed, PauseHasOwner, BeforeGate, AtGate, Ended, CallStates, LoopStates, Events, Results, Parts, Empty, callVars, handleVars
<1>1. ASSUME NEW n \in Calls, NEW e \in Events, Notify(n, e)
      PROVE  GateInv'
  BY <1>1 DEF Notify, CallGoes
<1>2. ASSUME NEW n \in Calls, RegisterResultIDs(n)
      PROVE  GateInv'
  BY <1>2 DEF RegisterResultIDs, CallGoes
<1>3. ASSUME NEW n \in Calls, RegisterFails(n)
      PROVE  GateInv'
  BY <1>3 DEF RegisterFails, CallGoes
<1>4. ASSUME NEW n \in Calls, Wait(n)
      PROVE  GateInv'
  BY <1>4 DEF Wait, CallGoes
<1>5. ASSUME NEW n \in Calls, GiveUp(n)
      PROVE  GateInv'
  BY <1>5 DEF GiveUp, CallGoes
<1>6. ASSUME NEW n \in Calls, Wake(n)
      PROVE  GateInv'
  BY <1>6 DEF Wake, CallGoes
<1>7. ASSUME NEW n \in Calls, Return(n)
      PROVE  GateInv'
  BY <1>7 DEF Return
<1>8. ASSUME NEW n \in Calls, Cancel(n)
      PROVE  GateInv'
  BY <1>8 DEF Cancel
<1>9. ASSUME NEW h \in Handlers, HandleRefused(h)
      PROVE  GateInv'
  BY <1>9 DEF HandleRefused, LoopGoes
<1>10. ASSUME NEW h \in Handlers, HandleCheck(h)
      PROVE  GateInv'
  BY <1>10 DEF HandleCheck, LoopGoes
<1>11. ASSUME NEW h \in Handlers, HandleStart(h)
      PROVE  GateInv'
  BY <1>11 DEF HandleStart, LoopGoes
<1>12. ASSUME NEW h \in Handlers, NEW e \in HandlerErrors \cup {NoErr}, Judge(h, e)
      PROVE  GateInv'
  BY <1>12 DEF Judge, LoopGoes
<1>13. ASSUME NEW h \in Handlers, ContinueID(h)
      PROVE  GateInv'
  BY <1>13 DEF ContinueID, LoopGoes
<1>14. ASSUME NEW h \in Handlers, HandleReturn(h)
      PROVE  GateInv'
  BY <1>14 DEF HandleReturn, LoopGoes
<1>15. ASSUME NEW n \in Calls, NEW h \in Handlers, Deliver(n, h)
      PROVE  GateInv'
  BY <1>15 DEF Deliver, CallGoes
<1>16. CASE UNCHANGED vars
  BY <1>16 DEF vars
<1>17. QED
  BY <1>1, <1>2, <1>3, <1>4, <1>5, <1>6, <1>7, <1>8, <1>9, <1>10, <1>11, <1>12, <1>13, <1>14, <1>15, <1>16 DEF Next, CallNext, HandleNext

\* Every step keeps the results of offered steps registered (controller.go:228-276).
LEMMA RefsStep ==
  ASSUME TypeOK, GateInv, RefsInv, [Next]_vars
  PROVE  RefsInv'
<1> USE NoneAssumption, ErrAssumption DEF RefsInv, ShownResultsResolve, GateInv, ShownIsOpen, OfferedRegistered, TypeOK, CallStates, LoopStates, Events, Results, Parts, Empty, callVars, handleVars
<1>1. ASSUME NEW n \in Calls, NEW e \in Events, Notify(n, e)
      PROVE  RefsInv'
  BY <1>1 DEF Notify, CallGoes
<1>2. ASSUME NEW n \in Calls, RegisterResultIDs(n)
      PROVE  RefsInv'
  BY <1>2 DEF RegisterResultIDs, CallGoes
<1>3. ASSUME NEW n \in Calls, RegisterFails(n)
      PROVE  RefsInv'
  BY <1>3 DEF RegisterFails, CallGoes
<1>4. ASSUME NEW n \in Calls, Wait(n)
      PROVE  RefsInv'
  BY <1>4 DEF Wait, CallGoes
<1>5. ASSUME NEW n \in Calls, GiveUp(n)
      PROVE  RefsInv'
  BY <1>5 DEF GiveUp, CallGoes
<1>6. ASSUME NEW n \in Calls, Wake(n)
      PROVE  RefsInv'
  BY <1>6 DEF Wake, CallGoes
<1>7. ASSUME NEW n \in Calls, Return(n)
      PROVE  RefsInv'
  BY <1>7 DEF Return
<1>8. ASSUME NEW n \in Calls, Cancel(n)
      PROVE  RefsInv'
  BY <1>8 DEF Cancel
<1>9. ASSUME NEW h \in Handlers, HandleRefused(h)
      PROVE  RefsInv'
  BY <1>9 DEF HandleRefused, LoopGoes
<1>10. ASSUME NEW h \in Handlers, HandleCheck(h)
      PROVE  RefsInv'
  BY <1>10 DEF HandleCheck, LoopGoes
<1>11. ASSUME NEW h \in Handlers, HandleStart(h)
      PROVE  RefsInv'
  BY <1>11 DEF HandleStart, LoopGoes
<1>12. ASSUME NEW h \in Handlers, NEW e \in HandlerErrors \cup {NoErr}, Judge(h, e)
      PROVE  RefsInv'
  BY <1>12 DEF Judge, LoopGoes
<1>13. ASSUME NEW h \in Handlers, ContinueID(h)
      PROVE  RefsInv'
  BY <1>13 DEF ContinueID, LoopGoes
<1>14. ASSUME NEW h \in Handlers, HandleReturn(h)
      PROVE  RefsInv'
  BY <1>14 DEF HandleReturn, LoopGoes
<1>15. ASSUME NEW n \in Calls, NEW h \in Handlers, Deliver(n, h)
      PROVE  RefsInv'
  BY <1>15 DEF Deliver, CallGoes
<1>16. CASE UNCHANGED vars
  BY <1>16 DEF vars
<1> HIDE DEF RefsInv, ShownResultsResolve, GateInv, TypeOK
<1>17. QED
  BY <1>1, <1>2, <1>3, <1>4, <1>5, <1>6, <1>7, <1>8, <1>9, <1>10, <1>11, <1>12, <1>13, <1>14, <1>15, <1>16 DEF Next, CallNext, HandleNext

\* Every step keeps results honest (controller.go:284-324).
LEMMA ResultStep ==
  ASSUME TypeOK, GateInv, ResultInv, [Next]_vars
  PROVE  ResultInv'
<1> USE NoneAssumption, ErrAssumption DEF ResultInv, ResultHonest, ContinuedIsClosed, GateInv, Ended, TypeOK, CallStates, LoopStates, Events, Results, Parts, Empty, callVars, handleVars
<1>1. ASSUME NEW n \in Calls, NEW e \in Events, Notify(n, e)
      PROVE  ResultInv'
  BY <1>1 DEF Notify, CallGoes
<1>2. ASSUME NEW n \in Calls, RegisterResultIDs(n)
      PROVE  ResultInv'
  BY <1>2 DEF RegisterResultIDs, CallGoes
<1>3. ASSUME NEW n \in Calls, RegisterFails(n)
      PROVE  ResultInv'
  BY <1>3 DEF RegisterFails, CallGoes
<1>4. ASSUME NEW n \in Calls, Wait(n)
      PROVE  ResultInv'
  BY <1>4 DEF Wait, CallGoes
<1>5. ASSUME NEW n \in Calls, GiveUp(n)
      PROVE  ResultInv'
  BY <1>5 DEF GiveUp, CallGoes
<1>6. ASSUME NEW n \in Calls, Wake(n)
      PROVE  ResultInv'
  BY <1>6 DEF Wake, CallGoes
<1>7. ASSUME NEW n \in Calls, Return(n)
      PROVE  ResultInv'
  BY <1>7 DEF Return, ResultOf
<1>8. ASSUME NEW n \in Calls, Cancel(n)
      PROVE  ResultInv'
  BY <1>8 DEF Cancel
<1>9. ASSUME NEW h \in Handlers, HandleRefused(h)
      PROVE  ResultInv'
  BY <1>9 DEF HandleRefused, LoopGoes
<1>10. ASSUME NEW h \in Handlers, HandleCheck(h)
      PROVE  ResultInv'
  BY <1>10 DEF HandleCheck, LoopGoes
<1>11. ASSUME NEW h \in Handlers, HandleStart(h)
      PROVE  ResultInv'
  BY <1>11 DEF HandleStart, LoopGoes
<1>12. ASSUME NEW h \in Handlers, NEW e \in HandlerErrors \cup {NoErr}, Judge(h, e)
      PROVE  ResultInv'
  BY <1>12 DEF Judge, LoopGoes
<1>13. ASSUME NEW h \in Handlers, ContinueID(h)
      PROVE  ResultInv'
  BY <1>13 DEF ContinueID, LoopGoes
<1>14. ASSUME NEW h \in Handlers, HandleReturn(h)
      PROVE  ResultInv'
  BY <1>14 DEF HandleReturn, LoopGoes
<1>15. ASSUME NEW n \in Calls, NEW h \in Handlers, Deliver(n, h)
      PROVE  ResultInv'
  BY <1>15 DEF Deliver, CallGoes
<1>16. CASE UNCHANGED vars
  BY <1>16 DEF vars
<1>17. QED
  BY <1>1, <1>2, <1>3, <1>4, <1>5, <1>6, <1>7, <1>8, <1>9, <1>10, <1>11, <1>12, <1>13, <1>14, <1>15, <1>16 DEF Next, CallNext, HandleNext


\* The initial state satisfies the invariant (controller.go:22-27).
LEMMA InitIInv == Init => IInv
<1> SUFFICES ASSUME Init PROVE IInv
  OBVIOUS
<1>1. TypeOK
  BY DEF Init, TypeOK, Events, Results, CallStates, LoopStates, Empty
<1>2. GateInv
  BY NoneAssumption
  DEF Init, GateInv, FreshUnknown, OfferedRegistered, OneReceiver, ShownIsOpen,
      WaitingIsOwned, ContinuedIsClosed, PauseHasOwner
<1>3. RefsInv /\ ResultInv
  BY DEF Init, RefsInv, ShownResultsResolve, ResultInv, ResultHonest
<1>4. QED
  BY <1>1, <1>2, <1>3 DEF IInv

\* The invariant holds in every reachable state.
THEOREM Invariance == Spec => []IInv
<1>1. IInv /\ [Next]_vars => IInv'
  BY TypeStep, GateStepInv, RefsStep, ResultStep DEF IInv
<1>2. QED
  BY InitIInv, <1>1, PTL DEF Spec

\* The variables keep their types, whatever the calls and the handlers.
THEOREM TypeCorrect == Spec => []TypeOK
<1>1. IInv => TypeOK
  BY DEF IInv
<1>2. QED
  BY Invariance, <1>1, PTL

\* No step sleeps on a pause channel that nobody is going to close
\* (controller.go:236, 118-125).
THEOREM WakeupsNotLost == Spec => []NoLostWakeup
<1>1. IInv => NoLostWakeup
  <2> SUFFICES ASSUME IInv, NEW n \in Calls, call[n] = "waiting", n \notin closed
               PROVE  /\ n \in pause
                      /\ \E h \in Handlers :
                           msg[h] = n /\ \A k \in Handlers \ {h} : msg[k] # n
    BY DEF NoLostWakeup
  <2>1. PICK h \in Handlers : msg[h] = n
    BY DEF IInv, GateInv, WaitingIsOwned
  <2>2. n # None
    BY NoneAssumption
  <2>3. n \in pause
    BY <2>1, <2>2 DEF IInv, GateInv, ShownIsOpen
  <2>4. \A k \in Handlers \ {h} : msg[k] # n
    BY <2>1, <2>2 DEF IInv, GateInv, OneReceiver
  <2>5. QED
    BY <2>1, <2>3, <2>4
<1>2. QED
  BY Invariance, <1>1, PTL

\* Only cancelled steps leave an entry in the pause map
\* (controller.go:121-124, 240, 254).
THEOREM PauseOwned == Spec => []PauseHasOwner
<1>1. IInv => PauseHasOwner
  BY DEF IInv, GateInv
<1>2. QED
  BY Invariance, <1>1, PTL

\* Every result of a step shown at a prompt can be looked up
\* (controller.go:228-235).
THEOREM ShownResolve == Spec => []ShownResultsResolve
<1>1. IInv => ShownResultsResolve
  BY DEF IInv, RefsInv
<1>2. QED
  BY Invariance, <1>1, PTL

\* The debugger never turns a failed operation into a successful one, nor lets
\* the build past a step that was not passed (controller.go:310-323).
THEOREM ResultsHonest == Spec => []ResultHonest
<1>1. IInv => ResultHonest
  BY DEF IInv, ResultInv
<1>2. QED
  BY Invariance, <1>1, PTL

-----------------------------------------------------------------------------
(* DebugController implements StepGate *)

\* Calls that keep their place at the gate do not move the abstract step.
LEMMA GateStepSame ==
  ASSUME UNCHANGED call
  PROVE  UNCHANGED GateStep
BY DEF GateStep

\* A verdict changes only with closed, msg or loop.
LEMMA GateVerdictSame ==
  ASSUME UNCHANGED <<closed, msg, loop>>
  PROVE  UNCHANGED GateVerdict
BY DEF GateVerdict, Passed, Refused

\* The move of one call is the move of one abstract step
\* (controller.go:227-258).
LEMMA CallMoves ==
  ASSUME NEW n \in Calls, NEW s, call \in [Calls -> CallStates],
         call' = [call EXCEPT ![n] = s]
  PROVE  GateStep' = [GateStep EXCEPT ![n] =
           IF s \in AtGate THEN "held"
           ELSE IF s = "continued" THEN "released"
           ELSE IF s \in Ended THEN "aborted" ELSE "building"]
BY DEF GateStep

\* handle() gives verdicts through the loop of one handler
\* (controller.go:53-66).
LEMMA VerdictOf ==
  ASSUME IInv, NEW h \in Handlers, msg[h] # None
  PROVE  /\ GateVerdict[msg[h]] =
              IF loop[h] = "continuing" THEN "passed"
              ELSE IF loop[h] \in {"failing", "returned"} THEN "refused"
              ELSE "none"
         /\ GateStep[msg[h]] \in {"held", "aborted"}
         /\ msg[h] \in Calls
<1>1. /\ msg[h] \in Calls
      /\ msg[h] \in pause
      /\ call[msg[h]] \in {"waiting", "cancelled"}
  BY DEF IInv, TypeOK, GateInv, ShownIsOpen
<1>2. msg[h] \notin closed
  BY <1>1 DEF IInv, GateInv, PauseHasOwner
<1>3. \A k \in Handlers : msg[k] = msg[h] => k = h
  BY DEF IInv, GateInv, OneReceiver
<1>4. GateVerdict[msg[h]] =
        IF loop[h] = "continuing" THEN "passed"
        ELSE IF loop[h] \in {"failing", "returned"} THEN "refused"
        ELSE "none"
  BY <1>1, <1>2, <1>3 DEF GateVerdict, Passed, Refused
<1>5. GateStep[msg[h]] \in {"held", "aborted"}
  BY <1>1 DEF GateStep, AtGate, Ended
<1>6. QED
  BY <1>1, <1>4, <1>5

\* Every step of the controller is a step of the gate or a stutter.
LEMMA GateNext ==
  ASSUME IInv, [Next]_vars
  PROVE  [Gate!Next]_(Gate!vars)
<1> DEFINE Stutter == UNCHANGED GateStep /\ UNCHANGED GateVerdict
<1> USE DEF callVars, handleVars
<1>a. TypeOK /\ call \in [Calls -> CallStates]
  BY DEF IInv, TypeOK
<1>1. ASSUME NEW n \in Calls, NEW e \in Events, Notify(n, e)
      PROVE  Stutter
  <2>1. UNCHANGED GateVerdict
    BY <1>1, GateVerdictSame DEF Notify
  <2>2. UNCHANGED GateStep
    BY <1>1, <1>a DEF Notify, CallGoes, GateStep, AtGate, Ended, CallStates
  <2>3. QED
    BY <2>1, <2>2
<1>2. ASSUME NEW n \in Calls, RegisterResultIDs(n)
      PROVE  Stutter
  <2>1. UNCHANGED GateVerdict
    BY <1>2, GateVerdictSame DEF RegisterResultIDs
  <2>2. UNCHANGED GateStep
    BY <1>2, <1>a DEF RegisterResultIDs, CallGoes, GateStep, AtGate, Ended
  <2>3. QED
    BY <2>1, <2>2
<1>3. ASSUME NEW n \in Calls, RegisterFails(n)
      PROVE  Gate!Abort(n)
  <2>1. UNCHANGED GateVerdict
    BY <1>3, GateVerdictSame DEF RegisterFails
  <2>2. GateStep[n] = "building"
    BY <1>3 DEF RegisterFails, GateStep, AtGate, Ended
  <2>3. GateStep' = [GateStep EXCEPT ![n] = "aborted"]
    BY <1>3, <1>a, CallMoves DEF RegisterFails, CallGoes, AtGate, Ended
  <2>4. QED
    BY <2>1, <2>2, <2>3 DEF Gate!Abort
<1>4. ASSUME NEW n \in Calls, Wait(n)
      PROVE  Gate!Hold(n)
  <2>1. UNCHANGED GateVerdict
    BY <1>4, GateVerdictSame DEF Wait
  <2>2. GateStep[n] = "building"
    BY <1>4 DEF Wait, CallGoes, GateStep, AtGate, Ended
  <2>3. GateStep' = [GateStep EXCEPT ![n] = "held"]
    BY <1>4, <1>a, CallMoves DEF Wait, CallGoes, AtGate
  <2>4. QED
    BY <2>1, <2>2, <2>3 DEF Gate!Hold
<1>5. ASSUME NEW n \in Calls, GiveUp(n)
      PROVE  Gate!Abort(n)
  <2>1. UNCHANGED GateVerdict
    BY <1>5, GateVerdictSame DEF GiveUp
  <2>2. GateStep[n] = "held"
    BY <1>5 DEF GiveUp, GateStep
  <2>3. GateStep' = [GateStep EXCEPT ![n] = "aborted"]
    BY <1>5, <1>a, CallMoves DEF GiveUp, CallGoes, AtGate, Ended
  <2>4. QED
    BY <2>1, <2>2, <2>3 DEF Gate!Abort
<1>6. ASSUME NEW n \in Calls, Wake(n)
      PROVE  Gate!Release(n)
  <2>1. UNCHANGED GateVerdict
    BY <1>6, GateVerdictSame DEF Wake
  <2>2. GateStep[n] = "held" /\ GateVerdict[n] = "passed"
    BY <1>6 DEF Wake, CallGoes, GateStep, AtGate, GateVerdict, Passed
  <2>3. GateStep' = [GateStep EXCEPT ![n] = "released"]
    BY <1>6, <1>a, CallMoves DEF Wake, CallGoes, AtGate
  <2>4. QED
    BY <2>1, <2>2, <2>3 DEF Gate!Release
<1>7. ASSUME NEW n \in Calls, Return(n) \/ Cancel(n)
      PROVE  Stutter
  BY <1>7, GateStepSame, GateVerdictSame DEF Return, Cancel
<1>8. ASSUME NEW h \in Handlers,
             HandleRefused(h) \/ HandleCheck(h) \/ HandleStart(h)
      PROVE  Stutter
  <2>1. UNCHANGED GateStep
    BY <1>8, GateStepSame DEF HandleRefused, HandleCheck, HandleStart
  <2>2. msg[h] = None /\ loop[h] \in Empty
    BY <1>8, <1>a DEF HandleRefused, HandleCheck, HandleStart, LoopGoes, TypeOK,
                      Empty
  <2>3. \A n \in Calls : Passed(n)' <=> Passed(n)
    BY <1>8, <1>a, <2>2, NoneAssumption
    DEF HandleRefused, HandleCheck, HandleStart, LoopGoes, TypeOK, Passed
  <2>4. \A n \in Calls : Refused(n)' <=> Refused(n)
    BY <1>8, <1>a, <2>2, NoneAssumption
    DEF HandleRefused, HandleCheck, HandleStart, LoopGoes, TypeOK, Refused
  <2>5. UNCHANGED GateVerdict
    BY <2>3, <2>4 DEF GateVerdict
  <2>6. QED
    BY <2>1, <2>5
<1>9. ASSUME NEW h \in Handlers, NEW e \in HandlerErrors \cup {NoErr}, Judge(h, e)
      PROVE  \E n \in Calls, v \in {"passed", "refused"} : Gate!Judge(n, v)
  <2> DEFINE v == IF e = NoErr THEN "passed" ELSE "refused"
  <2>1. UNCHANGED GateStep
    BY <1>9, GateStepSame DEF Judge
  <2>2. msg[h] # None
    BY <1>9, <1>a DEF Judge, LoopGoes, TypeOK, Empty
  <2>3. /\ GateVerdict[msg[h]] = "none"
        /\ GateStep[msg[h]] \in {"held", "aborted"}
        /\ msg[h] \in Calls
    BY <1>9, <2>2, VerdictOf DEF Judge, LoopGoes
  <2>4. \A n \in Calls : Passed(n)' <=> Passed(n) \/ (n = msg[h] /\ e = NoErr)
    BY <1>9, <1>a DEF Judge, LoopGoes, TypeOK, Passed
  <2>5. \A n \in Calls : Refused(n)' <=> Refused(n) \/ (n = msg[h] /\ e # NoErr)
    BY <1>9, <1>a DEF Judge, LoopGoes, TypeOK, Refused
  <2>6. ~Passed(msg[h]) /\ ~Refused(msg[h])
    BY <2>3 DEF GateVerdict
  <2>7. GateVerdict' = [GateVerdict EXCEPT ![msg[h]] = v]
    BY <2>3, <2>4, <2>5, <2>6 DEF GateVerdict
  <2>8. Gate!Judge(msg[h], v)
    BY <2>1, <2>3, <2>7 DEF Gate!Judge
  <2>9. QED
    BY <2>3, <2>8
<1>10. ASSUME NEW h \in Handlers, ContinueID(h)
       PROVE  Stutter
  <2>1. UNCHANGED GateStep
    BY <1>10, GateStepSame DEF ContinueID
  <2>2. msg[h] \in Calls /\ msg[h] \in pause /\ loop[h] = "continuing"
    BY <1>10, <1>a DEF ContinueID, LoopGoes, TypeOK, Empty, IInv, GateInv,
                       ShownIsOpen
  <2>3. \A k \in Handlers : msg[k] = msg[h] => k = h
    BY <2>2, NoneAssumption DEF IInv, GateInv, OneReceiver
  <2>4. \A n \in Calls : Passed(n)' <=> Passed(n)
    BY <1>10, <1>a, <2>2, <2>3, NoneAssumption
    DEF ContinueID, LoopGoes, TypeOK, Passed
  <2>5. \A n \in Calls : Refused(n)' <=> Refused(n)
    BY <1>10, <1>a, <2>2, <2>3, NoneAssumption
    DEF ContinueID, LoopGoes, TypeOK, Refused
  <2>6. UNCHANGED GateVerdict
    BY <2>4, <2>5 DEF GateVerdict
  <2>7. QED
    BY <2>1, <2>6
<1>11. ASSUME NEW h \in Handlers, HandleReturn(h)
       PROVE  Stutter
  <2>1. UNCHANGED GateStep
    BY <1>11, GateStepSame DEF HandleReturn
  <2>2. \A n \in Calls : (Passed(n)' <=> Passed(n)) /\ (Refused(n)' <=> Refused(n))
    BY <1>11, <1>a DEF HandleReturn, LoopGoes, TypeOK, Passed, Refused
  <2>3. UNCHANGED GateVerdict
    BY <2>2 DEF GateVerdict
  <2>4. QED
    BY <2>1, <2>3
<1>12. ASSUME NEW n \in Calls, NEW h \in Handlers, Deliver(n, h)
       PROVE  Stutter
  <2>1. UNCHANGED GateStep
    BY <1>12, <1>a DEF Deliver, CallGoes, GateStep, AtGate
  <2>2. msg[h] = None
    BY <1>12, <1>a DEF Deliver, TypeOK, Empty
  <2>3. \A m \in Calls : (Passed(m)' <=> Passed(m)) /\ (Refused(m)' <=> Refused(m))
    BY <1>12, <1>a, <2>2, NoneAssumption DEF Deliver, TypeOK, Passed, Refused
  <2>4. UNCHANGED GateVerdict
    BY <2>3 DEF GateVerdict
  <2>5. QED
    BY <2>1, <2>4
<1>13. ASSUME UNCHANGED vars
       PROVE  Stutter
  BY <1>13, GateStepSame, GateVerdictSame DEF vars
<1>14. Stutter => [Gate!Next]_(Gate!vars)
  BY DEF Gate!vars
<1> HIDE DEF Stutter
<1>15. QED
  BY <1>1, <1>2, <1>3, <1>4, <1>5, <1>6, <1>7, <1>8, <1>9, <1>10, <1>11, <1>12,
     <1>13, <1>14 DEF Next, CallNext, HandleNext, Gate!Next

\* The debug controller implements the gate: a step passes the debugger only
\* after the handler let it pass, is judged once, and is not released when the
\* handler returned an error (controller.go:40-67, 227-258).
THEOREM ControllerImplementsGate == Spec => GateSpec
<1>1. Init => Gate!Init
  BY DEF Init, Gate!Init, GateStep, GateVerdict, Passed, Refused, AtGate, Ended
<1>2. IInv /\ [Next]_vars => [Gate!Next]_(Gate!vars)
  BY GateNext
<1>3. QED
  BY <1>1, <1>2, Invariance, PTL DEF Spec, GateSpec, Gate!Spec
=============================================================================
