--------------------------- MODULE DapServerProofs ---------------------------
(***************************************************************************)
(* Proofs about DapServer, for any number of breaks and requests: what a    *)
(* patient client finds when its disconnect is answered, and which request  *)
(* releases which break.                                                    *)
(***************************************************************************)
EXTENDS DapServer, TLAPS

Patient == client # "eager"

\* The launch, the channel debugCancel waits on, and the call of Debug agree.
LaunchAgrees ==
  /\ launch \in {"none", "requested"} => doneCh \in {"unset", "closed"} /\ debug = "off"
  /\ launch = "begun" => doneCh = "open" /\ debug = "off"
  /\ launch \in {"started", "answered"} =>
       debug # "off" /\ doneCh # "unset" /\ (doneCh = "closed" => debug = "exited")

\* After a patient client's disconnect no request is under way, every container
\* has a task, and a disconnect that went on has waited for both.
DisconnectAgrees ==
  /\ disconnect # "none" =>
       launch \in {"none", "answered"} /\ eval \in {"none", "answered"}
  /\ container => eval = "starting" \/ task = "running"
  /\ disconnect \notin {"none", "cancelled"} => task # "running"
  /\ disconnect \in {"joined", "answered"} => (launch = "answered" => doneCh = "closed")

Active(c) == resume[c].at \in {"requested", "answered", "sending"}

\* A stop is with the forwarder, shown to the client, or the one resume under
\* way is for it, and it is the stop the handler is at.
StopAgrees ==
  /\ handler # "idle" => debug # "off"
  /\ forwarder \in Breaks =>
       forwarder = brk /\ handler \in {"sent", "waiting"} /\ shown = 0
  /\ shown # 0 => shown = brk /\ handler \in {"sent", "waiting"} /\ forwarder \notin Breaks
  /\ \A c \in Resumes : Active(c) =>
       /\ shown = 0 /\ forwarder \notin Breaks
       /\ resume[c].for = brk /\ handler \in {"sent", "waiting"}
       /\ \A d \in Resumes : Active(d) => d = c
       /\ resume[c].at = "sending" => (breakEach <=> resume[c].kind = "next")

IInv == TypeOK /\ (Patient => LaunchAgrees /\ DisconnectAgrees /\ StopAgrees)

-----------------------------------------------------------------------------
LEMMA InitIInv == Init => IInv
<1> SUFFICES ASSUME Init PROVE IInv
  OBVIOUS
<1>1. MaxBreaks \in Nat
  BY DapAssumption
<1>2. TypeOK
  <2>1. /\ {brk, bCtx, shown} \subseteq 0..MaxBreaks /\ forwarder \in 0..Off
        /\ {cancelled, breakEach, stoppedClosed, debuggerNil, container, tasksCancelled} \subseteq BOOLEAN
    <3>1. /\ cancelled \in BOOLEAN /\ breakEach \in BOOLEAN /\ stoppedClosed \in BOOLEAN
          /\ debuggerNil \in BOOLEAN /\ container \in BOOLEAN /\ tasksCancelled \in BOOLEAN
      BY DEF Init
    <3>2. {brk, bCtx, shown} \subseteq 0..MaxBreaks /\ forwarder \in 0..Off
      BY <1>1 DEF Init, Off
    <3> QED BY <3>1, <3>2
  <2>2. /\ resume \in [Resumes -> [at : {"none", "requested", "answered", "sending", "done", "dropped"},
                                    kind : {"continue", "next"}, for : 0..MaxBreaks]]
        /\ trace \in [at : {"none", "requested", "answered"}, for : 0..MaxBreaks, saw : 0..MaxBreaks]
    BY <1>1 DEF Init
  <2> QED BY <2>1, <2>2 DEF Init, TypeOK
<1>3. LaunchAgrees /\ DisconnectAgrees
  BY DEF Init, LaunchAgrees, DisconnectAgrees
<1>4. StopAgrees
  BY <1>1 DEF Init, StopAgrees, Active, Off, Breaks
<1> QED BY <1>2, <1>3, <1>4 DEF IInv

-----------------------------------------------------------------------------
(* Type correctness, goroutine by goroutine *)

LEMMA PanicType ==
  ASSUME TypeOK, Panic, client' = client, conn' \in {"open", "eof"}
  PROVE  TypeOK'
  BY DEF TypeOK, Panic, sessionVars, stopVars, evalVars, requestVars, Off, Breaks

LEMMA ClientType ==
  ASSUME TypeOK, ClientSends, UNCHANGED <<client, conn>>
  PROVE  TypeOK'
<1> USE DEF TypeOK, sessionVars, stopVars, evalVars, requestVars, Off
<1>1. CASE SendLaunch
  BY <1>1 DEF SendLaunch
<1>2. CASE SendStackTrace
  <2>1. /\ trace' = [at |-> "requested", for |-> shown, saw |-> 0]
        /\ shown \in 0..MaxBreaks /\ 0 \in 0..MaxBreaks
    BY <1>2, DapAssumption DEF SendStackTrace
  <2>2. trace' \in [at : {"none", "requested", "answered"}, for : 0..MaxBreaks, saw : 0..MaxBreaks]
    BY <2>1
  <2> QED BY <1>2, <2>2 DEF SendStackTrace
<1>3. CASE SendExec
  BY <1>3 DEF SendExec
<1>4. CASE DisconnectBegin
  BY <1>4 DEF DisconnectBegin
<1>5. ASSUME NEW c \in Resumes, NEW kind \in {"continue", "next"}, SendResume(c, kind)
      PROVE  TypeOK'
  BY <1>5, DapAssumption DEF SendResume
<1> QED BY <1>1, <1>2, <1>3, <1>4, <1>5 DEF ClientSends

LEMMA LaunchType ==
  ASSUME TypeOK, LaunchStep \/ LaunchAnswer \/ DebugReturns \/ FinishHook, UNCHANGED <<client, conn>>
  PROVE  TypeOK'
<1> USE DEF TypeOK, sessionVars, stopVars, evalVars, requestVars, Off
<1>1. CASE LaunchBegin
  BY <1>1 DEF LaunchBegin
<1>2. CASE LaunchFails
  BY <1>2 DEF LaunchFails
<1>3. ASSUME NEW b \in BOOLEAN, LaunchStarts(b)
      PROVE  TypeOK'
  BY <1>3 DEF LaunchStarts
<1>4. CASE LaunchAnswer
  BY <1>4 DEF LaunchAnswer
<1>5. CASE DebugReturns
  BY <1>5 DEF DebugReturns
<1>6. CASE FinishHook
  <2>1. PICK i \in 1..4 : /\ debug = HookPhases[i] /\ debug' = HookPhases[i + 1]
                          /\ doneCh' = IF i = 4 THEN "closed" ELSE doneCh
                          /\ UNCHANGED <<process, launch, cancelled, lastResume, stopVars, evalVars, requestVars>>
    BY <1>6 DEF FinishHook
  <2>2. debug' \in {"threadExited", "cleaned", "terminated", "exited"}
    BY <2>1 DEF HookPhases
  <2> QED BY <2>1, <2>2
<1> QED BY <1>1, <1>2, <1>3, <1>4, <1>5, <1>6 DEF LaunchStep

LEMMA StopType ==
  ASSUME TypeOK, UNCHANGED <<client, conn>>,
         (\E hit \in BOOLEAN : VertexBreaks(hit)) \/ ForwarderStep \/ HandlerStep
  PROVE  TypeOK'
<1> USE DapAssumption DEF TypeOK, sessionVars, stopVars, evalVars, requestVars, Off, On, Breaks
<1>1. ASSUME NEW hit \in BOOLEAN, VertexBreaks(hit)
      PROVE  TypeOK'
  BY <1>1 DEF VertexBreaks
<1>2. CASE ForwarderStarts
  BY <1>2, PanicType DEF ForwarderStarts
<1>3. CASE ForwardStopped
  BY <1>3 DEF ForwardStopped
<1>4. CASE BreakSend
  BY <1>4, PanicType DEF BreakSend
<1>5. CASE BreakSet
  BY <1>5 DEF BreakSet
<1> QED BY <1>1, <1>2, <1>3, <1>4, <1>5 DEF ForwarderStep, HandlerStep

LEMMA RequestType ==
  ASSUME TypeOK, UNCHANGED <<client, conn>>,
         (\E c \in Resumes : ResumeStep(c)) \/ StackTrace \/ EvaluateStep \/ TaskEnds
  PROVE  TypeOK'
<1> USE DEF TypeOK, sessionVars, stopVars, evalVars, requestVars, Off
<1>1. ASSUME NEW c \in Resumes, ResumeStep(c)
      PROVE  TypeOK'
  <2>1. CASE ResumeAnswer(c)
    BY <2>1 DEF ResumeAnswer
  <2>2. CASE ResumeCheck(c)
    <3>1. CASE Panic
      BY <3>1, PanicType
    <3>2. CASE ~Panic
      <4>1. /\ resume' = [resume EXCEPT ![c].at = IF bCtx = 0 THEN "dropped" ELSE "sending"]
            /\ breakEach' = IF bCtx = 0 THEN breakEach ELSE resume[c].kind = "next"
            /\ UNCHANGED <<process, sessionVars, handler, brk, bCtx, forwarder, stoppedClosed,
                           shown, evalVars, trace, disconnect, debuggerNil>>
        BY <2>2, <3>2 DEF ResumeCheck
      <4>2. breakEach' \in BOOLEAN
        BY <4>1
      <4>3. resume' \in [Resumes -> [at : {"none", "requested", "answered", "sending", "done", "dropped"},
                                     kind : {"continue", "next"}, for : 0..MaxBreaks]]
        BY <4>1
      <4> QED BY <4>1, <4>2, <4>3
    <3> QED BY <3>1, <3>2
  <2>3. CASE ResumeMeets(c)
    BY <2>3 DEF ResumeMeets
  <2> QED BY <1>1, <2>1, <2>2, <2>3 DEF ResumeStep
<1>2. CASE StackTrace
  <2>1. CASE Panic
    BY <2>1, PanicType
  <2>2. CASE trace' = [trace EXCEPT !.at = "answered", !.saw = bCtx]
             /\ UNCHANGED <<process, sessionVars, stopVars, evalVars, resume, disconnect, debuggerNil>>
    <3>1. /\ trace \in [at : {"none", "requested", "answered"}, for : 0..MaxBreaks, saw : 0..MaxBreaks]
          /\ bCtx \in 0..MaxBreaks
      OBVIOUS
    <3>2. trace' \in [at : {"none", "requested", "answered"}, for : 0..MaxBreaks, saw : 0..MaxBreaks]
      BY <2>2, <3>1
    <3> QED BY <2>2, <3>2
  <2> QED BY <1>2, <2>1, <2>2 DEF StackTrace
<1>3. CASE EvaluateFails
  BY <1>3 DEF EvaluateFails
<1>4. CASE EvaluateStarts
  BY <1>4, PanicType DEF EvaluateStarts
<1>5. CASE EvaluateAnswer
  BY <1>5 DEF EvaluateAnswer
<1>6. CASE TaskEnds
  <2>1. container' \in BOOLEAN /\ task' = "ended"
    BY <1>6 DEF TaskEnds
  <2> QED BY <1>6, <2>1 DEF TaskEnds
<1> QED BY <1>1, <1>2, <1>3, <1>4, <1>5, <1>6 DEF EvaluateStep

LEMMA DisconnectType ==
  ASSUME TypeOK, DisconnectStep \/ ServeReturns \/ ReadFails, UNCHANGED <<client, conn>>
  PROVE  TypeOK'
<1> USE DEF TypeOK, sessionVars, stopVars, evalVars, requestVars, Off
<1>1. CASE DisconnectWait
  BY <1>1 DEF DisconnectWait
<1>2. CASE DisconnectClose
  BY <1>2, PanicType DEF DisconnectClose
<1>3. CASE DisconnectCancel
  BY <1>3 DEF DisconnectCancel
<1>4. CASE DisconnectJoin
  BY <1>4 DEF DisconnectJoin
<1>5. CASE DisconnectAnswer
  BY <1>5 DEF DisconnectAnswer
<1>6. CASE Exit \/ ServeReturns \/ ReadFails
  BY <1>6 DEF Exit, ServeReturns, ReadFails
<1> QED BY <1>1, <1>2, <1>3, <1>4, <1>5, <1>6 DEF DisconnectStep

LEMMA NextType == TypeOK /\ [Next]_vars => TypeOK'
<1> SUFFICES ASSUME TypeOK, [Next]_vars PROVE TypeOK'
  OBVIOUS
<1>1. CASE Up(Step)
  BY <1>1, ClientType, LaunchType, StopType, RequestType, DisconnectType DEF Up, Step
<1>2. CASE HangUp /\ UNCHANGED client
  BY <1>2 DEF HangUp, TypeOK, sessionVars, stopVars, evalVars, requestVars, Off
<1>3. CASE UNCHANGED vars
  BY <1>3 DEF TypeOK, vars, sessionVars, stopVars, evalVars, requestVars, Off
<1> QED BY <1>1, <1>2, <1>3 DEF Next

-----------------------------------------------------------------------------
(* The invariant of a patient client *)

LEMMA LaunchAgreesNext ==
  ASSUME IInv, Patient, Step
  PROVE  LaunchAgrees'
<1> USE DEF IInv, LaunchAgrees, sessionVars, stopVars, evalVars, requestVars
<1>1. CASE SendLaunch
  BY <1>1 DEF SendLaunch
<1>2. CASE LaunchBegin
  BY <1>2 DEF LaunchBegin
<1>3. CASE LaunchFails
  BY <1>3 DEF LaunchFails
<1>4. CASE \E b \in BOOLEAN : LaunchStarts(b)
  BY <1>4 DEF LaunchStarts
<1>5. CASE LaunchAnswer
  BY <1>5 DEF LaunchAnswer
<1>6. CASE DebugReturns
  BY <1>6 DEF DebugReturns, TypeOK
<1>7. CASE FinishHook
  <2>1. /\ debug \in {"returned", "threadExited", "cleaned", "terminated"} /\ launch' = launch
        /\ debug' \in {"threadExited", "cleaned", "terminated", "exited"}
        /\ doneCh' = doneCh \/ (doneCh' = "closed" /\ debug' = "exited")
    BY <1>7 DEF FinishHook, HookPhases
  <2> QED BY <2>1 DEF TypeOK
<1>8. CASE UNCHANGED <<launch, doneCh, debug>>
  BY <1>8
<1>9. CASE \/ SendStackTrace \/ SendExec \/ DisconnectBegin \/ ForwarderStep \/ HandlerStep
           \/ StackTrace \/ EvaluateStep \/ TaskEnds \/ DisconnectStep \/ ServeReturns \/ ReadFails
  BY <1>8, <1>9 DEF Panic, SendStackTrace, SendExec, DisconnectBegin, ForwarderStep, ForwarderStarts,
     ForwardStopped, HandlerStep, BreakSend, BreakSet, StackTrace, EvaluateStep, EvaluateFails,
     EvaluateStarts, EvaluateAnswer, TaskEnds, DisconnectStep, DisconnectWait, DisconnectClose,
     DisconnectCancel, DisconnectJoin, DisconnectAnswer, Exit, ServeReturns, ReadFails
<1>10. CASE \/ \E c \in Resumes, kind \in {"continue", "next"} : SendResume(c, kind)
            \/ \E hit \in BOOLEAN : VertexBreaks(hit)
            \/ \E c \in Resumes : ResumeStep(c)
  BY <1>8, <1>10 DEF Panic, SendResume, VertexBreaks, ResumeStep, ResumeAnswer, ResumeCheck, ResumeMeets
<1> QED BY <1>1, <1>2, <1>3, <1>4, <1>5, <1>6, <1>7, <1>9, <1>10 DEF Step, ClientSends, LaunchStep

LEMMA DisconnectAgreesNext ==
  ASSUME IInv, Patient, Step
  PROVE  DisconnectAgrees'
<1> USE DEF IInv, TypeOK, DisconnectAgrees, LaunchAgrees, Patient, Eager,
            sessionVars, stopVars, evalVars, requestVars
<1>0. CASE UNCHANGED <<launch, doneCh, eval, container, task, disconnect>>
  BY <1>0
<1>1. CASE SendLaunch \/ SendExec
  BY <1>1 DEF SendLaunch, SendExec, MaySend
<1>2. CASE LaunchBegin \/ LaunchFails \/ LaunchAnswer \/ \E b \in BOOLEAN : LaunchStarts(b)
  BY <1>2 DEF LaunchBegin, LaunchFails, LaunchAnswer, LaunchStarts
<1>3. CASE FinishHook
  <2>1. /\ doneCh' = doneCh \/ doneCh' = "closed"
        /\ UNCHANGED <<launch, eval, container, task, disconnect>>
    BY <1>3 DEF FinishHook
  <2> QED BY <2>1
<1>4. CASE DisconnectBegin
  BY <1>4 DEF DisconnectBegin, MaySend, Answered
<1>5. CASE EvaluateStep \/ TaskEnds
  BY <1>0, <1>5 DEF EvaluateStep, EvaluateFails, EvaluateStarts, EvaluateAnswer, TaskEnds, Panic
<1>6. CASE DisconnectStep \/ ServeReturns \/ ReadFails
  BY <1>0, <1>6 DEF DisconnectStep, DisconnectWait, DisconnectClose, DisconnectCancel,
     DisconnectJoin, DisconnectAnswer, Exit, ServeReturns, ReadFails, Panic
<1>7. CASE DebugReturns \/ SendStackTrace \/ ForwarderStep \/ HandlerStep \/ StackTrace
  BY <1>0, <1>7 DEF DebugReturns, SendStackTrace, ForwarderStep, ForwarderStarts,
     ForwardStopped, HandlerStep, BreakSend, BreakSet, StackTrace, Panic
<1>8. CASE \/ \E c \in Resumes, kind \in {"continue", "next"} : SendResume(c, kind)
           \/ \E hit \in BOOLEAN : VertexBreaks(hit)
           \/ \E c \in Resumes : ResumeStep(c)
  BY <1>0, <1>8 DEF Panic, SendResume, VertexBreaks, ResumeStep, ResumeAnswer, ResumeCheck, ResumeMeets
<1> QED BY <1>1, <1>2, <1>3, <1>4, <1>5, <1>6, <1>7, <1>8 DEF Step, ClientSends, LaunchStep

LEMMA StopAgreesNext ==
  ASSUME IInv, Patient, Step
  PROVE  StopAgrees'
<1> USE DapAssumption DEF IInv, TypeOK, StopAgrees, Active, Breaks, Off, On, Patient, Eager,
            sessionVars, stopVars, evalVars, requestVars
<1>0. CASE UNCHANGED <<handler, brk, breakEach, forwarder, shown, resume>> /\ (debug # "off" => debug' # "off")
  BY <1>0
<1>1. ASSUME NEW b \in BOOLEAN, LaunchStarts(b)
      PROVE  StopAgrees'
  <2>1. handler = "idle" /\ handler' = "idle"
    BY <1>1 DEF LaunchStarts, LaunchAgrees
  <2> QED BY <1>1, <2>1 DEF LaunchStarts
<1>2. ASSUME NEW hit \in BOOLEAN, VertexBreaks(hit)
      PROVE  StopAgrees'
  BY <1>2 DEF VertexBreaks
<1>3. CASE BreakSend
  BY <1>0, <1>3 DEF BreakSend, Panic
<1>4. CASE BreakSet
  BY <1>4 DEF BreakSet
<1>5. CASE ForwarderStarts
  BY <1>0, <1>5 DEF ForwarderStarts, Panic
<1>6. CASE ForwardStopped
  BY <1>6 DEF ForwardStopped
<1>7. ASSUME NEW c \in Resumes, NEW kind \in {"continue", "next"}, SendResume(c, kind)
      PROVE  StopAgrees'
  BY <1>7 DEF SendResume
<1>8. ASSUME NEW c \in Resumes, ResumeStep(c)
      PROVE  StopAgrees'
  <2>1. CASE ResumeAnswer(c)
    BY <2>1 DEF ResumeAnswer
  <2>2. CASE ResumeCheck(c)
    <3>1. CASE Panic
      BY <1>0, <3>1 DEF Panic
    <3>2. CASE ~Panic
      <4>1. /\ resume[c].at = "answered"
            /\ resume' = [resume EXCEPT ![c].at = IF bCtx = 0 THEN "dropped" ELSE "sending"]
            /\ breakEach' = IF bCtx = 0 THEN breakEach ELSE resume[c].kind = "next"
            /\ UNCHANGED <<debug, handler, brk, forwarder, shown>>
        BY <2>2, <3>2 DEF ResumeCheck
      <4>2. \A d \in Resumes : Active(d) => d = c
        BY <4>1
      <4>3. /\ \A d \in Resumes : d # c => resume'[d] = resume[d]
            /\ resume'[c].at = (IF bCtx = 0 THEN "dropped" ELSE "sending")
            /\ resume'[c].for = resume[c].for /\ resume'[c].kind = resume[c].kind
        BY <4>1
      <4>4. resume'[c].at = "sending" => (breakEach' <=> resume'[c].kind = "next")
        <5>1. CASE bCtx = 0
          BY <4>3, <5>1
        <5>2. CASE bCtx # 0
          <6>1. breakEach' = (resume[c].kind = "next") /\ resume'[c].kind = resume[c].kind
            BY <4>1, <4>3, <5>2
          <6> QED BY <6>1, Zenon
        <5> QED BY <5>1, <5>2
      <4> QED BY <4>1, <4>2, <4>3, <4>4
    <3> QED BY <3>1, <3>2
  <2>3. CASE ResumeMeets(c)
    BY <2>3 DEF ResumeMeets
  <2> QED BY <1>8, <2>1, <2>2, <2>3 DEF ResumeStep
<1>9. CASE LaunchBegin \/ LaunchFails \/ LaunchAnswer \/ DebugReturns \/ FinishHook
  BY <1>0, <1>9 DEF LaunchBegin, LaunchFails, LaunchAnswer, DebugReturns, FinishHook, HookPhases
<1>10. CASE \/ SendLaunch \/ SendStackTrace \/ SendExec \/ DisconnectBegin
            \/ StackTrace \/ EvaluateStep \/ TaskEnds \/ DisconnectStep \/ ServeReturns \/ ReadFails
  BY <1>0, <1>10 DEF Panic, SendLaunch, SendStackTrace, SendExec, DisconnectBegin,
     StackTrace, EvaluateStep, EvaluateFails, EvaluateStarts, EvaluateAnswer, TaskEnds,
     DisconnectStep, DisconnectWait, DisconnectClose,
     DisconnectCancel, DisconnectJoin, DisconnectAnswer, Exit, ServeReturns, ReadFails
<1> QED BY <1>1, <1>2, <1>3, <1>4, <1>5, <1>6, <1>7, <1>8, <1>9, <1>10
        DEF Step, ClientSends, LaunchStep, ForwarderStep, HandlerStep

LEMMA NextIInv == IInv /\ [Next]_vars => IInv'
<1> SUFFICES ASSUME IInv, [Next]_vars, Patient' PROVE LaunchAgrees' /\ DisconnectAgrees' /\ StopAgrees'
  BY NextType DEF IInv
<1>1. client' = client
  BY DEF Next, Up, HangUp, vars
<1>2. CASE Up(Step)
  BY <1>1, <1>2, LaunchAgreesNext, DisconnectAgreesNext, StopAgreesNext DEF Up, Patient
<1>3. CASE HangUp \/ UNCHANGED vars
  BY <1>1, <1>3 DEF HangUp, vars, sessionVars, stopVars, evalVars, requestVars, IInv, Patient,
     LaunchAgrees, DisconnectAgrees, StopAgrees, Active
<1> QED BY <1>2, <1>3 DEF Next

LEMMA Invariance == Spec => []IInv
  BY InitIInv, NextIInv, PTL DEF Spec

-----------------------------------------------------------------------------
\* The fields, channels and program counters of the server keep their types.
THEOREM TypeCorrect == Spec => []TypeOK
<1>1. IInv => TypeOK
  BY DEF IInv
<1> QED BY <1>1, Invariance, PTL

\* A client whose disconnect is answered finds no container and no build, and
\* the clean-up is over (dap.go:341-352, 735-761, debugger.go:60-66).
THEOREM NothingIsLeft == Spec => []NothingLeftWhenAnswered
<1>1. IInv => NothingLeftWhenAnswered
  BY DEF IInv, TypeOK, LaunchAgrees, DisconnectAgrees, NothingLeftWhenAnswered, Patient, Eager
<1> QED BY <1>1, Invariance, PTL

LEMMA ResumeMeetsOnly ==
  ASSUME IInv, [Next]_vars, Patient
  PROVE  /\ \A c \in Resumes : resume[c].at = "sending" /\ resume'[c].at = "done" => ResumeMeets(c)
         /\ handler = "waiting" /\ handler' = "idle" => \E c \in Resumes : ResumeMeets(c)
<1> USE DEF IInv, TypeOK, sessionVars, stopVars, evalVars, requestVars
<1>0. CASE UNCHANGED <<handler, resume>>
  BY <1>0
<1>1. CASE LaunchStep \/ LaunchAnswer \/ DebugReturns \/ FinishHook
  BY <1>0, <1>1 DEF LaunchStep, LaunchBegin, LaunchFails, LaunchStarts, LaunchAnswer, DebugReturns, FinishHook
<1>2. ASSUME NEW hit \in BOOLEAN, VertexBreaks(hit)
      PROVE  UNCHANGED resume /\ handler # "waiting"
  BY <1>2 DEF VertexBreaks
<1>3. CASE ForwarderStep \/ HandlerStep
  BY <1>3 DEF ForwarderStep, ForwarderStarts, ForwardStopped, HandlerStep, BreakSend, BreakSet, Panic
<1>4. ASSUME NEW c \in Resumes, NEW kind \in {"continue", "next"}, SendResume(c, kind)
      PROVE  UNCHANGED handler /\ \A d \in Resumes : resume'[d].at = "done" => resume[d].at = "done"
  BY <1>4 DEF SendResume
<1>5. ASSUME NEW c \in Resumes, ResumeStep(c), ~ResumeMeets(c)
      PROVE  UNCHANGED handler /\ \A d \in Resumes : resume'[d].at = "done" => resume[d].at = "done"
  BY <1>5 DEF ResumeStep, ResumeAnswer, ResumeCheck, Panic
<1>6. ASSUME NEW c \in Resumes, ResumeMeets(c)
      PROVE  \A d \in Resumes : resume[d].at = "sending" /\ resume'[d].at = "done" => d = c
  BY <1>6 DEF ResumeMeets
<1>7. CASE \/ SendLaunch \/ SendStackTrace \/ SendExec \/ DisconnectBegin
           \/ StackTrace \/ EvaluateStep \/ TaskEnds \/ DisconnectStep \/ ServeReturns \/ ReadFails
  BY <1>0, <1>7 DEF Panic, SendLaunch, SendStackTrace, SendExec, DisconnectBegin,
     StackTrace, EvaluateStep, EvaluateFails, EvaluateStarts, EvaluateAnswer, TaskEnds,
     DisconnectStep, DisconnectWait, DisconnectClose,
     DisconnectCancel, DisconnectJoin, DisconnectAnswer, Exit, ServeReturns, ReadFails
<1>8. CASE HangUp \/ UNCHANGED vars
  BY <1>0, <1>8 DEF HangUp, vars
<1> QED BY <1>1, <1>2, <1>3, <1>4, <1>5, <1>6, <1>7, <1>8 DEF Next, Up, Step, ClientSends

\* A break is released by the request the client sent when it was shown that
\* break (debugger.go:168-184, 207-209).
THEOREM ResumesTheirBreak == Spec => ResumesItsBreak
<1>1. IInv /\ [Next]_vars =>
        \A c \in Resumes : ~Eager /\ resume[c].at = "sending" /\ resume'[c].at = "done" => resume[c].for = brk
  BY DEF IInv, StopAgrees, Active, Patient, Eager
<1> QED BY <1>1, Invariance, PTL DEF Spec, ResumesItsBreak

\* Between a continue and the next break stepping is off, after a next it is on
\* (debugger.go:170, 179).
THEOREM ContinueMeansContinue == Spec => ContinueStopsStepping
<1>1. IInv /\ [Next]_vars =>
        (~Eager /\ handler = "waiting" /\ handler' = "idle" => breakEach = (lastResume' = "next"))
  <2> SUFFICES ASSUME IInv, [Next]_vars, Patient, handler = "waiting", handler' = "idle"
               PROVE  breakEach = (lastResume' = "next")
    BY DEF Patient, Eager
  <2>1. PICK c \in Resumes : ResumeMeets(c)
    BY ResumeMeetsOnly
  <2>2. (breakEach <=> resume[c].kind = "next") /\ lastResume' = resume[c].kind /\ breakEach \in BOOLEAN
    BY <2>1 DEF IInv, TypeOK, StopAgrees, Active, ResumeMeets
  <2> QED BY <2>2
<1> QED BY <1>1, Invariance, PTL DEF Spec, ContinueStopsStepping
=============================================================================
