----------------------------- MODULE DapServer -----------------------------
(***************************************************************************)
(* pkg/dap: the run control of the Debug Adapter Protocol server.          *)
(*                                                                         *)
(* Serve handles every request in a goroutine of its own, so requests race *)
(* with each other, with the goroutine of launch that runs buildkit.Debug, *)
(* with the goroutine in which Debug calls breakHandler, and with the      *)
(* forwarder that turns stoppedCh into Stopped events.  The goroutines     *)
(* meet on two unbuffered channels (stoppedCh, mesCh) and share bCtx,      *)
(* lConfig, debugCancel and the server's debugger without a lock.          *)
(*                                                                         *)
(* buildkit.Debug is the module DebugSession; here it is what launch sees  *)
(* of it: it calls breakHandler for one vertex at a time, it may return at *)
(* any time, and it does return once its context is cancelled              *)
(* (DebugCall!InterruptReturns).                                           *)
(***************************************************************************)
EXTENDS Naturals, FiniteSets

CONSTANTS
  Resumes,        \* continue and next requests
  EagerResumes,   \* those an eager client may send
  MaxBreaks,      \* bound: vertices that break
  Clients         \* "patient", and "eager": one that sends requests before
                  \* earlier ones are answered, and resumes at no stop

ASSUME DapAssumption ==
  /\ MaxBreaks \in Nat
  /\ EagerResumes \subseteq Resumes
  /\ Clients \subseteq {"patient", "eager"}

VARIABLES
  client,         \* which client it is; never changes
  conn,           \* the connection: "open", or "eof": the client has closed its side
  process,        \* "up", "exited" (os.Exit), "returned" (from main), "panicked"
  launch,         \* launch request: "none", "requested", "begun", "started", "answered"
  doneCh,         \* debugCancel: "unset", or waits on a channel "open", "closed"
  cancelled,      \* the context of Debug
  debug,          \* launch's call of Debug and its onFinishHook
  handler,        \* goroutine of breakHandler: "idle", "sending", "sent", "waiting"
  brk,            \* number of the vertex breakHandler was last called for
  bCtx,           \* d.bCtx; 0: nil
  breakEach,      \* Handler.BreakEachVertex
  lastResume,     \* history: what released the build last
  forwarder,      \* "off", "on", or the stop it has received and not sent
  stoppedClosed,  \* d.stoppedCh is closed
  debuggerNil,    \* s.debugger = nil
  resume,         \* handlers of continue and next
  trace,          \* handler of a stackTrace request
  eval,           \* handler of an exec: "none", "requested", "starting", "answered"
  container,      \* the debug container exists
  task,           \* what eg waits for: "none", "running", "ended"
  tasksCancelled, \* s.ctx
  disconnect,     \* handler of disconnect: how far it is
  shown           \* the stop the client was shown and has not resumed; 0: none

sessionVars == <<launch, doneCh, cancelled, debug, lastResume>>
stopVars == <<handler, brk, bCtx, breakEach, forwarder, stoppedClosed, shown>>
evalVars == <<eval, container, task, tasksCancelled>>
requestVars == <<resume, trace, disconnect, debuggerNil>>
vars == <<client, conn, process, sessionVars, stopVars, evalVars, requestVars>>

Breaks == 1..MaxBreaks
Off == MaxBreaks + 1      \* forwarder: not started
On == 0                   \* forwarder: ready to receive

TypeOK ==
  /\ client \in Clients
  /\ conn \in {"open", "eof"}
  /\ process \in {"up", "exited", "returned", "panicked"}
  /\ launch \in {"none", "requested", "begun", "started", "answered"}
  /\ doneCh \in {"unset", "open", "closed"}
  /\ debug \in {"off", "running", "returned", "threadExited", "cleaned", "terminated", "exited"}
  /\ handler \in {"idle", "sending", "sent", "waiting"}
  /\ {brk, bCtx, shown} \subseteq 0..MaxBreaks
  /\ {cancelled, breakEach, stoppedClosed, debuggerNil, container, tasksCancelled} \subseteq BOOLEAN
  /\ lastResume \in {"entry", "continue", "next"}
  /\ forwarder \in 0..Off
  /\ resume \in [Resumes -> [at : {"none", "requested", "answered", "sending", "done", "dropped"},
                             kind : {"continue", "next"}, for : 0..MaxBreaks]]
  /\ trace \in [at : {"none", "requested", "answered"}, for : 0..MaxBreaks, saw : 0..MaxBreaks]
  /\ eval \in {"none", "requested", "starting", "answered"}
  /\ task \in {"none", "running", "ended"}
  /\ disconnect \in {"none", "cancelled", "waited", "closed", "joining", "joined", "answered"}

Init ==
  /\ client \in Clients
  /\ conn = "open" /\ process = "up"
  /\ launch = "none" /\ doneCh = "unset" /\ cancelled = FALSE /\ debug = "off"
  /\ handler = "idle" /\ brk = 0 /\ bCtx = 0 /\ breakEach = FALSE /\ lastResume = "entry"
  /\ forwarder = Off /\ stoppedClosed = FALSE /\ debuggerNil = FALSE
  /\ resume = [c \in Resumes |-> [at |-> "none", kind |-> "continue", for |-> 0]]
  /\ trace = [at |-> "none", for |-> 0, saw |-> 0]
  /\ eval = "none" /\ container = FALSE /\ task = "none" /\ tasksCancelled = FALSE
  /\ disconnect = "none" /\ shown = 0

Panic ==
  /\ process' = "panicked"
  /\ UNCHANGED <<sessionVars, stopVars, evalVars, requestVars>>

-----------------------------------------------------------------------------
(* The client.  A patient one has one request outstanding, and resumes the *)
(* build only when it was shown a stop.                                    *)

Answered ==
  /\ launch \in {"none", "answered"}
  /\ \A c \in Resumes : resume[c].at # "requested"
  /\ trace.at # "requested"
  /\ eval \notin {"requested", "starting"}
  /\ disconnect = "none"

Eager == client = "eager"

MaySend == conn = "open" /\ disconnect = "none" /\ (Eager \/ Answered)

SendLaunch ==
  /\ MaySend /\ launch = "none"
  /\ launch' = "requested"
  /\ UNCHANGED <<process, doneCh, cancelled, debug, lastResume, stopVars, evalVars, requestVars>>

SendResume(c, kind) ==
  /\ MaySend /\ resume[c].at = "none"
  /\ IF Eager THEN c \in EagerResumes ELSE shown > 0
  /\ resume' = [resume EXCEPT ![c] = [at |-> "requested", kind |-> kind, for |-> shown]]
  /\ shown' = 0
  /\ UNCHANGED <<process, sessionVars, handler, brk, bCtx, breakEach, forwarder,
                 stoppedClosed, evalVars, trace, disconnect, debuggerNil>>

SendStackTrace ==
  /\ MaySend /\ trace.at # "requested" /\ shown > 0
  /\ trace' = [at |-> "requested", for |-> shown, saw |-> 0]
  /\ UNCHANGED <<process, sessionVars, stopVars, evalVars, resume, disconnect, debuggerNil>>

SendExec ==
  /\ MaySend /\ eval = "none" /\ (Eager \/ shown > 0)
  /\ eval' = "requested"
  /\ UNCHANGED <<process, sessionVars, stopVars, container, task, tasksCancelled, requestVars>>

-----------------------------------------------------------------------------
(* onLaunchRequest, launchDebugger, debugger.launch *)

\* launch: lConfig is unset; debugCancel is set before the configuration is
\* parsed.  A launch after a successful one is answered with an error and
\* changes nothing, so only this one is modelled.
LaunchBegin ==
  /\ launch = "requested"
  /\ IF debuggerNil
     THEN /\ launch' = "none" /\ UNCHANGED doneCh
     ELSE /\ launch' = "begun" /\ doneCh' = "open"
  /\ UNCHANGED <<process, cancelled, debug, lastResume, stopVars, evalVars, requestVars>>

\* The configuration does not parse: an ErrorResponse, and the client may retry.
LaunchFails ==
  /\ launch = "begun"
  /\ launch' = "none" /\ doneCh' = "closed"
  /\ UNCHANGED <<process, cancelled, debug, lastResume, stopVars, evalVars, requestVars>>

\* lConfig is set, the thread is announced, and Debug is called.
LaunchStarts(stopOnEntry) ==
  /\ launch = "begun"
  /\ launch' = "started"
  /\ debug' = "running"
  /\ breakEach' = stopOnEntry
  /\ UNCHANGED <<process, doneCh, cancelled, lastResume, handler, brk, bCtx, forwarder,
                 stoppedClosed, shown, evalVars, requestVars>>

LaunchAnswer ==
  /\ launch = "started"
  /\ launch' = "answered"
  /\ UNCHANGED <<process, doneCh, cancelled, debug, lastResume, stopVars, evalVars, requestVars>>

\* The goroutine started behind the LaunchResponse.
ForwarderStarts ==
  /\ launch = "answered" /\ forwarder = Off
  /\ \/ /\ debuggerNil /\ Panic
     \/ /\ ~debuggerNil
        /\ forwarder' = On
        /\ UNCHANGED <<process, sessionVars, handler, brk, bCtx, breakEach, stoppedClosed, shown, evalVars, requestVars>>

DebugReturns ==
  /\ debug = "running"
  /\ debug' = "returned"
  /\ UNCHANGED <<process, launch, doneCh, cancelled, lastResume, stopVars, evalVars, requestVars>>

\* onFinishHook: thread exited, cleanupFunc, terminated, exited; then launch
\* returns and closes doneCh.
HookPhases == <<"returned", "threadExited", "cleaned", "terminated", "exited">>

FinishHook ==
  \E i \in 1..4 :
    /\ debug = HookPhases[i]
    /\ debug' = HookPhases[i + 1]
    /\ doneCh' = IF i = 4 THEN "closed" ELSE doneCh
    /\ UNCHANGED <<process, launch, cancelled, lastResume, stopVars, evalVars, requestVars>>

-----------------------------------------------------------------------------
(* breakHandler and the forwarder *)

VertexBreaks_ConcurrentBug(hit) ==
  /\ debug = "running" /\ handler \in {"idle", "waiting"}
  /\ brk < MaxBreaks
  /\ breakEach \/ hit
  /\ brk' = brk + 1
  /\ handler' = "sending"
  /\ UNCHANGED <<process, sessionVars, bCtx, breakEach, forwarder, stoppedClosed, shown, evalVars, requestVars>>

\* The handler loop of Debug has judged that a vertex breaks: it is stepping,
\* or a breakpoint is hit.
VertexBreaks(hit) ==
  /\ debug = "running" /\ handler = "idle"
  /\ brk < MaxBreaks
  /\ breakEach \/ hit
  /\ brk' = brk + 1
  /\ handler' = "sending"
  /\ UNCHANGED <<process, sessionVars, bCtx, breakEach, forwarder, stoppedClosed, shown, evalVars, requestVars>>

\* d.stoppedCh <- bpIDs.
BreakSend ==
  /\ handler = "sending"
  /\ \/ /\ stoppedClosed /\ Panic
     \/ /\ ~stoppedClosed /\ forwarder = On
        /\ handler' = "sent"
        /\ forwarder' = brk
        /\ UNCHANGED <<process, sessionVars, brk, bCtx, breakEach, stoppedClosed, shown, evalVars, requestVars>>

\* The Stopped event reaches the client.
ForwardStopped ==
  /\ forwarder \in Breaks
  /\ shown' = forwarder
  /\ forwarder' = On
  /\ UNCHANGED <<process, sessionVars, handler, brk, bCtx, breakEach, stoppedClosed, evalVars, requestVars>>

BreakSet_NoWaitBug ==
  /\ handler = "sent"
  /\ bCtx' = brk
  /\ handler' = "idle"
  /\ UNCHANGED <<process, sessionVars, brk, breakEach, forwarder, stoppedClosed, shown, evalVars, requestVars>>

\* d.bCtx = &bCtx, after the send.
BreakSet ==
  /\ handler = "sent"
  /\ bCtx' = brk
  /\ handler' = "waiting"
  /\ UNCHANGED <<process, sessionVars, brk, breakEach, forwarder, stoppedClosed, shown, evalVars, requestVars>>

-----------------------------------------------------------------------------
(* onContinueRequest, onNextRequest *)

ResumeAnswer(c) ==
  /\ resume[c].at = "requested"
  /\ resume' = [resume EXCEPT ![c].at = "answered"]
  /\ UNCHANGED <<process, sessionVars, stopVars, evalVars, trace, disconnect, debuggerNil>>

ResumeCheck_StickyBug(c) ==
  /\ resume[c].at = "answered"
  /\ resume' = [resume EXCEPT ![c].at = IF bCtx = 0 THEN "dropped" ELSE "sending"]
  /\ breakEach' = (breakEach \/ resume[c].kind = "next")
  /\ UNCHANGED <<process, sessionVars, handler, brk, bCtx, forwarder, stoppedClosed,
                 shown, evalVars, trace, disconnect, debuggerNil>>

\* doContinue, doNext: without a break context only a warning is logged.
ResumeCheck(c) ==
  /\ resume[c].at = "answered"
  /\ \/ /\ debuggerNil /\ Panic
     \/ /\ ~debuggerNil
        /\ resume' = [resume EXCEPT ![c].at = IF bCtx = 0 THEN "dropped" ELSE "sending"]
        /\ breakEach' = IF bCtx = 0 THEN breakEach ELSE resume[c].kind = "next"
        /\ UNCHANGED <<process, sessionVars, handler, brk, bCtx, forwarder, stoppedClosed,
                       shown, evalVars, trace, disconnect, debuggerNil>>

\* d.mesCh <- and <-d.mesCh meet; breakHandler returns.
ResumeMeets(c) ==
  /\ resume[c].at = "sending" /\ handler = "waiting"
  /\ resume' = [resume EXCEPT ![c].at = "done"]
  /\ handler' = "idle"
  /\ lastResume' = resume[c].kind
  /\ UNCHANGED <<process, launch, doneCh, cancelled, debug, brk, bCtx, breakEach, forwarder,
                 stoppedClosed, shown, evalVars, trace, disconnect, debuggerNil>>

-----------------------------------------------------------------------------
(* onStackTraceRequest, onEvaluateRequest *)

StackTrace ==
  /\ trace.at = "requested"
  /\ \/ /\ debuggerNil /\ Panic
     \/ /\ ~debuggerNil
        /\ trace' = [trace EXCEPT !.at = "answered", !.saw = bCtx]
        /\ UNCHANGED <<process, sessionVars, stopVars, evalVars, resume, disconnect, debuggerNil>>

\* "no breakpoint available", or ExecContainer fails and has cleaned up.
EvaluateFails ==
  /\ eval = "requested"
  /\ eval' = "none"
  /\ UNCHANGED <<process, sessionVars, stopVars, container, task, tasksCancelled, requestVars>>

\* ExecContainer creates and starts the container.
EvaluateStarts ==
  /\ eval = "requested"
  /\ \/ /\ debuggerNil /\ Panic
     \/ /\ ~debuggerNil /\ bCtx # 0
        /\ eval' = "starting" /\ container' = TRUE
        /\ UNCHANGED <<process, sessionVars, stopVars, task, tasksCancelled, requestVars>>

\* s.eg.Go; then the response.
EvaluateAnswer ==
  /\ eval = "starting"
  /\ eval' = "answered" /\ task' = "running"
  /\ UNCHANGED <<process, sessionVars, stopVars, container, tasksCancelled, requestVars>>

\* The container's process ends, or s.ctx is cancelled: the clean-ups run.
TaskEnds ==
  /\ task = "running"
  /\ task' = "ended" /\ container' = FALSE
  /\ UNCHANGED <<process, sessionVars, stopVars, eval, tasksCancelled, requestVars>>

-----------------------------------------------------------------------------
(* onDisconnectRequest *)

\* The request arrives; s.cancel().
DisconnectBegin ==
  /\ MaySend
  /\ disconnect' = "cancelled" /\ tasksCancelled' = TRUE
  /\ UNCHANGED <<process, sessionVars, stopVars, eval, container, task, resume, trace, debuggerNil>>

\* s.eg.Wait().
DisconnectWait ==
  /\ disconnect = "cancelled" /\ task # "running"
  /\ disconnect' = "waited"
  /\ UNCHANGED <<process, sessionVars, stopVars, evalVars, resume, trace, debuggerNil>>

\* close(d.stoppedCh); a breakHandler blocked in its send panics.
DisconnectClose ==
  /\ disconnect = "waited"
  /\ \/ /\ handler = "sending" /\ Panic
     \/ /\ handler # "sending"
        /\ stoppedClosed' = TRUE
        /\ disconnect' = IF doneCh = "unset" THEN "joined" ELSE "closed"
        /\ UNCHANGED <<process, sessionVars, handler, brk, bCtx, breakEach, forwarder, shown,
                       evalVars, resume, trace, debuggerNil>>

DisconnectCancel_NoCancelBug ==
  /\ disconnect = "closed"
  /\ disconnect' = "joining"
  /\ UNCHANGED <<process, sessionVars, stopVars, evalVars, resume, trace, debuggerNil>>

\* debugCancel: cancel(), ...
DisconnectCancel ==
  /\ disconnect = "closed"
  /\ cancelled' = TRUE /\ disconnect' = "joining"
  /\ UNCHANGED <<process, launch, doneCh, debug, lastResume, stopVars, evalVars, resume, trace, debuggerNil>>

DisconnectJoin_NoWaitBug ==
  /\ disconnect = "joining"
  /\ disconnect' = "joined"
  /\ UNCHANGED <<process, sessionVars, stopVars, evalVars, resume, trace, debuggerNil>>

\* ... <-doneCh.
DisconnectJoin ==
  /\ disconnect = "joining" /\ doneCh = "closed"
  /\ disconnect' = "joined"
  /\ UNCHANGED <<process, sessionVars, stopVars, evalVars, resume, trace, debuggerNil>>

\* s.debugger = nil and the DisconnectResponse.
DisconnectAnswer ==
  /\ disconnect = "joined"
  /\ disconnect' = "answered" /\ debuggerNil' = TRUE
  /\ UNCHANGED <<process, sessionVars, stopVars, evalVars, resume, trace>>

Exit ==
  /\ disconnect = "answered"
  /\ process' = "exited"
  /\ UNCHANGED <<sessionVars, stopVars, evalVars, requestVars>>

-----------------------------------------------------------------------------
(* Serve *)

HangUp ==
  /\ conn = "open"
  /\ conn' = "eof"
  /\ UNCHANGED <<process, sessionVars, stopVars, evalVars, requestVars>>

\* Any other read error: Serve and main return at once.
ReadFails ==
  /\ conn = "open"
  /\ process' = "returned"
  /\ UNCHANGED <<sessionVars, stopVars, evalVars, requestVars>>

HandlersReturned ==
  /\ launch \in {"none", "answered"}
  /\ \A c \in Resumes : resume[c].at \in {"none", "done", "dropped"}
  /\ trace.at # "requested"
  /\ eval \notin {"requested", "starting"}
  /\ disconnect = "none"

\* At the end of the input Serve waits for the handlers of requests; then main
\* returns.  Debug, breakHandler and the containers are not waited for.
ServeReturns ==
  /\ conn = "eof" /\ HandlersReturned
  /\ process' = "returned"
  /\ UNCHANGED <<sessionVars, stopVars, evalVars, requestVars>>

-----------------------------------------------------------------------------
ClientSends ==
  \/ SendLaunch \/ SendStackTrace \/ SendExec \/ DisconnectBegin
  \/ \E c \in Resumes, kind \in {"continue", "next"} : SendResume(c, kind)

LaunchStep == LaunchBegin \/ LaunchFails \/ \E b \in BOOLEAN : LaunchStarts(b)

ForwarderStep == ForwarderStarts \/ ForwardStopped

HandlerStep == BreakSend \/ BreakSet

ResumeStep(c) == ResumeAnswer(c) \/ ResumeCheck(c) \/ ResumeMeets(c)

EvaluateStep == EvaluateFails \/ EvaluateStarts \/ EvaluateAnswer

DisconnectStep ==
  \/ DisconnectWait \/ DisconnectClose \/ DisconnectCancel
  \/ DisconnectJoin \/ DisconnectAnswer \/ Exit

Up(A) == process = "up" /\ A /\ UNCHANGED <<client, conn>>

Step ==
  \/ ClientSends
  \/ LaunchStep \/ LaunchAnswer \/ DebugReturns \/ FinishHook
  \/ \E hit \in BOOLEAN : VertexBreaks(hit)
  \/ ForwarderStep \/ HandlerStep
  \/ \E c \in Resumes : ResumeStep(c)
  \/ StackTrace \/ EvaluateStep \/ TaskEnds
  \/ DisconnectStep
  \/ ServeReturns \/ ReadFails

Next ==
  \/ Up(Step)
  \/ process = "up" /\ HangUp /\ UNCHANGED client

Spec == Init /\ [][Next]_vars

\* Each goroutine goes on while it can.  Of Debug only what DebugSession
\* shows is assumed, that it returns when cancelled; of a container, that its
\* clean-ups run when s.ctx is cancelled (they have a timeout of 3 seconds).
\* The client need not send anything.
Fairness ==
  /\ WF_vars(Up(LaunchStep))
  /\ WF_vars(Up(LaunchAnswer))
  /\ WF_vars(Up(cancelled /\ DebugReturns))
  /\ WF_vars(Up(FinishHook))
  /\ WF_vars(Up(ForwarderStep))
  /\ WF_vars(Up(HandlerStep))
  /\ \A c \in Resumes : WF_vars(Up(ResumeStep(c)))
  /\ WF_vars(Up(StackTrace))
  /\ WF_vars(Up(EvaluateStep))
  /\ WF_vars(Up(tasksCancelled /\ TaskEnds))
  /\ WF_vars(Up(DisconnectStep))
  /\ WF_vars(Up(ServeReturns))

FairSpec == Spec /\ Fairness

-----------------------------------------------------------------------------
(* Properties.  Those that say ~Eager do not hold for an eager client.       *)

\* A client that was told to go away finds nothing left of the session: no debug
\* container, the build has returned, the root is unlocked or removed and the
\* ExitedEvent is out before the DisconnectResponse (dap.go:341-352, 735-761,
\* debugger.go:60-66).
NothingLeftWhenAnswered ==
  ~Eager /\ disconnect = "answered" =>
    /\ ~container
    /\ launch \in {"started", "answered"} => debug = "exited"

\* What releases a break is the request the client sent when it was shown
\* that break, never an older one (debugger.go:168-184, 207-209).
ResumesItsBreak ==
  [][\A c \in Resumes :
       ~Eager /\ resume[c].at = "sending" /\ resume'[c].at = "done" => resume[c].for = brk]_vars

\* After a continue the build breaks only at a breakpoint: between the request
\* and the next break stepping is off (debugger.go:170, 179).
ContinueStopsStepping ==
  [][~Eager /\ handler = "waiting" /\ handler' = "idle" => breakEach = (lastResume' = "next")]_vars

\* A disconnect always ends the process, whatever the build, the handler or a
\* container is doing (dap.go:335-354).
DisconnectEnds == disconnect # "none" ~> process # "up"

\* The server does not outlive its connection: no request handler keeps Serve
\* waiting, a continue or next of any stop included (dap.go:60-74,
\* debugger.go:168-184).
EndOfConnectionEnds == ~Eager /\ conn # "open" ~> process # "up"

-----------------------------------------------------------------------------
(* Statements of the repository that the code does not keep *)

\* A stack trace asked for at a stop is that of the stop
\* (dap_test.go:1134-1150, testCurrentLine).
StackTraceOfTheStop == trace.at = "answered" => trace.saw = trace.for

\* A disconnect of a launched session ends with the exited event and a
\* DisconnectResponse (dap_test.go:1041-1057).
DisconnectAnswered ==
  conn = "open" /\ launch = "answered" =>
    process # "panicked" /\ (process = "exited" => disconnect = "answered")

\* A disconnect waits for the cleanup of every debug container: "let disconnect
\* API to wait for the cleanup of container processes" (dap.go:736).
DisconnectWaitsForContainers == disconnect = "answered" => ~container
=============================================================================
