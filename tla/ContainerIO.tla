----------------------------- MODULE ContainerIO -----------------------------
(***************************************************************************)
(* ContainerExec with what the container is made of (ContainerMounts) and, *)
(* under the dap server, with the client of the container (pkg/dap/io.go,  *)
(* AttachContainerIO): another process, started in a terminal of the       *)
(* editor once the evaluate request is answered.  It opens the three fifos *)
(* of the container's state directory one after the other, each open       *)
(* waiting for the server's end, and then copies until the fifos end.  The *)
(* server forwards the signals it posts while signalForwarder has a        *)
(* process, which a goroutine sets and clears.                             *)
(*                                                                         *)
(* The library that opens fifos is outside src/: an open fails if the      *)
(* directory is gone, and may succeed or wait while the server closes.     *)
(***************************************************************************)
EXTENDS ContainerExec, ContainerMounts

CONSTANT Requests    \* what execs ask for, [step, initState, image]

ASSUME RequestsAssumption ==
  Requests # {} /\ Requests \subseteq [step : Steps, initState : BOOLEAN, image : BOOLEAN]

Execs == 1..MaxExecs
Fifos == {"stdin", "stdout", "stderr"}

VARIABLES
  request,         \* of the exec in hand
  dirs, fifos,     \* dap execs whose state directory, whose server ends exist
  client,          \* per exec: "none", "asked", the fifo it opens, "attached", "ended", "failed"
  forwarder        \* per exec: "none", "starting", "watching": signalForwarder.proc

clientVars == <<dirs, fifos, client, forwarder>>
ioVars == <<vars, request, clientVars>>

IOInit ==
  /\ Init
  /\ request = CHOOSE q \in Requests : TRUE
  /\ dirs = {} /\ fifos = {}
  /\ client = [e \in Execs |-> "none"]
  /\ forwarder = [e \in Execs |-> "none"]

InDap == frontend = "dap"

-----------------------------------------------------------------------------
(* The server's side *)

BeginExec ==
  /\ Begin
  /\ request' \in Requests
  /\ UNCHANGED clientVars

\* A step that is not a RUN and has no single result stops before the container.
SetUpIO ==
  /\ SetUp
  /\ LET next == Order[Len(held) + 1] IN
       /\ next = "ctr" => ~Refused(request.step, request.initState)
       /\ dirs' = IF next = "state" THEN dirs \cup {execs} ELSE dirs
       /\ fifos' = IF next = "io" THEN fifos \cup {execs} ELSE fifos
       /\ forwarder' = IF InDap /\ next = "watch"
                       THEN [forwarder EXCEPT ![execs] = "starting"] ELSE forwarder
  /\ UNCHANGED <<request, client>>

\* The answer to evaluate asks the editor to run the client.
RunIO ==
  /\ Run
  /\ client' = IF InDap THEN [client EXCEPT ![execs] = "asked"] ELSE client
  /\ UNCHANGED <<request, dirs, fifos, forwarder>>

TakeDownIO_KeepFifosBug ==
  /\ TakeDown
  /\ dirs' = IF Last(held) = "state" THEN dirs \ {execs} ELSE dirs
  /\ UNCHANGED <<request, fifos, client, forwarder>>

\* serveContainerIO's done closes the server's ends; then the directory goes.
TakeDownIO ==
  /\ TakeDown
  /\ dirs' = IF Last(held) = "state" THEN dirs \ {execs} ELSE dirs
  /\ fifos' = IF Last(held) = "io" THEN fifos \ {execs} ELSE fifos
  /\ UNCHANGED <<request, client, forwarder>>

Other ==
  /\ SetUpFails \/ Stop \/ Return \/ ProcEnds \/ Shutdown \/ Interrupt \/ SignalStep
  /\ UNCHANGED <<request, clientVars>>

\* ioCtx: cancelled once the watch of e is taken down.
Watched(e) == e = execs /\ "watch" \in Range(held)

\* The goroutine of watchSignal may begin after its context was cancelled.
ForwarderWatches(e) ==
  /\ forwarder[e] = "starting"
  /\ forwarder' = [forwarder EXCEPT ![e] = "watching"]
  /\ UNCHANGED <<vars, request, dirs, fifos, client>>

ForwarderEnds(e) ==
  /\ forwarder[e] = "watching" /\ ~Watched(e)
  /\ forwarder' = [forwarder EXCEPT ![e] = "none"]
  /\ UNCHANGED <<vars, request, dirs, fifos, client>>

-----------------------------------------------------------------------------
(* AttachContainerIO *)

ClientGoes(e, to) ==
  /\ client' = [client EXCEPT ![e] = to]
  /\ UNCHANGED <<vars, request, dirs, fifos, forwarder>>

\* The editor runs the client, or never does.
Attach(e) == client[e] = "asked" /\ ClientGoes(e, "stdin")

\* openFifosClient
AfterFifo(f) ==
  CASE f = "stdin" -> "stdout" [] f = "stdout" -> "stderr" [] f = "stderr" -> "attached"

OpenFifo(e) ==
  /\ client[e] \in Fifos /\ e \in dirs
  /\ ClientGoes(e, AfterFifo(client[e]))

OpenFails(e) == client[e] \in Fifos /\ e \notin dirs /\ ClientGoes(e, "failed")

\* "i/o timeout" after 3 seconds.
OpenTimesOut(e) == client[e] \in Fifos /\ ClientGoes(e, "failed")

\* stdout and stderr have ended.
ClientFinishes(e) == client[e] = "attached" /\ e \notin fifos /\ ClientGoes(e, "ended")

\* Raw mode cannot be set, or copying fails.
ClientFails(e) == client[e] = "attached" /\ ClientGoes(e, "failed")

ClientStep(e) ==
  OpenFifo(e) \/ OpenFails(e) \/ OpenTimesOut(e) \/ ClientFinishes(e) \/ ClientFails(e)

ForwarderStep(e) == ForwarderWatches(e) \/ ForwarderEnds(e)

-----------------------------------------------------------------------------
ServerNext == (BeginExec \/ SetUpIO \/ RunIO \/ TakeDownIO \/ Other) /\ UNCHANGED frontend

ExecGoesOn == ServerNext /\ ExecStep

IONext == ServerNext \/ \E e \in Execs : Attach(e) \/ ClientStep(e) \/ ForwarderStep(e)

IOSpec == IOInit /\ [][IONext]_ioVars

\* The command, the goroutine of signals, the client and the forwarder go on
\* while they can.  A container need not end by itself, the editor need not run
\* the client, and copying need not fail.
IOFairSpec ==
  /\ IOSpec
  /\ WF_ioVars(ExecGoesOn)
  /\ WF_ioVars(ServerNext /\ SignalStep)
  /\ \A e \in Execs :
       /\ WF_ioVars(OpenFifo(e) \/ OpenFails(e) \/ OpenTimesOut(e))
       /\ WF_ioVars(ClientFinishes(e))
       /\ WF_ioVars(ForwarderStep(e))

-----------------------------------------------------------------------------
(* Properties *)

\* The container that runs has what the step had mounted, at the step's places
\* (controller.go:326-356, pkg/buildkit/exec.go:31-46, 63-113).
RunsOnTheStep ==
  "ctr" \in Range(held) => MountedAsBuilt(request.step, request.initState, request.image)

\* Whatever moment the container ends at (while its client is not yet started,
\* between two fifos, or while it copies), neither the client nor the goroutine
\* that watches for signals outlives it (io.go:50-57, 98-106, 127-137, 218-230).
ClientEnds ==
  \A e \in Execs :
    (e < execs \/ pc = "idle") /\ (client[e] \in Fifos \cup {"attached"} \/ forwarder[e] # "none")
      ~> client[e] \notin Fifos \cup {"attached"} /\ forwarder[e] = "none"
=============================================================================
