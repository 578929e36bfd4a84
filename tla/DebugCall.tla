------------------------------ MODULE DebugCall ------------------------------
(***************************************************************************)
(* pkg/buildkit/client.go, Debug and newClient around the session: a       *)
(* goroutine makes the in-process server and its client while Debug waits  *)
(* 3 seconds at most; then the session runs (DebugSession); then Debug     *)
(* prunes the cache if asked to, stops the server and returns.             *)
(*                                                                         *)
(* Client and server talk over pipeListener.  gRPC is outside src/: it     *)
(* calls dial from client.New on, Serve accepts until the listener is      *)
(* closed, and GracefulStop closes the listener, then waits for Serve.     *)
(* The first call of c.Build waits for the connection.  The databases      *)
(* newClient opens may be locked by another session on the same root.      *)
(*                                                                         *)
(* The variables are declared in DebugSession, which leaves them alone:    *)
(*   phase     of Debug: "starting", "debugging", "returned"               *)
(*   returned  what Debug returned, or "none"                              *)
(*   maker     newClient's goroutine: "opening", "connecting" (client.New),*)
(*             "failed" (offers its error), "made", "ended"                *)
(*   server    "none", "serving", "stopped" (GracefulStop was called)      *)
(*   accept    Serve: "none", "select" (in Accept), "ended"                *)
(*   dial      the connection: "none", "select" (in dial), "up", "refused" *)
(*   done      pipeListener.done is closed                                 *)
(***************************************************************************)
EXTENDS DebugSession

inSession == <<controllerVars, sessionVars>>

CallInit ==
  /\ C!Init
  /\ attempt = 1
  /\ goroutine = [a \in Attempts |-> "none"]
  /\ watcher = [a \in Attempts |-> "none"]
  /\ build = [a \in Attempts |-> "none"]
  /\ solving = {}
  /\ buildErr = [a \in Attempts |-> NoErr]
  /\ egErr = [a \in Attempts |-> NoErr]
  /\ interrupted = FALSE
  /\ outcome = "running"
  /\ phase = "starting" /\ returned = "none"
  /\ maker = "opening" /\ server = "none"
  /\ accept = "none" /\ dial = "none" /\ done = FALSE

-----------------------------------------------------------------------------
(* newClient *)

\* The worker, the stores, the frontend and the controller are made; the
\* server serves before client.New is called.
Serve ==
  /\ maker = "opening"
  /\ maker' = "connecting" /\ server' = "serving"
  /\ UNCHANGED <<inSession, phase, returned, accept, dial, done>>

ClientMade ==
  /\ maker = "connecting"
  /\ maker' = "made"
  /\ UNCHANGED <<inSession, phase, returned, server, accept, dial, done>>

OpeningFails ==
  /\ maker = "opening"
  /\ maker' = "failed"
  /\ UNCHANGED <<inSession, phase, returned, server, accept, dial, done>>

Close_NoDoneBug == done' = done

\* pipeListener.Close: closed and done change under closedMu.
Close == done' = TRUE

ConnectingFails_KeepServerBug ==
  /\ maker = "connecting"
  /\ maker' = "failed"
  /\ UNCHANGED <<inSession, phase, returned, server, accept, dial, done>>

\* The deferred done() stops the server.
ConnectingFails ==
  /\ maker = "connecting"
  /\ maker' = "failed" /\ server' = "stopped"
  /\ Close
  /\ UNCHANGED <<inSession, phase, returned, accept, dial>>

-----------------------------------------------------------------------------
(* pipeListener *)

\* Accept returns an error once done is closed, and Serve ends.
Accept ==
  /\ server # "none"
  /\ \/ accept = "none" /\ accept' = IF done THEN "ended" ELSE "select"
     \/ accept = "select" /\ done /\ accept' = "ended"
  /\ UNCHANGED <<inSession, phase, returned, maker, server, dial, done>>

Dial ==
  /\ server # "none"
  /\ \/ dial = "none" /\ dial' = IF done THEN "refused" ELSE "select"
     \/ dial = "select" /\ done /\ dial' = "refused"
  /\ UNCHANGED <<inSession, phase, returned, maker, server, accept, done>>

\* l.ch <- c1 meets <-l.ch, even if done was closed meanwhile; Serve calls Accept
\* again.
Connect ==
  /\ accept = "select" /\ dial = "select"
  /\ dial' = "up"
  /\ UNCHANGED <<inSession, phase, returned, maker, server, accept, done>>

-----------------------------------------------------------------------------
(* Debug *)

\* createdCh is closed.
Created ==
  /\ phase = "starting" /\ maker = "made"
  /\ phase' = "debugging"
  /\ UNCHANGED <<inSession, returned, maker, server, accept, dial, done>>

StartDebug ==
  /\ phase = "debugging" /\ dial = "up" /\ build[1] = "none"
  /\ build' = [build EXCEPT ![1] = "connecting"]
  /\ watcher' = [watcher EXCEPT ![1] = "select"]
  /\ UNCHANGED <<controllerVars, attempt, goroutine, solving, buildErr, egErr, interrupted,
                 outcome, startVars>>

ReturnsWith(e) ==
  /\ phase' = "returned" /\ returned' = e
  /\ UNCHANGED <<inSession, server, accept, dial, done>>

StartFails ==
  /\ phase = "starting" /\ maker = "failed"
  /\ maker' = "ended"
  /\ ReturnsWith("startError")

\* The context is done or the 3 seconds are over (select takes any case that is
\* ready): the goroutine goes on, nobody reads its errCh or closes its client.
GiveUpStarting(e) ==
  /\ phase = "starting"
  /\ e = "cancelled" => interrupted
  /\ ReturnsWith(e)
  /\ UNCHANGED maker

\* debug() has returned; the cache is pruned if CleanupAll asks for it, with
\* context.TODO, so that an interrupt does not stop that; doneController.
GracefulStop ==
  /\ phase = "debugging" /\ outcome # "running" /\ server = "serving"
  /\ server' = "stopped"
  /\ Close
  /\ UNCHANGED <<inSession, phase, returned, maker, accept, dial>>

DebugReturns ==
  /\ phase = "debugging" /\ server = "stopped" /\ accept = "ended"
  /\ ReturnsWith(outcome)
  /\ UNCHANGED maker

-----------------------------------------------------------------------------
CallStep ==
  \/ ClientMade \/ Accept \/ Dial \/ Connect \/ Created \/ StartDebug \/ StartFails
  \/ GracefulStop \/ DebugReturns

CallNext ==
  \/ Next
  \/ CallStep
  \/ Serve \/ OpeningFails \/ ConnectingFails
  \/ GiveUpStarting("timeout") \/ GiveUpStarting("cancelled")

CallSpec == CallInit /\ [][CallNext]_vars

\* DebugSession's, and Debug's goroutines go on, and BuildKit prunes and stops in
\* the end.  newClient need not get past the databases; then the timeout does.
CallFairSpec ==
  /\ CallSpec
  /\ Fairness
  /\ WF_vars(CallStep)
  /\ WF_vars(GiveUpStarting("timeout"))

-----------------------------------------------------------------------------
(* Properties *)

\* Debug stops the server it started, after the session and before it returns,
\* whatever failed; only a call that gave up while it waited for newClient leaves
\* one behind (client.go:85-95, 256-260).
ServerIsStopped ==
  /\ returned # "none" /\ server = "serving" => build[1] = "none" /\ maker # "ended"
  /\ server = "stopped" /\ build[1] # "none" => outcome # "running"

\* An interrupted call returns, whether it waits for the databases, the prompt or
\* the server, and even if no one answers (client.go:85-95, 140-150,
\* handler.go:35-38).
InterruptReturns == interrupted ~> returned # "none"

\* If every prompt is answered, Debug returns: no step, handler, build, watcher,
\* listener or start-up waits on the others for ever (client.go:72-113, 137-168,
\* 402-435).
DebugEnds == Answers => <>(returned # "none")
=============================================================================
