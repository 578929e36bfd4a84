--------------------------- MODULE ContainerExec ---------------------------
(***************************************************************************)
(* Running a debug container: buildkit.ExecContainer (pkg/buildkit/exec.go) *)
(* inside the exec command of the shell (exec.go) or of the dap server     *)
(* (pkg/dap/dap.go).  What is set up on the way is a stack: a step that    *)
(* fails, and the end of the container, take it down in reverse.           *)
(*                                                                         *)
(* The shell's exec also switches off the handler of interrupts            *)
(* (main.go, signalHandler), whose goroutine reads a signal, then looks at *)
(* enabled, then cancels the session.                                      *)
(***************************************************************************)
EXTENDS Naturals, SequencesExt

CONSTANTS
  Frontends,       \* whose exec: "shell", "dap"
  Tty,             \* the container has a terminal
  MaxExecs,        \* bound: execs
  MaxInterrupts    \* bound: interrupts

ASSUME ExecAssumption ==
  /\ Frontends \subseteq {"shell", "dap"}
  /\ Tty \in BOOLEAN
  /\ {MaxExecs, MaxInterrupts} \subseteq Nat

VARIABLES
  frontend,        \* never changes
  pc,              \* "idle", "setup", "running", "teardown"
  held,            \* stack of what was set up
  proc,            \* the container's process: "none", "running", "ended"
  execs,
  shutdown,        \* s.ctx is cancelled (dap)
  enabled,         \* signalHandler.enabled
  signal,          \* interrupt in the handler's channel: "none", "idle" or "exec" by when it came
  catching,        \* interrupt the goroutine has read: the same values
  checked,         \* ... and found enabled
  interrupts,
  cancelled        \* history: which interrupts have cancelled the session

vars == <<frontend, pc, held, proc, execs, shutdown, enabled, signal, catching, checked, interrupts, cancelled>>
execVars == <<pc, held, proc, execs>>
signalVars == <<signal, catching, checked, interrupts, cancelled>>

\* What is set up, in this order; "ctr" and "proc" are the two calls of the
\* gateway, and only "proc" pushes no clean-up of its own.
Order ==
  IF frontend = "dap" THEN <<"state", "io", "ctr", "proc", "watch">>
  ELSE IF Tty THEN <<"stdin", "signals", "ctr", "proc", "raw", "watch">>
  ELSE <<"stdin", "signals", "ctr", "proc", "watch">>

When == {"none", "idle", "exec"}

TypeOK ==
  /\ frontend \in Frontends
  /\ pc \in {"idle", "setup", "running", "teardown"}
  /\ held \in Seq(Range(Order))
  /\ proc \in {"none", "running", "ended"}
  /\ execs \in 0..MaxExecs /\ interrupts \in 0..MaxInterrupts
  /\ {shutdown, enabled, checked} \subseteq BOOLEAN
  /\ {signal, catching} \subseteq When
  /\ cancelled \subseteq When

Init ==
  /\ frontend \in Frontends
  /\ pc = "idle" /\ held = <<>> /\ proc = "none" /\ execs = 0
  /\ shutdown = FALSE /\ enabled = TRUE
  /\ signal = "none" /\ catching = "none" /\ checked = FALSE
  /\ interrupts = 0 /\ cancelled = {}

-----------------------------------------------------------------------------
(* execCommand and ExecContainer *)

Begin ==
  /\ pc = "idle" /\ execs < MaxExecs
  /\ pc' = "setup" /\ execs' = execs + 1
  /\ UNCHANGED <<held, proc, shutdown, enabled, signalVars>>

\* The next of use, disable, NewContainer, Start, SetRaw and WatchSignal.
SetUp ==
  /\ pc = "setup" /\ Len(held) < Len(Order)
  /\ LET step == Order[Len(held) + 1] IN
       /\ held' = Append(held, step)
       /\ enabled' = (enabled /\ step # "signals")
       /\ proc' = IF step = "proc" THEN "running" ELSE proc
  /\ UNCHANGED <<pc, execs, shutdown, signalVars>>

SetUpFails_ForgetBug ==
  /\ pc = "setup" /\ Len(held) < Len(Order)
  /\ pc' = "idle" /\ proc' = "none"
  /\ UNCHANGED <<held, execs, shutdown, enabled, signalVars>>

\* Any of them fails, or the operation has no single rootfs to run in:
\* the deferred functions take down what there is.
SetUpFails ==
  /\ pc = "setup" /\ Len(held) < Len(Order)
  /\ pc' = "teardown"
  /\ UNCHANGED <<held, proc, execs, shutdown, enabled, signalVars>>

Run ==
  /\ pc = "setup" /\ held = Order
  /\ pc' = "running"
  /\ UNCHANGED <<held, proc, execs, shutdown, enabled, signalVars>>

ProcEnds ==
  /\ proc = "running"
  /\ proc' = "ended"
  /\ UNCHANGED <<pc, held, execs, shutdown, enabled, signalVars>>

Stop_IgnoreShutdownBug ==
  /\ pc = "running" /\ proc = "ended"
  /\ pc' = "teardown"
  /\ UNCHANGED <<held, proc, execs, shutdown, enabled, signalVars>>

\* The process has ended, or the dap server is disconnected.  (The shell's
\* context is never cancelled: the handler runs with context.Background.)
Stop ==
  /\ pc = "running"
  /\ proc = "ended" \/ shutdown
  /\ pc' = "teardown"
  /\ UNCHANGED <<held, proc, execs, shutdown, enabled, signalVars>>

TakeDown_StayOffBug ==
  /\ pc = "teardown" /\ held # <<>>
  /\ held' = Front(held)
  /\ proc' = IF Last(held) = "ctr" /\ proc = "running" THEN "ended" ELSE proc
  /\ UNCHANGED <<pc, execs, shutdown, enabled, signalVars>>

\* The last clean-up; releasing the container ends its process.
TakeDown ==
  /\ pc = "teardown" /\ held # <<>>
  /\ held' = Front(held)
  /\ enabled' = (enabled \/ Last(held) = "signals")
  /\ proc' = IF Last(held) = "ctr" /\ proc = "running" THEN "ended" ELSE proc
  /\ UNCHANGED <<pc, execs, shutdown, signalVars>>

\* The command returns; the dap task waits 3 seconds at most for the process.
Return ==
  /\ pc = "teardown" /\ held = <<>>
  /\ pc' = "idle" /\ proc' = "none"
  /\ UNCHANGED <<held, execs, shutdown, enabled, signalVars>>

Shutdown ==
  /\ frontend = "dap" /\ ~shutdown
  /\ shutdown' = TRUE
  /\ UNCHANGED <<execVars, enabled, signalVars>>

-----------------------------------------------------------------------------
(* signalHandler.start *)

\* signal.Notify drops what its channel, of capacity 1, cannot take.
Interrupt ==
  /\ frontend = "shell" /\ interrupts < MaxInterrupts
  /\ interrupts' = interrupts + 1
  /\ signal' = IF signal # "none" THEN signal
               ELSE IF pc = "running" THEN "exec" ELSE "idle"
  /\ UNCHANGED <<execVars, shutdown, enabled, catching, checked, cancelled>>

Catch ==
  /\ signal # "none" /\ catching = "none"
  /\ catching' = signal /\ signal' = "none"
  /\ UNCHANGED <<execVars, shutdown, enabled, checked, interrupts, cancelled>>

Check ==
  /\ catching # "none" /\ ~checked
  /\ checked' = enabled
  /\ catching' = IF enabled THEN catching ELSE "none"
  /\ UNCHANGED <<execVars, shutdown, enabled, signal, interrupts, cancelled>>

CancelSession ==
  /\ checked
  /\ cancelled' = cancelled \cup {catching}
  /\ catching' = "none" /\ checked' = FALSE
  /\ UNCHANGED <<execVars, shutdown, enabled, signal, interrupts>>

-----------------------------------------------------------------------------
ExecStep == SetUp \/ SetUpFails \/ Run \/ Stop \/ TakeDown \/ Return

SignalStep == Catch \/ Check \/ CancelSession

Next ==
  /\ Begin \/ ExecStep \/ ProcEnds \/ Shutdown \/ Interrupt \/ SignalStep
  /\ UNCHANGED frontend

Spec == Init /\ [][Next]_vars

-----------------------------------------------------------------------------
(* Properties *)

\* Whatever failed on the way, nothing is left of an exec that is over, and
\* interrupts are handled again (pkg/buildkit/exec.go:48-55, exec.go:74-97).
NothingLeaks == pc = "idle" => held = <<>> /\ enabled

\* Clean-ups run in reverse: the terminal is reset and signals are no longer
\* forwarded when the container is released, and stdin is given back last
\* (pkg/buildkit/exec.go:50-54, 153-158).
TakenDownInReverse == IsPrefix(held, Order)

\* A disconnect ends every container, whatever its process does
\* (dap.go:735-761).
ShutdownEnds == shutdown ~> pc = "idle"

\* An interrupt outside of an exec reaches the session, unless an exec begins
\* before the handler looks (main.go:806-822).
InterruptHandled ==
  signal = "idle" /\ pc = "idle" ~> "idle" \in cancelled \/ pc # "idle"
=============================================================================
