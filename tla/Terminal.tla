------------------------------ MODULE Terminal ------------------------------
(***************************************************************************)
(* What the person at the terminal of "buildg debug" sees: the progress    *)
(* output of the build, which main.go holds back while a break handler has *)
(* the terminal, the prompts and containers that share standard input      *)
(* (SharedReader), and the log command, which reads the log file while the *)
(* build may still be writing to it.  One Write is one line, numbered in   *)
(* the order in which progressWriter's mutex was taken.                    *)
(***************************************************************************)
EXTENDS SharedReader, Sequences

CONSTANTS
  MaxLines,        \* bound: lines the build writes
  LogSizes         \* the n of log -n (0 or less prints nothing)

ASSUME TerminalAssumption == MaxLines \in Nat /\ LogSizes \subseteq Nat \ {0}

VARIABLES
  written,         \* lines written; the log file is 1, ..., written
  enabled, buf,    \* of progressWriter: the lines held back
  screen,          \* the build's lines that are on the terminal
  handler,         \* "running", "break" (in breakHandler), "logging"
  ring,            \* log -n: its buffer, cursor and count
  printed          \* what the last log command of this break printed

terminalVars == <<written, enabled, buf, screen, handler, ring, printed>>
allVars == <<vars, terminalVars>>

NoRing == [n |-> 1, buf |-> <<0>>, cur |-> 1, total |-> 0, opened |-> 0]
File(k) == [i \in 1..k |-> i]

TerminalInit ==
  /\ Init
  /\ written = 0 /\ enabled = TRUE /\ buf = <<>> /\ screen = <<>>
  /\ handler = "running" /\ ring = NoRing /\ printed = <<>>

-----------------------------------------------------------------------------
(* progressWriter *)

Write_BypassBug ==
  /\ written < MaxLines
  /\ written' = written + 1
  /\ IF enabled \/ buf = <<>>
     THEN screen' = Append(screen, written') /\ buf' = buf
     ELSE buf' = Append(buf, written') /\ screen' = screen
  /\ UNCHANGED <<vars, enabled, handler, ring, printed>>

\* To the log file, and to the terminal or the buffer.
Write ==
  /\ written < MaxLines
  /\ written' = written + 1
  /\ IF enabled
     THEN screen' = Append(screen, written') /\ buf' = buf
     ELSE buf' = Append(buf, written') /\ screen' = screen
  /\ UNCHANGED <<vars, enabled, handler, ring, printed>>

\* disable, when a step breaks.
Break ==
  /\ handler = "running"
  /\ handler' = "break" /\ enabled' = FALSE
  /\ UNCHANGED <<vars, written, buf, screen, ring, printed>>

Resume_KeepBug ==
  /\ handler = "break" /\ useMu = None
  /\ handler' = "running" /\ enabled' = TRUE
  /\ screen' = screen \o buf
  /\ printed' = <<>>
  /\ UNCHANGED <<vars, written, buf, ring>>

\* breakHandler returns; enable prints what was held back.
Resume ==
  /\ handler = "break" /\ useMu = None
  /\ handler' = "running" /\ enabled' = TRUE
  /\ screen' = screen \o buf /\ buf' = <<>>
  /\ printed' = <<>>
  /\ UNCHANGED <<vars, written, ring>>

-----------------------------------------------------------------------------
(* log *)

\* log --more: a copy of the buffer, which stays.
LogMore ==
  /\ handler = "break" /\ useMu = None
  /\ printed' = buf
  /\ UNCHANGED <<vars, written, enabled, buf, screen, handler, ring>>

OpenLog(n) ==
  /\ handler = "break" /\ useMu = None
  /\ handler' = "logging"
  /\ ring' = [n |-> n, buf |-> [i \in 1..n |-> 0], cur |-> 1, total |-> 0, opened |-> written]
  /\ UNCHANGED <<vars, written, enabled, buf, screen, printed>>

ScanLine_LateWrapBug ==
  /\ handler = "logging" /\ ring.total < written
  /\ ring' = [ring EXCEPT !.buf[ring.cur] = ring.total + 1,
                          !.cur = IF @ = ring.n THEN @ ELSE @ + 1, !.total = @ + 1]
  /\ UNCHANGED <<vars, written, enabled, buf, screen, handler, printed>>

Wrapped(i) == IF i >= ring.n THEN 1 ELSE i + 1

ScanLine ==
  /\ handler = "logging" /\ ring.total < written
  /\ ring' = [ring EXCEPT !.buf[ring.cur] = ring.total + 1,
                          !.cur = Wrapped(@), !.total = @ + 1]
  /\ UNCHANGED <<vars, written, enabled, buf, screen, handler, printed>>

\* The end of the file: the lines that are there, or n of them from the cursor.
PrintLog ==
  /\ handler = "logging" /\ ring.total = written
  /\ handler' = "break"
  /\ printed' = IF ring.total <= ring.n
                THEN SubSeq(ring.buf, 1, ring.total)
                ELSE [i \in 1..ring.n |-> ring.buf[((ring.cur + i - 2) % ring.n) + 1]]
  /\ ring' = NoRing
  /\ UNCHANGED <<vars, written, enabled, buf, screen>>

-----------------------------------------------------------------------------
\* readLine and the exec command are called by the break handler.
ReaderNext == Next /\ (useMu' # useMu => handler = "break") /\ UNCHANGED terminalVars

TerminalNext ==
  \/ ReaderNext
  \/ Write \/ Break \/ Resume
  \/ LogMore \/ \E n \in LogSizes : OpenLog(n)
  \/ ScanLine \/ PrintLog

TerminalSpec == TerminalInit /\ [][TerminalNext]_allVars

\* As SharedReader, and the log command goes on.
TerminalFairness ==
  /\ WF_allVars(ReaderStep /\ UNCHANGED terminalVars)
  /\ \A u \in Uses :
       WF_allVars((UserSeesEnd(u) \/ DoneClose(u) \/ DoneUnlock(u)) /\ UNCHANGED terminalVars)
  /\ WF_allVars(ScanLine) /\ WF_allVars(PrintLog)

TerminalFairSpec == TerminalSpec /\ TerminalFairness

-----------------------------------------------------------------------------
(* Properties *)

\* Every line of the build comes out once and in order, those written during a
\* prompt included: what is on the terminal and what is held back are the log
\* (main.go:741-786).
OutputOnceInOrder == screen \o buf = File(written)

\* The build never writes into a prompt or a container's session
\* (main.go:376-377, 781-784).
QuietPrompt == [][screen' # screen => useMu = None /\ useMu' = None]_allVars

\* log -n prints the last lines of the file as it was at some time since the
\* command began: all of them if there are fewer, and never one out of order or
\* twice, wherever the ring's cursor is (log.go:51-77).
LogPrintsTail ==
  [][handler = "logging" /\ handler' # "logging" =>
       \E k \in ring.opened..written :
         printed' = SubSeq(File(k), IF k > ring.n THEN k - ring.n + 1 ELSE 1, k)]_allVars
=============================================================================
