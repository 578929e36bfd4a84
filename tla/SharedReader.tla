---------------------------- MODULE SharedReader ----------------------------
(***************************************************************************)
(* commands.go: standard input shared by the prompts and the containers of *)
(* exec.  One goroutine reads stdin for ever and writes each chunk to the  *)
(* pipe of whoever uses the reader at that moment, or throws it away; use  *)
(* hands out a pipe, done takes it back.  useMu is held between use and    *)
(* done; currentWMu protects currentW only, and is not held in Write, which *)
(* blocks until the user has read the chunk or the pipe is closed.         *)
(***************************************************************************)
EXTENDS Naturals

CONSTANTS
  Uses,            \* calls of use
  Prompt,          \* of each: TRUE for readLine, FALSE for a container's stdin
  MaxChunks,       \* bound: chunks typed
  None

ASSUME ReaderAssumption ==
  /\ Prompt \in [Uses -> BOOLEAN]
  /\ MaxChunks \in Nat
  /\ None \notin Uses

VARIABLES
  typed,           \* chunks the terminal has taken
  eof,             \* stdin is at its end
  taken,           \* chunks the goroutine has read
  reader,          \* the goroutine: "reading", "got", "writing", "failed", "returned"
  to,              \* the use whose pipe it writes to
  closing,         \* s.done is closed
  currentW,        \* the use the current pipe belongs to
  useMu,           \* holder
  user,            \* of each use: "idle", "reading", "leaving", "closed", "finished"
  closed,          \* uses whose pipe is closed
  panicked         \* use found a writer

vars == <<typed, eof, taken, reader, to, closing, currentW, useMu, user, closed, panicked>>
stdin == <<typed, eof>>
goroutine == <<taken, reader, to, closing>>

TypeOK ==
  /\ typed \in 0..MaxChunks /\ taken \in 0..typed
  /\ {eof, closing, panicked} \subseteq BOOLEAN
  /\ reader \in {"reading", "got", "writing", "failed", "returned"}
  /\ {to, currentW, useMu} \subseteq Uses \cup {None}
  /\ user \in [Uses -> {"idle", "reading", "leaving", "closed", "finished"}]
  /\ closed \subseteq Uses

Init ==
  /\ typed = 0 /\ eof = FALSE /\ taken = 0
  /\ reader = "reading" /\ to = None /\ closing = FALSE
  /\ currentW = None /\ useMu = None
  /\ user = [u \in Uses |-> "idle"]
  /\ closed = {} /\ panicked = FALSE

-----------------------------------------------------------------------------
(* The terminal *)

Type ==
  /\ ~eof /\ typed < MaxChunks
  /\ typed' = typed + 1
  /\ UNCHANGED <<eof, goroutine, currentW, useMu, user, closed, panicked>>

EndOfInput ==
  /\ ~eof
  /\ eof' = TRUE
  /\ UNCHANGED <<typed, goroutine, currentW, useMu, user, closed, panicked>>

-----------------------------------------------------------------------------
(* The goroutine of newSharedReader *)

ReadChunk ==
  /\ reader = "reading" /\ taken < typed
  /\ taken' = taken + 1
  /\ reader' = "got"
  /\ UNCHANGED <<stdin, to, closing, currentW, useMu, user, closed, panicked>>

ReadEOF_ReturnBug ==
  /\ reader = "reading" /\ taken = typed /\ eof
  /\ closed' = closed \cup ({currentW} \ {None})
  /\ currentW' = None
  /\ reader' = "returned"
  /\ UNCHANGED <<stdin, taken, to, closing, useMu, user, panicked>>

\* The current pipe is closed; the next Read finds the end again.
ReadEOF ==
  /\ reader = "reading" /\ taken = typed /\ eof
  /\ closed' = closed \cup ({currentW} \ {None})
  /\ currentW' = None
  /\ UNCHANGED <<stdin, goroutine, useMu, user, panicked>>

\* An error other than the end: the goroutine is gone, and so is the input.
ReadFails ==
  /\ reader = "reading"
  /\ reader' = "failed"
  /\ UNCHANGED <<stdin, taken, to, closing, currentW, useMu, user, closed, panicked>>

\* The chunk's destination is read under currentWMu; without one the chunk is
\* discarded.
ChooseDest ==
  /\ reader = "got"
  /\ to' = currentW
  /\ reader' = IF currentW = None THEN "reading" ELSE "writing"
  /\ UNCHANGED <<stdin, taken, closing, currentW, useMu, user, closed, panicked>>

\* The user reads the chunk.  A prompt needs one: Scan returns its first line
\* and what else is in the chunk is lost with the scanner.
WriteChunk ==
  /\ reader = "writing" /\ to \notin closed
  /\ user[to] = "reading"
  /\ user' = [user EXCEPT ![to] = IF Prompt[to] THEN "leaving" ELSE "reading"]
  /\ reader' = "reading" /\ to' = None
  /\ UNCHANGED <<stdin, taken, closing, currentW, useMu, closed, panicked>>

\* Write fails on a closed pipe, which is logged.
WriteFails ==
  /\ reader = "writing" /\ to \in closed
  /\ reader' = "reading" /\ to' = None
  /\ UNCHANGED <<stdin, taken, closing, currentW, useMu, user, closed, panicked>>

\* close, and the goroutine's look at s.done before it reads.
Close ==
  /\ ~closing
  /\ closing' = TRUE
  /\ UNCHANGED <<stdin, taken, reader, to, currentW, useMu, user, closed, panicked>>

ReaderReturns ==
  /\ reader = "reading" /\ closing
  /\ reader' = "returned"
  /\ UNCHANGED <<stdin, taken, to, closing, currentW, useMu, user, closed, panicked>>

-----------------------------------------------------------------------------
(* use, readLine or exec, done *)

Use(u) ==
  /\ user[u] = "idle" /\ useMu = None
  /\ useMu' = u
  /\ \/ /\ currentW # None
        /\ panicked' = TRUE
        /\ UNCHANGED <<currentW, user>>
     \/ /\ currentW = None
        /\ currentW' = u
        /\ user' = [user EXCEPT ![u] = "reading"]
        /\ UNCHANGED panicked
  /\ UNCHANGED <<stdin, goroutine, closed>>

\* Scan finds the end of the pipe: ErrExit, or the end of the container's stdin.
UserSeesEnd(u) ==
  /\ user[u] = "reading" /\ u \in closed
  /\ user' = [user EXCEPT ![u] = "leaving"]
  /\ UNCHANGED <<stdin, goroutine, currentW, useMu, closed, panicked>>

\* The container ends.  A prompt cannot give up: its context comes from
\* context.Background (handler.go:36) and is never cancelled.
UserGivesUp(u) ==
  /\ user[u] = "reading" /\ ~Prompt[u]
  /\ user' = [user EXCEPT ![u] = "leaving"]
  /\ UNCHANGED <<stdin, goroutine, currentW, useMu, closed, panicked>>

DoneClose_NoClearBug(u) ==
  /\ user[u] = "leaving"
  /\ user' = [user EXCEPT ![u] = "closed"]
  /\ closed' = closed \cup {u}
  /\ UNCHANGED <<stdin, goroutine, currentW, useMu, panicked>>

DoneClose_LockBug(u) ==
  /\ user[u] = "leaving" /\ reader # "writing"
  /\ user' = [user EXCEPT ![u] = "closed"]
  /\ currentW' = None
  /\ closed' = closed \cup {u}
  /\ UNCHANGED <<stdin, goroutine, useMu, panicked>>

\* done, under currentWMu: nothing is left to close after an end of input.
DoneClose(u) ==
  /\ user[u] = "leaving"
  /\ user' = [user EXCEPT ![u] = "closed"]
  /\ currentW' = None
  /\ closed' = IF currentW = None THEN closed ELSE closed \cup {u}
  /\ UNCHANGED <<stdin, goroutine, useMu, panicked>>

DoneUnlock(u) ==
  /\ user[u] = "closed"
  /\ user' = [user EXCEPT ![u] = "finished"]
  /\ useMu' = None
  /\ UNCHANGED <<stdin, goroutine, currentW, closed, panicked>>

-----------------------------------------------------------------------------
ReaderStep == ReadChunk \/ ReadEOF \/ ChooseDest \/ WriteChunk \/ WriteFails \/ ReaderReturns

UserStep(u) == Use(u) \/ UserSeesEnd(u) \/ DoneClose(u) \/ DoneUnlock(u)

Next ==
  \/ Type \/ EndOfInput \/ Close \/ ReadFails \/ ReaderStep
  \/ \E u \in Uses : UserStep(u) \/ UserGivesUp(u)

Spec == Init /\ [][Next]_vars

\* The goroutine and the users go on while they can; nobody need type, close
\* the input or end a container.
Fairness ==
  /\ WF_vars(ReaderStep)
  /\ \A u \in Uses : WF_vars(UserStep(u))

FairSpec == Spec /\ Fairness

-----------------------------------------------------------------------------
(* Properties *)

\* use never meets the pipe of another use: the panic "non nil writer" cannot
\* happen (commands.go:233-235), although done, the end of the input and the
\* next use come in any order.
NoSecondWriter == ~panicked

\* At the end of the input every prompt ends, those opened later too, unless
\* reading stdin failed or the reader was closed (commands.go:204-213, 124-127).
EndOfInputEndsUses ==
  \A u \in Uses :
    eof /\ user[u] = "reading" ~> user[u] # "reading" \/ reader = "failed" \/ closing

\* done does not wait for the goroutine's Write, and the next use for nothing
\* else (commands.go:213-218, 239-248).
LeavingEnds == \A u \in Uses : user[u] = "leaving" ~> user[u] = "finished"
=============================================================================
