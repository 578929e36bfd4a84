--------------------------- MODULE TerminalProofs ---------------------------
(***************************************************************************)
(* Proofs about Terminal, for any number of prompts, containers, chunks     *)
(* and lines: standard input never has two users, the output of the build   *)
(* comes out once, in order, and never into a prompt, and log -n prints the *)
(* tail of the log.                                                         *)
(***************************************************************************)
EXTENDS Terminal, SequenceTheorems, TLAPS

\* Whoever is between use and done holds useMu, and nobody else does; ...
HolderUses ==
  \A u \in Uses : user[u] \in {"reading", "leaving", "closed"} <=> useMu = u

\* ... a pipe there is belongs to a holder who has not given it back.
PipeHeld == currentW # None => useMu = currentW /\ user[currentW] \in {"reading", "leaving"}

ReaderInv == TypeOK /\ HolderUses /\ PipeHeld /\ NoSecondWriter

\* Output is held back while a break handler runs, and only then may stdin be used.
OutputInv ==
  /\ written \in Nat /\ screen \in Seq(Nat) /\ buf \in Seq(Nat)
  /\ enabled \in BOOLEAN /\ handler \in {"running", "break", "logging"}
  /\ enabled <=> handler = "running"
  /\ enabled => buf = <<>>
  /\ useMu # None => handler = "break"

IInv == ReaderInv /\ OutputInv /\ OutputOnceInOrder

-----------------------------------------------------------------------------
(* SharedReader *)

LEMMA InitReader == Init => ReaderInv
<1> SUFFICES ASSUME Init PROVE ReaderInv
  OBVIOUS
<1>1. MaxChunks \in Nat
  BY ReaderAssumption
<1>2. eof \in BOOLEAN /\ closing \in BOOLEAN /\ panicked \in BOOLEAN
  BY DEF Init
<1>3. TypeOK
  BY <1>1, <1>2 DEF Init, TypeOK
<1>4. HolderUses /\ PipeHeld /\ NoSecondWriter
  BY ReaderAssumption DEF Init, HolderUses, PipeHeld, NoSecondWriter
<1> QED BY <1>3, <1>4 DEF ReaderInv

LEMMA GoroutineReader ==
  ASSUME ReaderInv, Type \/ EndOfInput \/ Close \/ ReadFails \/ ReaderStep
  PROVE  ReaderInv'
<1> USE ReaderAssumption DEF ReaderInv, TypeOK, HolderUses, PipeHeld, NoSecondWriter, stdin, goroutine
<1>1. CASE Type
  BY <1>1 DEF Type
<1>2. CASE EndOfInput
  BY <1>2 DEF EndOfInput
<1>3. CASE Close
  BY <1>3 DEF Close
<1>4. CASE ReadFails
  BY <1>4 DEF ReadFails
<1>5. CASE ReadChunk
  BY <1>5 DEF ReadChunk
<1>6. CASE ReadEOF
  BY <1>6 DEF ReadEOF
<1>7. CASE ChooseDest
  BY <1>7 DEF ChooseDest
<1>8. CASE WriteChunk
  <2>1. to \in Uses \/ to = None
    OBVIOUS
  <2>2. /\ \A u \in Uses : user'[u] = user[u] \/ (user[u] = "reading" /\ user'[u] \in {"leaving", "reading"})
        /\ user' \in [Uses -> {"idle", "reading", "leaving", "closed", "finished"}]
    BY <1>8, <2>1 DEF WriteChunk
  <2> QED BY <1>8, <2>2 DEF WriteChunk
<1>9. CASE WriteFails
  BY <1>9 DEF WriteFails
<1>10. CASE ReaderReturns
  BY <1>10 DEF ReaderReturns
<1> QED BY <1>1, <1>2, <1>3, <1>4, <1>5, <1>6, <1>7, <1>8, <1>9, <1>10 DEF ReaderStep

LEMMA UserReader ==
  ASSUME ReaderInv, NEW u \in Uses, UserStep(u) \/ UserGivesUp(u)
  PROVE  ReaderInv'
<1> USE ReaderAssumption DEF ReaderInv, TypeOK, HolderUses, PipeHeld, NoSecondWriter, stdin, goroutine
<1>1. CASE Use(u)
  <2>1. currentW = None
    BY <1>1 DEF Use
  <2> QED BY <1>1, <2>1 DEF Use
<1>2. CASE UserSeesEnd(u)
  BY <1>2 DEF UserSeesEnd
<1>3. CASE UserGivesUp(u)
  BY <1>3 DEF UserGivesUp
<1>4. CASE DoneClose(u)
  BY <1>4 DEF DoneClose
<1>5. CASE DoneUnlock(u)
  BY <1>5 DEF DoneUnlock
<1> QED BY <1>1, <1>2, <1>3, <1>4, <1>5 DEF UserStep

-----------------------------------------------------------------------------
(* The output *)

LEMMA FileGrows ==
  ASSUME NEW k \in Nat
  PROVE  File(k) \in Seq(Nat) /\ Append(File(k), k + 1) = File(k + 1)
<1>1. /\ File(k) \in Seq(Nat) /\ Len(File(k)) = k /\ \A i \in 1..k : File(k)[i] = i
      /\ File(k + 1) \in Seq(Nat) /\ Len(File(k + 1)) = k + 1
      /\ \A i \in 1..k + 1 : File(k + 1)[i] = i
  BY DEF File
<1>2. /\ Append(File(k), k + 1) \in Seq(Nat) /\ Len(Append(File(k), k + 1)) = k + 1
      /\ \A i \in 1..k : Append(File(k), k + 1)[i] = i
      /\ Append(File(k), k + 1)[k + 1] = k + 1
  BY <1>1, AppendProperties
<1>3. \A i \in 1..k + 1 : Append(File(k), k + 1)[i] = File(k + 1)[i]
  BY <1>1, <1>2
<1> QED BY <1>1, <1>2, <1>3, SeqEqual

LEMMA WriteOutput ==
  ASSUME OutputInv, OutputOnceInOrder, Write
  PROVE  OutputInv' /\ OutputOnceInOrder'
<1>1. /\ written \in Nat /\ screen \in Seq(Nat) /\ buf \in Seq(Nat) /\ written' = written + 1
      /\ screen \o buf = File(written)
  BY DEF OutputInv, OutputOnceInOrder, Write
<1>2. Append(File(written), written') = File(written')
  BY <1>1, FileGrows
<1>3. CASE enabled
  <2>1. buf = <<>> /\ buf' = buf /\ screen' = Append(screen, written')
    BY <1>3 DEF OutputInv, Write
  <2>2. screen = File(written)
    BY <1>1, <2>1, ConcatEmptySeq
  <2>3. screen' \in Seq(Nat) /\ screen' = File(written')
    BY <1>1, <1>2, <2>1, <2>2, AppendProperties
  <2>4. screen' \o buf' = screen'
    BY <2>1, <2>3, ConcatEmptySeq
  <2> QED BY <1>1, <2>1, <2>3, <2>4 DEF OutputInv, OutputOnceInOrder, Write, vars
<1>4. CASE ~enabled
  <2>1. screen' = screen /\ buf' = Append(buf, written') /\ written' \in Nat
    BY <1>1, <1>4 DEF Write
  <2>2. buf' \in Seq(Nat) /\ buf' = buf \o <<written'>> /\ <<written'>> \in Seq(Nat)
    BY <1>1, <2>1, AppendProperties, AppendIsConcat
  <2>3. screen \o buf' = (screen \o buf) \o <<written'>>
    <3>1. (screen \o buf) \o <<written'>> = screen \o (buf \o <<written'>>)
      <4>1. \A s, t, u \in Seq(Nat) : (s \o t) \o u = s \o (t \o u)
        BY ConcatAssociative
      <4>2. screen \in Seq(Nat) /\ buf \in Seq(Nat) /\ <<written'>> \in Seq(Nat)
        BY <1>1, <2>2
      <4> QED BY <4>1, <4>2, Zenon
    <3> QED BY <2>2, <3>1, Zenon
  <2>4. (screen \o buf) \o <<written'>> = Append(File(written), written')
    BY <1>1, <2>1, FileGrows, AppendIsConcat
  <2> QED BY <1>1, <1>2, <1>4, <2>1, <2>2, <2>3, <2>4 DEF OutputInv, OutputOnceInOrder, Write, vars
<1> QED BY <1>3, <1>4 DEF OutputInv

LEMMA OutputStep ==
  ASSUME OutputInv, OutputOnceInOrder,
         \/ Break \/ Resume \/ LogMore \/ \E n \in LogSizes : OpenLog(n)
         \/ ScanLine \/ PrintLog
  PROVE  OutputInv' /\ OutputOnceInOrder'
<1>1. CASE Resume
  <2>1. /\ screen \in Seq(Nat) /\ buf \in Seq(Nat) /\ screen' = screen \o buf /\ buf' = <<>>
        /\ written' = written /\ useMu' = useMu /\ useMu = None
    BY <1>1 DEF OutputInv, Resume, vars
  <2>2. screen' \in Seq(Nat) /\ screen' \o buf' = screen'
    BY <2>1, ConcatProperties, ConcatEmptySeq
  <2> QED BY <1>1, <2>1, <2>2 DEF OutputInv, OutputOnceInOrder, Resume
<1>2. CASE Break
  BY <1>2 DEF OutputInv, OutputOnceInOrder, Break, vars
<1>3. CASE LogMore
  BY <1>3 DEF OutputInv, OutputOnceInOrder, LogMore, vars
<1>4. CASE \E n \in LogSizes : OpenLog(n)
  BY <1>4 DEF OutputInv, OutputOnceInOrder, OpenLog, vars
<1>5. CASE ScanLine
  BY <1>5 DEF OutputInv, OutputOnceInOrder, ScanLine, vars
<1>6. CASE PrintLog
  BY <1>6 DEF OutputInv, OutputOnceInOrder, PrintLog, vars
<1> QED BY <1>1, <1>2, <1>3, <1>4, <1>5, <1>6

-----------------------------------------------------------------------------
LEMMA InitIInv == TerminalInit => IInv
<1> SUFFICES ASSUME TerminalInit PROVE IInv
  OBVIOUS
<1>1. ReaderInv
  BY InitReader DEF TerminalInit
<1>2. OutputInv
  BY DEF TerminalInit, Init, OutputInv
<1>3. OutputOnceInOrder
  <2>1. File(0) \in Seq(Nat) /\ Len(File(0)) = 0
    BY DEF File
  <2>2. <<>> \o <<>> = <<>> /\ File(0) = <<>>
    BY <2>1, ConcatEmptySeq
  <2> QED BY <2>2 DEF TerminalInit, OutputOnceInOrder
<1> QED BY <1>1, <1>2, <1>3 DEF IInv

LEMMA StepIInv == IInv /\ [TerminalNext]_allVars => IInv'
<1> SUFFICES ASSUME IInv, [TerminalNext]_allVars PROVE IInv'
  OBVIOUS
<1>1. CASE ReaderNext
  <2>1. ReaderInv'
    BY <1>1, GoroutineReader, UserReader DEF IInv, ReaderNext, Next
  <2>2. UNCHANGED terminalVars /\ (useMu' # useMu => handler = "break")
    BY <1>1 DEF ReaderNext
  <2> QED BY <2>1, <2>2 DEF IInv, OutputInv, OutputOnceInOrder, terminalVars
<1>2. CASE \/ Write \/ Break \/ Resume \/ LogMore \/ \E n \in LogSizes : OpenLog(n)
           \/ ScanLine \/ PrintLog
  <2>1. OutputInv' /\ OutputOnceInOrder'
    BY <1>2, WriteOutput, OutputStep DEF IInv
  <2>2. UNCHANGED vars
    BY <1>2 DEF Write, Break, Resume, LogMore, OpenLog, ScanLine, PrintLog
  <2>3. ReaderInv'
    BY <2>2 DEF IInv, ReaderInv, TypeOK, HolderUses, PipeHeld, NoSecondWriter, vars
  <2> QED BY <2>1, <2>3 DEF IInv
<1>3. CASE UNCHANGED allVars
  BY <1>3 DEF IInv, ReaderInv, TypeOK, HolderUses, PipeHeld, NoSecondWriter, OutputInv,
     OutputOnceInOrder, allVars, vars, terminalVars
<1> QED BY <1>1, <1>2, <1>3 DEF TerminalNext

LEMMA Invariance == TerminalSpec => []IInv
  BY InitIInv, StepIInv, PTL DEF TerminalSpec

-----------------------------------------------------------------------------
\* The variables of the shared reader keep their types.
THEOREM TypeCorrect == TerminalSpec => []TypeOK
<1>1. IInv => TypeOK
  BY DEF IInv, ReaderInv
<1> QED BY <1>1, Invariance, PTL

\* The build's output and the log command leave the shared reader as it is: what
\* holds of it alone holds under the terminal (main.go:741-786, log.go:33-80).
THEOREM TerminalRunsReader == TerminalSpec => Spec
<1>1. TerminalInit => Init
  BY DEF TerminalInit
<1>2. [TerminalNext]_allVars => [Next]_vars
  BY DEF TerminalNext, ReaderNext, Write, Break, Resume, LogMore, OpenLog, ScanLine, PrintLog, allVars
<1> QED BY <1>1, <1>2, PTL DEF TerminalSpec, Spec

\* use never finds the pipe of another use, in whatever order the end of the
\* input, done and the next use come (commands.go:230-248).
THEOREM OneWriter == TerminalSpec => []NoSecondWriter
<1>1. IInv => NoSecondWriter
  BY DEF IInv, ReaderInv
<1> QED BY <1>1, Invariance, PTL

\* What is on the terminal and what is held back are the log, in order and once
\* (main.go:741-786).
THEOREM OutputIsTheLog == TerminalSpec => []OutputOnceInOrder
<1>1. IInv => OutputOnceInOrder
  BY DEF IInv
<1> QED BY <1>1, Invariance, PTL

\* The build does not write to the terminal while a prompt or a container has it
\* (main.go:376-377, 781-784).
THEOREM PromptsAreQuiet == TerminalSpec => QuietPrompt
<1>1. IInv /\ [TerminalNext]_allVars => (screen' # screen => useMu = None /\ useMu' = None)
  <2> SUFFICES ASSUME IInv, [TerminalNext]_allVars, screen' # screen
               PROVE  useMu = None /\ useMu' = None
    OBVIOUS
  <2>1. Write \/ Resume
    BY DEF TerminalNext, ReaderNext, Break, LogMore, OpenLog, ScanLine, PrintLog, allVars, terminalVars
  <2>2. useMu' = useMu
    BY <2>1 DEF Write, Resume, vars
  <2>3. CASE Write
    BY <2>2, <2>3 DEF IInv, OutputInv, Write
  <2>4. CASE Resume
    BY <2>2, <2>4 DEF Resume
  <2> QED BY <2>1, <2>3, <2>4
<1> QED BY <1>1, Invariance, PTL DEF TerminalSpec, QuietPrompt

-----------------------------------------------------------------------------
(* The ring of log -n *)

\* The lines behind the cursor are the last ones read, those from it on are the
\* round before, once there was one.
RingInv ==
  handler = "logging" =>
    /\ ring \in [n : Nat \ {0}, buf : [1..ring.n -> Nat], cur : 1..ring.n, total : Nat, opened : Nat]
    /\ ring.total <= written /\ ring.opened <= written
    /\ ring.total <= ring.n => ring.cur = Wrapped(ring.total)
    /\ \A i \in 1..ring.n :
         /\ i < ring.cur => ring.buf[i] = ring.total - ring.cur + 1 + i
         /\ i >= ring.cur /\ ring.total >= ring.n =>
              ring.buf[i] = ring.total - ring.cur + 1 + i - ring.n

LEMMA OpenRing ==
  ASSUME OutputInv, NEW n \in LogSizes, OpenLog(n)
  PROVE  RingInv'
<1>1. n \in Nat \ {0} /\ written \in Nat
  BY TerminalAssumption DEF OutputInv
<1>2. /\ ring' = [n |-> n, buf |-> [i \in 1..n |-> 0], cur |-> 1, total |-> 0, opened |-> written]
      /\ written' = written
  BY DEF OpenLog
<1> QED BY <1>1, <1>2 DEF RingInv, Wrapped

LEMMA ScanRing ==
  ASSUME OutputInv, RingInv, ScanLine
  PROVE  RingInv'
<1> DEFINE n == ring.n   c == ring.cur   t == ring.total   b == ring.buf
<1>1. /\ n \in Nat \ {0} /\ b \in [1..n -> Nat] /\ c \in 1..n /\ t \in Nat /\ ring.opened \in Nat
      /\ t <= written /\ ring.opened <= written
      /\ t < n => c = t + 1
      /\ t = n => c = 1
      /\ \A i \in 1..n :
           /\ i < c => b[i] = t - c + 1 + i
           /\ i >= c /\ t >= n => b[i] = t - c + 1 + i - n
  BY DEF RingInv, ScanLine, Wrapped
<1>2. written \in Nat /\ t < written /\ written' = written
  BY DEF OutputInv, ScanLine
<1>3. ring = [n |-> n, buf |-> b, cur |-> c, total |-> t, opened |-> ring.opened]
  BY DEF RingInv, ScanLine
<1>4. ring' = [n |-> n, buf |-> [b EXCEPT ![c] = t + 1], cur |-> Wrapped(c), total |-> t + 1,
               opened |-> ring.opened]
  BY <1>3 DEF ScanLine
<1> DEFINE d == Wrapped(c)   new == [b EXCEPT ![c] = t + 1]
<1>5. /\ d \in 1..n /\ new \in [1..n -> Nat] /\ t + 1 \in Nat
      /\ IF c = n THEN d = 1 ELSE d = c + 1
  BY <1>1 DEF Wrapped
<1>6. t + 1 <= n => d = IF t + 1 >= n THEN 1 ELSE (t + 1) + 1
  BY <1>1, <1>5
<1>7. ASSUME NEW i \in 1..n
      PROVE  /\ i < d => new[i] = t + 1 - d + 1 + i
             /\ i >= d /\ t + 1 >= n => new[i] = t + 1 - d + 1 + i - n
  <2> HIDE DEF n, c, t, d
  <2>1. new[c] = t + 1 /\ (i # c => new[i] = b[i])
    BY <1>1
  <2> HIDE DEF b, new
  <2>2. CASE i = c
    BY <1>1, <1>5, <2>1, <2>2
  <2>3. CASE i # c /\ c < n
    <3>1. d = c + 1
      BY <1>1, <1>5, <2>3
    <3>2. i < d => i < c
      BY <1>1, <2>3, <3>1
    <3>3. t + 1 >= n => t >= n
      BY <1>1, <2>3
    <3>4. t + 1 - d = t - c
      BY <1>1, <3>1
    <3> QED BY <1>1, <2>1, <2>3, <3>1, <3>2, <3>3, <3>4
  <2>4. CASE i # c /\ c = n
    BY <1>1, <1>5, <2>1, <2>4
  <2> QED BY <1>1, <2>2, <2>3, <2>4
<1>8. t + 1 <= written' /\ ring.opened <= written'
  BY <1>1, <1>2
<1>9. /\ ring'.n = n /\ ring'.buf = new /\ ring'.cur = d /\ ring'.total = t + 1
      /\ ring'.opened = ring.opened
      /\ ring' \in [n : Nat \ {0}, buf : [1..n -> Nat], cur : 1..n, total : Nat, opened : Nat]
  <2> HIDE DEF n, c, t, b, d, new
  <2> QED BY <1>1, <1>4, <1>5 DEF d, new
<1> HIDE DEF n, c, t, b, d, new
<1>10. ring' \in [n : Nat \ {0}, buf : [1..ring'.n -> Nat], cur : 1..ring'.n, total : Nat, opened : Nat]
  BY <1>9
<1>11. ring'.total <= ring'.n => ring'.cur = IF ring'.total >= ring'.n THEN 1 ELSE ring'.total + 1
  BY <1>6, <1>9
<1> DEFINE BehindCursor(r, i) == i < r.cur => r.buf[i] = r.total - r.cur + 1 + i
           FromCursor(r, i) ==
             i >= r.cur /\ r.total >= r.n => r.buf[i] = r.total - r.cur + 1 + i - r.n
<1>12. ASSUME NEW i \in 1..n
       PROVE  BehindCursor(ring', i) /\ FromCursor(ring', i)
  <2>1. i < ring'.cur => new[i] = ring'.total - ring'.cur + 1 + i
    BY <1>1, <1>5, <1>7, <1>9
  <2>2. i >= ring'.cur /\ ring'.total >= ring'.n =>
          new[i] = ring'.total - ring'.cur + 1 + i - ring'.n
    BY <1>1, <1>5, <1>7, <1>9
  <2> QED BY <1>9, <2>1, <2>2
<1>13. \A i \in 1..ring'.n : BehindCursor(ring', i) /\ FromCursor(ring', i)
  <2> HIDE DEF BehindCursor, FromCursor
  <2> QED BY <1>9, <1>12
<1> QED BY <1>8, <1>9, <1>10, <1>11, <1>13 DEF RingInv, Wrapped

\* Where PrintLog goes on behind the end of the ring.
LEMMA AroundTheRing ==
  ASSUME NEW n \in Nat \ {0}, NEW c \in 1..n, NEW i \in 1..n
  PROVE  ((c + i - 2) % n) + 1 = IF c + i - 2 < n THEN c + i - 1 ELSE c + i - 1 - n
<1> DEFINE x == c + i - 2
<1>1. x \in Nat /\ x < 2 * n
  OBVIOUS
<1>2. ASSUME NEW y \in Nat, y < 2 * n PROVE y % n = IF y < n THEN y ELSE y - n
  BY <1>2
<1>3. x % n = IF x < n THEN x ELSE x - n
  <2> HIDE DEF x
  <2> QED BY <1>1, <1>2
<1>4. (x % n) + 1 = IF x < n THEN x + 1 ELSE x + 1 - n
  <2> HIDE DEF x
  <2> QED BY <1>1, <1>3
<1> QED BY <1>4

LEMMA PrintsTail ==
  ASSUME OutputInv, RingInv, PrintLog
  PROVE  printed' = SubSeq(File(written), IF written > ring.n THEN written - ring.n + 1 ELSE 1, written)
<1> DEFINE n == ring.n   c == ring.cur   t == ring.total   b == ring.buf
           from == IF t > n THEN t - n + 1 ELSE 1
<1>1. /\ n \in Nat \ {0} /\ b \in [1..n -> Nat] /\ c \in 1..n /\ t \in Nat
      /\ t < n => c = t + 1
      /\ t = n => c = 1
      /\ \A i \in 1..n :
           /\ i < c => b[i] = t - c + 1 + i
           /\ i >= c /\ t >= n => b[i] = t - c + 1 + i - n
  BY DEF RingInv, PrintLog, Wrapped
<1>2. t = written
  BY DEF PrintLog
<1>3. \A i \in 1..t : File(t)[i] = i
  BY DEF File
<1>4. CASE t <= n
  <2>1. printed' = SubSeq(b, 1, t)
    BY <1>4 DEF PrintLog
  <2>2. \A i \in 1..t : b[i] = i
    <3> HIDE DEF n, c, t, b
    <3> QED BY <1>1, <1>4
  <2>3. SubSeq(b, 1, t) = SubSeq(File(t), 1, t)
    <3> HIDE DEF n, c, t, b
    <3>1. SubSeq(b, 1, t) = [i \in 1..t |-> b[i]] /\ SubSeq(File(t), 1, t) = [i \in 1..t |-> File(t)[i]]
      BY <1>1
    <3> QED BY <1>3, <2>2, <3>1
  <2>4. ~(t > n)
    BY <1>1, <1>4
  <2> QED BY <1>2, <2>1, <2>3, <2>4
<1>5. CASE t > n
  <2>1. printed' = [i \in 1..n |-> b[((c + i - 2) % n) + 1]]
    BY <1>1, <1>5 DEF PrintLog
  <2>2. ASSUME NEW i \in 1..n
        PROVE  b[((c + i - 2) % n) + 1] = t - n + i
    <3> HIDE DEF n, c, t, b
    <3>1. ((c + i - 2) % n) + 1 = IF c + i - 2 < n THEN c + i - 1 ELSE c + i - 1 - n
      BY <1>1, AroundTheRing
    <3>3. CASE c + i - 2 < n
      <4>1. c + i - 1 \in 1..n /\ c + i - 1 >= c
        BY <1>1, <3>3
      <4>2. b[c + i - 1] = t - c + 1 + (c + i - 1) - n
        BY <1>1, <1>5, <4>1
      <4> QED BY <1>1, <3>1, <3>3, <4>1, <4>2
    <3>4. CASE ~(c + i - 2 < n)
      <4>1. c + i - 1 - n \in 1..n /\ c + i - 1 - n < c
        BY <1>1, <3>4
      <4>2. b[c + i - 1 - n] = t - c + 1 + (c + i - 1 - n)
        BY <1>1, <1>5, <4>1
      <4> QED BY <1>1, <3>1, <3>4, <4>1, <4>2
    <3> QED BY <3>3, <3>4
  <2>3. SubSeq(File(t), t - n + 1, t) = [i \in 1..n |-> t - n + i]
    <3> HIDE DEF n, t
    <3> DEFINE tail == SubSeq(File(t), t - n + 1, t)   last == [i \in 1..n |-> t - n + i]
    <3>1. t - n + 1 \in Int /\ t \in Int /\ \A i \in t - n + 1 .. t : File(t)[i] \in Nat
      BY <1>1, <1>3, <1>5
    <3>2. /\ tail \in Seq(Nat)
          /\ Len(tail) = IF t - n + 1 <= t THEN t - (t - n + 1) + 1 ELSE 0
          /\ \A i \in 1 .. t - (t - n + 1) + 1 : tail[i] = File(t)[t - n + 1 + i - 1]
      BY <3>1, SubSeqProperties
    <3>3. t - (t - n + 1) + 1 = n /\ t - n + 1 <= t
      BY <1>1
    <3>4. \A i \in 1..n : t - n + 1 + i - 1 \in 1..t /\ t - n + 1 + i - 1 = t - n + i
      BY <1>1, <1>5
    <3>5. Len(tail) = n /\ \A i \in 1..n : tail[i] = t - n + i
      BY <1>3, <3>2, <3>3, <3>4
    <3>6. last \in Seq(Nat) /\ Len(last) = n /\ \A i \in 1..n : last[i] = t - n + i
      BY <1>1, <1>5
    <3> HIDE DEF tail, last
    <3>7. tail = last
      BY <3>2, <3>5, <3>6, SeqEqual
    <3> QED BY <3>7 DEF tail, last
  <2>4. [i \in 1..n |-> b[((c + i - 2) % n) + 1]] = [i \in 1..n |-> t - n + i]
    <3> HIDE DEF n, c, t, b
    <3> QED BY <2>2
  <2> QED BY <1>2, <1>5, <2>1, <2>3, <2>4
<1> QED BY <1>1, <1>4, <1>5

\* Outside the log command there is no ring to speak of, and the build only
\* adds lines.
LEMMA StepRing ==
  ASSUME OutputInv, RingInv, [TerminalNext]_allVars
  PROVE  RingInv'
<1>1. CASE \E n \in LogSizes : OpenLog(n)
  BY <1>1, OpenRing
<1>2. CASE ScanLine
  BY <1>2, ScanRing
<1>3. CASE Write \/ ReaderNext \/ UNCHANGED allVars
  <2>1. handler' = handler /\ ring' = ring /\ written \in Nat /\ written' \in Nat /\ written <= written'
    BY <1>3 DEF OutputInv, Write, ReaderNext, allVars, terminalVars
  <2>2. ASSUME handler = "logging" PROVE ring.total <= written' /\ ring.opened <= written'
    <3>1. ring.total \in Nat /\ ring.opened \in Nat /\ ring.total <= written /\ ring.opened <= written
      BY <2>2 DEF RingInv
    <3> QED BY <2>1, <3>1
  <2> QED BY <2>1, <2>2 DEF RingInv, Wrapped
<1>4. CASE Break \/ Resume \/ LogMore \/ PrintLog
  <2>1. handler' # "logging"
    BY <1>4 DEF Break, Resume, LogMore, PrintLog
  <2> QED BY <2>1 DEF RingInv
<1> QED BY <1>1, <1>2, <1>3, <1>4 DEF TerminalNext

LEMMA RingHolds == TerminalSpec => []RingInv
<1>1. TerminalInit => RingInv
  BY DEF TerminalInit, RingInv
<1>2. IInv /\ RingInv /\ [TerminalNext]_allVars => RingInv'
  BY StepRing DEF IInv
<1> QED BY <1>1, <1>2, Invariance, PTL DEF TerminalSpec

\* log -n prints the last n lines of the file, or all of them if there are
\* fewer, in order, wherever the cursor of its ring is and whatever the build
\* wrote meanwhile (log.go:51-77).
THEOREM LogIsTheTail == TerminalSpec => LogPrintsTail
<1>1. IInv /\ RingInv /\ [TerminalNext]_allVars =>
        (handler = "logging" /\ handler' # "logging" =>
           \E k \in ring.opened..written :
             printed' = SubSeq(File(k), IF k > ring.n THEN k - ring.n + 1 ELSE 1, k))
  <2> SUFFICES ASSUME IInv, RingInv, [TerminalNext]_allVars,
                      handler = "logging", handler' # "logging"
               PROVE  \E k \in ring.opened..written :
                        printed' = SubSeq(File(k), IF k > ring.n THEN k - ring.n + 1 ELSE 1, k)
    OBVIOUS
  <2>1. PrintLog
    BY DEF TerminalNext, ReaderNext, Write, Break, Resume, LogMore, OpenLog, ScanLine,
       allVars, terminalVars
  <2>2. written \in ring.opened..written
    BY DEF IInv, OutputInv, RingInv
  <2> QED BY <2>1, <2>2, PrintsTail DEF IInv
<1> QED BY <1>1, Invariance, RingHolds, PTL DEF TerminalSpec, LogPrintsTail
=============================================================================
