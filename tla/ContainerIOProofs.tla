-------------------------- MODULE ContainerIOProofs --------------------------
(***************************************************************************)
(* Proofs about ContainerIO: whatever steps of an exec fail, clean-ups run  *)
(* in reverse and nothing is left, and a container that exists has what     *)
(* its step had mounted, for every step and every request.                  *)
(***************************************************************************)
EXTENDS ContainerIO, SequenceTheorems, TLAPS

Shell == frontend = "shell"
Depth == Len(Order)
Entries == Range(Order)

\* An exec in progress is a prefix of Order, ...
Stack ==
  /\ held \in Seq(Entries) /\ Len(held) <= Depth
  /\ \A i \in 1..Len(held) : held[i] = Order[i]

\* ... interrupts are off exactly while the second entry of the shell's is there, ...
SignalsOff == enabled <=> ~(Shell /\ Len(held) >= 2)

\* ... and the container, the third, exists only for a request that was not refused.
ContainerAccepted == Len(held) >= 3 => ~Refused(request.step, request.initState)

Values ==
  /\ frontend \in Frontends
  /\ pc \in {"idle", "setup", "running", "teardown"}
  /\ proc \in {"none", "running", "ended"}
  /\ execs \in 0..MaxExecs /\ interrupts \in 0..MaxInterrupts
  /\ shutdown \in BOOLEAN /\ enabled \in BOOLEAN /\ checked \in BOOLEAN
  /\ signal \in When /\ catching \in When
  /\ cancelled \subseteq When
  /\ request \in Requests

IInv ==
  /\ Values /\ Stack /\ SignalsOff /\ ContainerAccepted
  /\ pc = "idle" => held = <<>>

-----------------------------------------------------------------------------
LEMMA OrderFacts ==
  ASSUME frontend \in {"shell", "dap"}
  PROVE  /\ Order \in Seq(Range(Order)) /\ Depth \in {5, 6}
         /\ \A i \in 1..Depth : /\ Order[i] = "signals" <=> Shell /\ i = 2
                                /\ Order[i] = "ctr" <=> i = 3
<1>1. CASE frontend = "dap"
  <2>1. Order = <<"state", "io", "ctr", "proc", "watch">>
    BY <1>1 DEF Order
  <2>2. /\ Depth = 5 /\ Order \in Seq(Range(Order))
        /\ Order[1] = "state" /\ Order[2] = "io" /\ Order[3] = "ctr"
        /\ Order[4] = "proc" /\ Order[5] = "watch"
    BY <2>1 DEF Depth, Range
  <2> QED BY <1>1, <2>2 DEF Shell
<1>2. CASE frontend = "shell" /\ Tty
  <2>1. Order = <<"stdin", "signals", "ctr", "proc", "raw", "watch">>
    BY <1>2 DEF Order
  <2>2. /\ Depth = 6 /\ Order \in Seq(Range(Order))
        /\ Order[1] = "stdin" /\ Order[2] = "signals" /\ Order[3] = "ctr"
        /\ Order[4] = "proc" /\ Order[5] = "raw" /\ Order[6] = "watch"
    BY <2>1 DEF Depth, Range
  <2> QED BY <1>2, <2>2 DEF Shell
<1>3. CASE frontend = "shell" /\ ~Tty
  <2>1. Order = <<"stdin", "signals", "ctr", "proc", "watch">>
    BY <1>3 DEF Order
  <2>2. /\ Depth = 5 /\ Order \in Seq(Range(Order))
        /\ Order[1] = "stdin" /\ Order[2] = "signals" /\ Order[3] = "ctr"
        /\ Order[4] = "proc" /\ Order[5] = "watch"
    BY <2>1 DEF Depth, Range
  <2> QED BY <1>3, <2>2 DEF Shell
<1> QED BY <1>1, <1>2, <1>3, ExecAssumption

-----------------------------------------------------------------------------
\* A container that is not refused has what the step had mounted.
LEMMA MountsOfTheStep ==
  ASSUME NEW s \in Steps, NEW initState \in BOOLEAN, NEW image \in BOOLEAN,
         ~Refused(s, initState)
  PROVE  MountedAsBuilt(s, initState, image)
<1> DEFINE sms == StepMounts(s, initState, image)
           cms == ContainerMounts(s, initState, image)
           top == [dest |-> Root, below |-> FALSE, id |-> Image]
<1>0. /\ s.mounts \in Seq(Mounts) /\ s.inputs \in Seq(Results) /\ s.outputs \in Seq(Results)
      /\ s.exec \in BOOLEAN
  BY DEF Steps
<1>1. cms = IF image THEN <<top>> \o sms ELSE sms
  BY DEF ContainerMounts
<1>2. CASE s.exec
  <2>1. ASSUME NEW i \in 1..Len(s.mounts)
        PROVE  ResultIDs(s, initState)[i] = Holds(s, i, initState)
    <3>1. ExecInputs(s)[i] = IF Provided(s.inputs, s.mounts[i].input)
                             THEN s.inputs[s.mounts[i].input + 1] ELSE NoResult
      BY <1>2 DEF ExecInputs
    <3>2. ExecMounts(s)[i] = IF Provided(s.outputs, s.mounts[i].output)
                             THEN s.outputs[s.mounts[i].output + 1] ELSE ExecInputs(s)[i]
      BY <1>2 DEF ExecMounts
    <3>3. CASE initState
      BY <3>1, <3>3 DEF ResultIDs, Holds
    <3>4. CASE ~initState
      BY <3>1, <3>2, <3>4 DEF ResultIDs, Holds
    <3> QED BY <3>3, <3>4
  <2>2. sms = [i \in 1..Len(s.mounts) |-> [dest |-> s.mounts[i].dest, below |-> image,
                                           id |-> ResultIDs(s, initState)[i]]]
    BY <1>2 DEF StepMounts
  <2> HIDE DEF sms, cms
  <2>3. Len(sms) = Len(s.mounts)
    BY <1>0, <2>2
  <2>4. ASSUME NEW i \in 1..Len(s.mounts)
        PROVE  sms[i] = [dest |-> s.mounts[i].dest, below |-> image, id |-> Holds(s, i, initState)]
    BY <2>1, <2>2
  <2>5. CASE image
    <3>1. sms \in Seq({sms[i] : i \in 1..Len(s.mounts)})
      <4>1. sms \in [1..Len(s.mounts) -> {sms[i] : i \in 1..Len(s.mounts)}]
        BY <2>2
      <4> QED BY <1>0, <4>1
    <3>2. /\ Len(cms) = Len(s.mounts) + 1 /\ cms[1] = top
          /\ \A i \in 1..Len(s.mounts) : cms[i + 1] = sms[i]
      BY <1>0, <1>1, <2>3, <2>5, <3>1
    <3> QED BY <1>2, <2>4, <2>5, <3>2 DEF MountedAsBuilt, cms
  <2>6. CASE ~image
    <3>1. \A i \in 1..Len(s.mounts) : i + 0 = i
      BY <1>0
    <3> QED BY <1>0, <1>1, <1>2, <2>3, <2>4, <2>6, <3>1 DEF MountedAsBuilt, cms
  <2> QED BY <2>5, <2>6
<1>3. CASE ~s.exec
  <2>1. Len(s.outputs) = 1 /\ ResultIDs(s, initState)[1] = s.outputs[1]
    BY <1>3 DEF Refused, ResultIDs, ExecInputs, ExecMounts, Steps
  <2>2. sms = <<[dest |-> Root, below |-> image, id |-> s.outputs[1]]>>
    BY <1>3, <2>1 DEF StepMounts
  <2>3. CASE image
    <3> DEFINE out == [dest |-> Root, below |-> image, id |-> s.outputs[1]]
    <3>1. cms = <<top>> \o <<out>>
      BY <1>1, <2>2, <2>3
    <3> HIDE DEF top, out
    <3>2. Len(cms) = 2 /\ cms[1] = top /\ cms[2] = out
      BY <3>1
    <3> HIDE DEF cms
    <3>3. /\ image => cms[1] = [dest |-> Root, below |-> FALSE, id |-> Image]
          /\ Len(cms) = 1 + (IF image THEN 1 ELSE 0)
          /\ cms[1 + (IF image THEN 1 ELSE 0)] = [dest |-> Root, below |-> image, id |-> s.outputs[1]]
      BY <2>3, <3>2 DEF top, out
    <3> QED BY <1>3, <3>3 DEF MountedAsBuilt, cms
  <2>4. CASE ~image
    BY <1>1, <1>3, <2>2, <2>4 DEF MountedAsBuilt
  <2> QED BY <2>3, <2>4
<1> QED BY <1>0, <1>2, <1>3

-----------------------------------------------------------------------------
\* frontend never changes, nor does what it makes of Order.
Fixed == frontend' = frontend /\ Order' = Order /\ Depth' = Depth /\ Entries' = Entries /\ Shell' = Shell

LEMMA InitIInv == IOInit => IInv
<1> SUFFICES ASSUME IOInit PROVE IInv
  OBVIOUS
<1>1. request \in Requests /\ MaxExecs \in Nat /\ MaxInterrupts \in Nat
  BY RequestsAssumption, ExecAssumption DEF IOInit
<1>2. Values
  <2>1. frontend \in Frontends /\ pc = "idle" /\ proc = "none" /\ signal = "none" /\ catching = "none"
    BY DEF IOInit, Init
  <2>2. execs = 0 /\ interrupts = 0 /\ shutdown = FALSE /\ enabled = TRUE /\ checked = FALSE
    BY DEF IOInit, Init
  <2>3. cancelled = {}
    BY DEF IOInit, Init
  <2>4. pc \in {"idle", "setup", "running", "teardown"} /\ proc \in {"none", "running", "ended"}
    BY <2>1
  <2>5. execs \in 0..MaxExecs /\ interrupts \in 0..MaxInterrupts
    BY <1>1, <2>2
  <2>6. shutdown \in BOOLEAN /\ enabled \in BOOLEAN /\ checked \in BOOLEAN
    BY <2>2
  <2>7. signal \in When /\ catching \in When
    BY <2>1 DEF When
  <2>8. cancelled \subseteq When
    BY <2>3
  <2> QED BY <1>1, <2>1, <2>4, <2>5, <2>6, <2>7, <2>8 DEF Values
<1>3. Depth \in {5, 6}
  BY OrderFacts, ExecAssumption DEF IOInit, Init
<1>4. Stack /\ SignalsOff /\ ContainerAccepted
  BY <1>3 DEF IOInit, Init, Stack, SignalsOff, ContainerAccepted
<1> QED BY <1>2, <1>4 DEF IInv, IOInit, Init

\* A step of an exec that leaves the stack alone.
LEMMA StackKept ==
  ASSUME IInv, Fixed, Values', UNCHANGED <<held, enabled, request>>,
         pc' = "idle" => held = <<>>
  PROVE  IInv'
  BY DEF IInv, Fixed, Stack, SignalsOff, ContainerAccepted, Refused, ResultIDs, ExecInputs, ExecMounts

LEMMA SetUpIInv ==
  ASSUME IInv, Fixed, SetUpIO
  PROVE  IInv'
<1> DEFINE step == Order[Len(held) + 1]
<1>1. /\ Order \in Seq(Range(Order)) /\ Depth \in {5, 6}
      /\ \A i \in 1..Depth : /\ Order[i] = "signals" <=> Shell /\ i = 2
                             /\ Order[i] = "ctr" <=> i = 3
  BY OrderFacts, ExecAssumption DEF IInv, Values
<1>2. /\ held \in Seq(Entries) /\ Len(held) < Depth /\ held' = Append(held, step)
      /\ \A i \in 1..Len(held) : held[i] = Order[i]
  BY DEF IInv, Stack, SetUpIO, SetUp, Depth
<1>3. Len(held) + 1 \in 1..Depth /\ step \in Entries
  BY <1>1, <1>2 DEF Depth, Entries, Range
<1>4. /\ held' \in Seq(Entries) /\ Len(held') = Len(held) + 1
      /\ \A i \in 1..Len(held') : held'[i] = Order[i]
  BY <1>2, <1>3
<1>5. Stack'
  BY <1>1, <1>2, <1>4 DEF Stack, Fixed
<1>6. Values'
  BY DEF IInv, Values, SetUpIO, SetUp, signalVars, Fixed
<1>7. SignalsOff'
  <2>0. Len(held) \in Nat
    BY <1>2
  <2>1. step = "signals" <=> Shell /\ Len(held) = 1
    <3>1. step = "signals" <=> Shell /\ Len(held) + 1 = 2
      BY <1>1, <1>3
    <3>2. \A n \in Nat : n + 1 = 2 <=> n = 1
      OBVIOUS
    <3>3. Len(held) + 1 = 2 <=> Len(held) = 1
      BY <2>0, <3>2
    <3> QED BY <3>1, <3>3
  <2>2. Len(held') >= 2 <=> Len(held) >= 2 \/ Len(held) = 1
    <3>1. \A n \in Nat : n + 1 >= 2 <=> n >= 2 \/ n = 1
      OBVIOUS
    <3>2. Len(held') = Len(held) + 1
      BY <1>4
    <3> QED BY <2>0, <3>1, <3>2
  <2>3. enabled' = (enabled /\ step # "signals")
    BY DEF SetUpIO, SetUp
  <2>4. (enabled <=> ~(Shell /\ Len(held) >= 2)) /\ Shell' = Shell
    BY DEF IInv, SignalsOff, Fixed
  <2> HIDE DEF step
  <2>5. enabled' <=> ~(Shell' /\ Len(held') >= 2)
    BY <2>1, <2>2, <2>3, <2>4, Zenon
  <2> QED BY <2>5 DEF SignalsOff
<1>8. ContainerAccepted'
  BY <1>1, <1>2, <1>3, <1>4
     DEF IInv, ContainerAccepted, SetUpIO, SetUp, Refused, ResultIDs, ExecInputs, ExecMounts
<1> QED BY <1>5, <1>6, <1>7, <1>8 DEF IInv, SetUpIO, SetUp

LEMMA FrontFacts ==
  ASSUME NEW S, NEW s \in Seq(S), s # <<>>
  PROVE  /\ Front(s) \in Seq(S) /\ Len(Front(s)) = Len(s) - 1
         /\ \A i \in 1..Len(s) - 1 : Front(s)[i] = s[i]
<1>1. Len(s) \in Nat /\ Len(s) # 0 /\ \A i \in 1..Len(s) : s[i] \in S
  OBVIOUS
<1>2. \A i \in 1..Len(s) - 1 : s[i] \in S
  BY <1>1
<1>3. /\ SubSeq(s, 1, Len(s) - 1) \in Seq(S)
      /\ Len(SubSeq(s, 1, Len(s) - 1)) = IF 1 <= Len(s) - 1 THEN Len(s) - 1 - 1 + 1 ELSE 0
      /\ \A i \in 1..Len(s) - 1 - 1 + 1 : SubSeq(s, 1, Len(s) - 1)[i] = s[1 + i - 1]
  BY <1>1, <1>2, SubSeqProperties
<1>4. Front(s) \in Seq(S) /\ Len(Front(s)) = Len(s) - 1
  <2>1. (IF 1 <= Len(s) - 1 THEN Len(s) - 1 - 1 + 1 ELSE 0) = Len(s) - 1
    <3>1. \A n \in Nat : n # 0 => (IF 1 <= n - 1 THEN n - 1 - 1 + 1 ELSE 0) = n - 1
      OBVIOUS
    <3> QED BY <1>1, <3>1
  <2> QED BY <1>3, <2>1 DEF Front
<1>5. ASSUME NEW i \in 1..Len(s) - 1
      PROVE  Front(s)[i] = s[i]
  <2>1. 1 + i - 1 = i /\ i \in 1..Len(s) - 1 - 1 + 1
    BY <1>1
  <2>2. SubSeq(s, 1, Len(s) - 1)[i] = s[1 + i - 1]
    BY <1>3, <2>1
  <2> QED BY <2>1, <2>2 DEF Front
<1> QED BY <1>4, <1>5

LEMMA TakeDownIInv ==
  ASSUME IInv, Fixed, TakeDownIO
  PROVE  IInv'
<1>1. /\ Order \in Seq(Range(Order)) /\ Depth \in {5, 6}
      /\ \A i \in 1..Depth : Order[i] = "signals" <=> Shell /\ i = 2
  BY OrderFacts, ExecAssumption DEF IInv, Values
<1>2. /\ held \in Seq(Entries) /\ held # <<>> /\ held' = Front(held) /\ Len(held) <= Depth
      /\ \A i \in 1..Len(held) : held[i] = Order[i]
  BY DEF IInv, Stack, TakeDownIO, TakeDown
<1>3. /\ held' \in Seq(Entries) /\ Len(held') = Len(held) - 1
      /\ \A i \in 1..Len(held') : held'[i] = Order[i]
  BY <1>2, FrontFacts
<1>4. Len(held) \in 1..Depth /\ Last(held) = Order[Len(held)]
  BY <1>1, <1>2 DEF Last
<1>5. Stack'
  BY <1>1, <1>2, <1>3 DEF Stack, Fixed
<1>6. Values'
  BY DEF IInv, Values, TakeDownIO, TakeDown, signalVars, Fixed
<1>7. SignalsOff'
  <2>1. Last(held) = "signals" <=> Shell /\ Len(held) = 2
    BY <1>1, <1>4
  <2>2. Len(held) >= 2 <=> Len(held') >= 2 \/ Len(held) = 2
    BY <1>2, <1>3
  <2>3. enabled' = (enabled \/ Last(held) = "signals")
    BY DEF TakeDownIO, TakeDown
  <2>4. (enabled <=> ~(Shell /\ Len(held) >= 2)) /\ Shell' = Shell
    BY DEF IInv, SignalsOff, Fixed
  <2>5. Len(held) = 2 => ~(Len(held') >= 2)
    BY <1>3
  <2>6. enabled' <=> ~(Shell' /\ Len(held') >= 2)
    BY <2>1, <2>2, <2>3, <2>4, <2>5, Zenon
  <2> QED BY <2>6 DEF SignalsOff
<1>8. ContainerAccepted'
  BY <1>2, <1>3 DEF IInv, ContainerAccepted, TakeDownIO, Refused, ResultIDs, ExecInputs, ExecMounts
<1> QED BY <1>5, <1>6, <1>7, <1>8 DEF IInv, TakeDownIO, TakeDown

LEMMA BeginIInv ==
  ASSUME IInv, Fixed, BeginExec
  PROVE  IInv'
<1>1. held = <<>> /\ held' = held /\ enabled' = enabled
  BY DEF IInv, BeginExec, Begin
<1>2. Values'
  BY ExecAssumption DEF IInv, Values, BeginExec, Begin, signalVars, Fixed
<1> QED BY <1>1, <1>2
        DEF IInv, BeginExec, Begin, Fixed, Stack, SignalsOff, ContainerAccepted

LEMMA StepIInv == IInv /\ [IONext]_ioVars => IInv'
<1> SUFFICES ASSUME IInv, [IONext]_ioVars PROVE IInv'
  OBVIOUS
<1>0. Fixed
  <2>1. frontend' = frontend
    BY DEF IONext, ServerNext, ioVars, vars, Attach, ClientStep, ClientGoes, OpenFifo, OpenFails,
           OpenTimesOut, ClientFinishes, ClientFails, ForwarderStep, ForwarderWatches, ForwarderEnds
  <2> QED BY <2>1 DEF Fixed, Order, Depth, Entries, Range, Shell
<1>1. CASE BeginExec
  BY <1>0, <1>1, BeginIInv
<1>2. CASE SetUpIO
  BY <1>0, <1>2, SetUpIInv
<1>3. CASE TakeDownIO
  BY <1>0, <1>3, TakeDownIInv
<1>4. CASE RunIO
  <2>1. Values' /\ UNCHANGED <<held, enabled, request>> /\ pc' # "idle"
    BY <1>0, <1>4 DEF IInv, Values, RunIO, Run, signalVars, Fixed
  <2> QED BY <1>0, <2>1, StackKept
<1>5. CASE Other
  <2>0. UNCHANGED request
    BY <1>5 DEF Other
  <2>1. CASE SetUpFails \/ Stop \/ ProcEnds \/ Shutdown
    <3>1. Values' /\ UNCHANGED <<held, enabled>> /\ (pc' = "idle" => held = <<>>)
      BY <1>0, <2>0, <2>1
         DEF IInv, Values, SetUpFails, Stop, ProcEnds, Shutdown, execVars, signalVars, Fixed
    <3> QED BY <1>0, <2>0, <3>1, StackKept
  <2>2. CASE Return
    <3>1. Values' /\ UNCHANGED <<held, enabled>> /\ held = <<>>
      BY <1>0, <2>0, <2>2 DEF IInv, Values, Return, signalVars, Fixed
    <3> QED BY <1>0, <2>0, <3>1, StackKept
  <2>3. CASE Interrupt \/ SignalStep
    <3>0. MaxInterrupts \in Nat
      BY ExecAssumption
    <3>1. UNCHANGED <<pc, held, proc, execs, shutdown, enabled>>
      BY <2>3 DEF Interrupt, SignalStep, Catch, Check, CancelSession, execVars
    <3>2. /\ interrupts' \in 0..MaxInterrupts /\ checked' \in BOOLEAN
          /\ signal' \in When /\ catching' \in When /\ cancelled' \subseteq When
      <4>0. /\ interrupts \in 0..MaxInterrupts /\ checked \in BOOLEAN /\ enabled \in BOOLEAN
            /\ signal \in When /\ catching \in When /\ cancelled \subseteq When
        BY DEF IInv, Values
      <4>1. CASE Interrupt
        BY <3>0, <4>0, <4>1 DEF When, Interrupt
      <4>2. CASE Catch
        BY <4>0, <4>2 DEF When, Catch
      <4>3. CASE Check
        BY <4>0, <4>3 DEF When, Check
      <4>4. CASE CancelSession
        BY <4>0, <4>4 DEF When, CancelSession
      <4> QED BY <2>3, <4>1, <4>2, <4>3, <4>4 DEF SignalStep
    <3>3. Values' /\ (pc' = "idle" => held = <<>>)
      BY <1>0, <2>0, <3>1, <3>2 DEF IInv, Values, Fixed
    <3> QED BY <1>0, <2>0, <3>1, <3>3, StackKept
  <2> QED BY <1>5, <2>1, <2>2, <2>3 DEF Other
<1>6. CASE UNCHANGED <<vars, request>>
  <2>1. Values' /\ UNCHANGED <<held, enabled, request>> /\ (pc' = "idle" => held = <<>>)
    BY <1>6 DEF IInv, Values, vars
  <2> QED BY <1>0, <2>1, StackKept
<1>7. CASE \E e \in Execs : Attach(e) \/ ClientStep(e) \/ ForwarderStep(e)
  <2>1. UNCHANGED <<vars, request>>
    BY <1>7 DEF Attach, ClientStep, ClientGoes, OpenFifo, OpenFails, OpenTimesOut,
                ClientFinishes, ClientFails, ForwarderStep, ForwarderWatches, ForwarderEnds
  <2> QED BY <1>6, <2>1
<1> QED BY <1>1, <1>2, <1>3, <1>4, <1>5, <1>6, <1>7 DEF IONext, ServerNext, ioVars

LEMMA Invariance == IOSpec => []IInv
  BY InitIInv, StepIInv, PTL DEF IOSpec

-----------------------------------------------------------------------------
\* The variables of ContainerExec keep their types.
THEOREM TypeCorrect == IOSpec => []TypeOK
<1>1. IInv => TypeOK
  BY DEF IInv, Values, Stack, TypeOK, Entries
<1> QED BY <1>1, Invariance, PTL

\* Fifos, client and forwarder constrain an exec's steps and add none: what holds
\* of ContainerExec alone holds with them (pkg/dap/io.go:25-138, 218-230).
THEOREM IORunsExec == IOSpec => Spec
<1>1. IOInit => Init
  BY DEF IOInit
<1>2. [IONext]_ioVars => [Next]_vars
  <2> SUFFICES ASSUME [IONext]_ioVars PROVE [Next]_vars
    OBVIOUS
  <2>1. CASE ServerNext
    BY <2>1 DEF ServerNext, BeginExec, SetUpIO, RunIO, TakeDownIO, Other, Next, ExecStep
  <2>2. CASE \E e \in Execs : Attach(e) \/ ClientStep(e) \/ ForwarderStep(e)
    BY <2>2 DEF Attach, ClientStep, ForwarderStep, OpenFifo, OpenFails, OpenTimesOut, ClientFinishes,
       ClientFails, ClientGoes, ForwarderWatches, ForwarderEnds
  <2> QED BY <2>1, <2>2 DEF IONext, ioVars
<1> QED BY <1>1, <1>2, PTL DEF IOSpec, Spec

\* Whatever failed on the way, nothing is left of an exec that is over, and
\* interrupts are handled again (pkg/buildkit/exec.go:48-55).
THEOREM ExecsLeaveNothing == IOSpec => []NothingLeaks
<1>1. IInv => NothingLeaks
  BY DEF IInv, SignalsOff, NothingLeaks
<1> QED BY <1>1, Invariance, PTL

\* Clean-ups run in the reverse of the order in which they were pushed
\* (pkg/buildkit/exec.go:50-54, 153-158).
THEOREM CleanUpsReverse == IOSpec => []TakenDownInReverse
<1>1. IInv => TakenDownInReverse
  <2> SUFFICES ASSUME IInv PROVE IsPrefix(held, Order)
    BY DEF TakenDownInReverse
  <2>1. /\ held \in Seq(Entries) /\ Order \in Seq(Range(Order)) /\ Len(held) <= Len(Order)
        /\ \A i \in 1..Len(held) : held[i] = Order[i]
    BY OrderFacts, ExecAssumption DEF IInv, Values, Stack, Depth
  <2>2. SubSeq(held, 1, Len(held)) = [i \in 1..Len(held) |-> held[i]]
    BY <2>1
  <2>3. SubSeq(Order, 1, Len(held)) = [i \in 1..Len(held) |-> Order[i]]
    BY <2>1
  <2> QED BY <2>1, <2>2, <2>3 DEF IsPrefix
<1> QED BY <1>1, Invariance, PTL

\* A container that exists has what its step had mounted, at the step's places
\* (controller.go:326-356, pkg/buildkit/exec.go:31-46, 63-113).
THEOREM ContainersMatchSteps == IOSpec => []RunsOnTheStep
<1>1. IInv => RunsOnTheStep
  <2> SUFFICES ASSUME IInv, "ctr" \in Range(held)
               PROVE  MountedAsBuilt(request.step, request.initState, request.image)
    BY DEF RunsOnTheStep
  <2>1. PICK i \in 1..Len(held) : held[i] = "ctr"
    BY DEF Range
  <2>2. Len(held) >= 3
    BY <2>1, OrderFacts, ExecAssumption DEF IInv, Values, Stack
  <2>3. request \in [step : Steps, initState : BOOLEAN, image : BOOLEAN]
    BY RequestsAssumption DEF IInv, Values
  <2> QED BY <2>2, <2>3, MountsOfTheStep DEF IInv, ContainerAccepted
<1> QED BY <1>1, Invariance, PTL
=============================================================================
