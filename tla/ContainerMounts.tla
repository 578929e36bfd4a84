-------------------------- MODULE ContainerMounts --------------------------
(***************************************************************************)
(* What a debug container has mounted.  controller.go (getResultMounts)    *)
(* pairs the mounts of a step with its inputs and outputs; the handler is  *)
(* given the two lists, one entry per mount; pkg/buildkit/exec.go pairs    *)
(* them with the mounts again, and puts them below mountroot if there is a *)
(* debug image.  Mounts refer to inputs and outputs by index from 0; -1    *)
(* is none.                                                                *)
(***************************************************************************)
EXTENDS Integers, Sequences

CONSTANTS
  Dests,           \* mountpoints; "/" is Root
  Results,         \* results of steps
  Root, NoResult, Image

Mounts == [dest : Dests, input : Int, output : Int]

\* A step the debugger holds: a RUN step (exec) or another operation.
Steps == [exec : BOOLEAN, mounts : Seq(Mounts), inputs : Seq(Results), outputs : Seq(Results)]

ASSUME MountsAssumption == Root \in Dests /\ NoResult \notin Results

Provided(list, i) == 0 <= i /\ i < Len(list)

-----------------------------------------------------------------------------
(* getResultMounts *)

ExecInputs(s) ==
  IF s.exec
  THEN [i \in 1..Len(s.mounts) |->
          IF Provided(s.inputs, s.mounts[i].input) THEN s.inputs[s.mounts[i].input + 1] ELSE NoResult]
  ELSE <<>>

ExecMounts_OutputsOnlyBug(s) ==
  IF s.exec
  THEN [i \in 1..Len(s.mounts) |->
          IF Provided(s.outputs, s.mounts[i].output) THEN s.outputs[s.mounts[i].output + 1]
          ELSE NoResult]
  ELSE IF Len(s.outputs) = 1 THEN s.outputs ELSE <<>>

\* The inputs are copied and the outputs written over them.
ExecMounts(s) ==
  IF s.exec
  THEN [i \in 1..Len(s.mounts) |->
          IF Provided(s.outputs, s.mounts[i].output) THEN s.outputs[s.mounts[i].output + 1]
          ELSE ExecInputs(s)[i]]
  ELSE IF Len(s.outputs) = 1 THEN s.outputs ELSE <<>>

-----------------------------------------------------------------------------
(* ExecContainer: the request to NewContainer *)

ResultIDs(s, initState) == IF initState THEN ExecInputs(s) ELSE ExecMounts(s)

\* "one rootfs mount must be specified".
Refused(s, initState) == ~s.exec /\ Len(ResultIDs(s, initState)) # 1

\* below: at dest below mountroot.
StepMounts(s, initState, below) ==
  IF s.exec
  THEN [i \in 1..Len(s.mounts) |-> [dest |-> s.mounts[i].dest, below |-> below,
                                    id |-> ResultIDs(s, initState)[i]]]
  ELSE <<[dest |-> Root, below |-> below, id |-> ResultIDs(s, initState)[1]]>>

ContainerMounts(s, initState, image) ==
  IF image
  THEN <<[dest |-> Root, below |-> FALSE, id |-> Image]>> \o StepMounts(s, initState, TRUE)
  ELSE StepMounts(s, initState, FALSE)

-----------------------------------------------------------------------------
\* What a mount of the step holds, by its own indices: what the step made of it,
\* else what it was given; with --init-state what it was given.
Holds(s, i, initState) ==
  LET m == s.mounts[i] IN
  CASE ~initState /\ Provided(s.outputs, m.output) -> s.outputs[m.output + 1]
    [] (initState \/ ~Provided(s.outputs, m.output)) /\ Provided(s.inputs, m.input) ->
         s.inputs[m.input + 1]
    [] OTHER -> NoResult

\* Every mount of the step is in the container at its own place and with its own
\* result; with an image all of them are below mountroot and the image is the
\* root, without one nothing is below; a step that is not a RUN is its one output.
MountedAsBuilt(s, initState, image) ==
  LET cms == ContainerMounts(s, initState, image)
      k == IF image THEN 1 ELSE 0
  IN
  /\ image => cms[1] = [dest |-> Root, below |-> FALSE, id |-> Image]
  /\ s.exec => /\ Len(cms) = Len(s.mounts) + k
               /\ \A i \in 1..Len(s.mounts) :
                    cms[i + k] = [dest |-> s.mounts[i].dest, below |-> image,
                                  id |-> Holds(s, i, initState)]
  /\ ~s.exec /\ ~Refused(s, initState) =>
       /\ Len(cms) = 1 + k
       /\ cms[1 + k] = [dest |-> Root, below |-> image, id |-> s.outputs[1]]
=============================================================================
