---------------------------- MODULE MCDebugCall ----------------------------
(* Instances of DebugCall for TLC: steps that need no other. *)
EXTENDS DebugCall

Independent == [s \in Steps |-> {}]
=============================================================================
