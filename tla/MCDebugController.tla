------------------------- MODULE MCDebugController -------------------------
(* Instances of DebugController for TLC. *)
EXTENDS DebugController, TLC

Symmetry == Permutations(Calls) \cup Permutations(Handlers)
=============================================================================
