--------------------------- MODULE MCDebugSession ---------------------------
(* Instances of DebugSession for TLC: a Dockerfile of three steps. *)
EXTENDS DebugSession, TLC

CONSTANTS s1, s2, s3

\* Two stages built from the same base.
Fork == s1 :> {} @@ s2 :> {s1} @@ s3 :> {s1}

\* The two stages are interchangeable.
Symmetry == Permutations({s2, s3})
=============================================================================
