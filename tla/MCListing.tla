------------------------------ MODULE MCListing ------------------------------
(* Instances of Listing for TLC. *)
EXTENDS Listing

\* A Dockerfile of six lines, of which breakpoints may be set on the first three:
\* a step with ranges on lines 1 and 5, a step over lines 2 and 3, and a step the
\* frontend made up, with no place in the file.
MCVertices == {"first", "second", "hidden"}
MCLocations ==
  [v \in MCVertices |->
     CASE v = "first" -> {[file |-> "Dockerfile", start |-> 1, end |-> 1],
                          [file |-> "Dockerfile", start |-> 5, end |-> 5]}
       [] v = "second" -> {[file |-> "Dockerfile", start |-> 2, end |-> 3]}
       [] OTHER -> {}]

MCFlagValues == {-1, 0, 1, 4}
=============================================================================
