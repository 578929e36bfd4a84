---------------------------- MODULE MCContainerIO ----------------------------
(* Instances of ContainerIO for TLC. *)
EXTENDS ContainerIO

Mount(d, i, o) == [dest |-> d, input |-> i, output |-> o]

\* RUN with a root it changes, a bind of another step and a cache; the same with
\* a root that is discarded; COPY; an operation with two results.
MCRun ==
  [exec |-> TRUE, inputs |-> <<"base", "context">>, outputs |-> <<"made">>,
   mounts |-> <<Mount("/", 0, 0), Mount("/src", 1, -1), Mount("/cache", -1, -1)>>]
MCStep(n) == [exec |-> FALSE, mounts |-> <<>>, inputs |-> <<"base">>,
              outputs |-> SubSeq(<<"made", "other">>, 1, n)]
MCRequests ==
  [step : {MCRun, [MCRun EXCEPT !.outputs = <<>>], MCStep(1), MCStep(2)},
   initState : BOOLEAN, image : BOOLEAN]
=============================================================================
