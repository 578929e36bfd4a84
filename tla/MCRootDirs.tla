----------------------------- MODULE MCRootDirs -----------------------------
(* An instance of RootDirs for TLC: three commands share data, two dap      *)
(* servers share dap.                                                       *)
EXTENDS RootDirs

MCKind == [debug |-> "debug", reuse |-> "reuse", prune |-> "maintain",
           dap1 |-> "dap", dap2 |-> "dap"]
MCSharedRoot == [p \in Procs |-> IF Kind[p] = "dap" THEN "dap" ELSE "data"]
=============================================================================
