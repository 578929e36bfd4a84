----------------------------- MODULE MCTerminal -----------------------------
(* An instance of Terminal for TLC: prompts and one container. *)
EXTENDS Terminal

MCPrompt == [u \in Uses |-> u # "exec"]
=============================================================================
