SPECIFICATION TerminalFairSpec
CONSTANTS
  Uses = {"p1", "p2", "exec"}
  Prompt <- MCPrompt
  MaxChunks = 2
  MaxLines = 4
  LogSizes = {2, 3}
  None = "none"
INVARIANTS NoSecondWriter OutputOnceInOrder
PROPERTIES EndOfInputEndsUses LeavingEnds QuietPrompt LogPrintsTail
CHECK_DEADLOCK FALSE
