SPECIFICATION Spec
CONSTANTS
  Procs = {"debug", "reuse", "prune", "dap1", "dap2"}
  Roots = {"data", "dap"}
  Kind <- MCKind
  SharedRoot <- MCSharedRoot
  Nobody = "nobody"
INVARIANTS RootIsExclusive LockNotOrphaned TempsAccounted
CHECK_DEADLOCK FALSE
