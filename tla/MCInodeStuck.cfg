SPECIFICATION Spec
CONSTANTS
  Procs = {p1, p2}
  NoProc = NoProc
  Names = {"a", "b"}
  NINODES = 3
  NINODE = 3
  OldDirs = {"a"}
  MaxDepth = 1
  Calls <- MCCalls
  MaxCalls = 2
INVARIANTS NeverStuck
CHECK_DEADLOCK FALSE
