SPECIFICATION FairSpec
CONSTANTS
  Procs = {p1, p2}
  NoProc = NoProc
  Names = {"a", "b"}
  NINODES = 3
  NINODE = 3
  OldDirs = {"a"}
  MaxDepth = 1
  Calls <- MCCalls
  MaxCalls = 3
PROPERTIES CallsReturn
INVARIANTS NoDangling Settled
CHECK_DEADLOCK FALSE
