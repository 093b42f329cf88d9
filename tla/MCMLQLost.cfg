SPECIFICATION Spec
CONSTANTS
  NPROC = 3
  NCPU = 1
  NLAYER = 2
  SLICE = 1
  MaxSetPri = 1
  MaxFail = 0
  MaxKill = 0
INVARIANTS NoLostProcess
CHECK_DEADLOCK FALSE
