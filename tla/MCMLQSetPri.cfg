SPECIFICATION Spec
CONSTANTS
  NPROC = 2
  NCPU = 1
  NLAYER = 2
  SLICE = 1
  MaxSetPri = 1
  MaxFail = 1
  MaxKill = 1
INVARIANTS KilledNotAsleep
CHECK_DEADLOCK FALSE
