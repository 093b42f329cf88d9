SPECIFICATION FairSpec
CONSTANTS
  NPROC = 3
  NCPU = 1
  NLAYER = 2
  SLICE = 1
  MaxSetPri = 0
  MaxFail = 0
  MaxKill = 0
INVARIANTS TypeOK QueuesSound NoOrphan WaitNotMissed
PROPERTIES PriorityRespected TopRuns
CHECK_DEADLOCK FALSE
