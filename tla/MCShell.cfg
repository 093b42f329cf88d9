SPECIFICATION FairSpec
CONSTANTS
  Pids = {1, 2, 3}
  MAX_SIM_JOBS = 2
  MAX_JID = 3
  MaxCommands = 5
  MaxForkFail = 1
  Lines <- MCLines
INVARIANTS NothingLost
PROPERTIES WaitTruthful ForegroundReturns
