SPECIFICATION FairSpec
CONSTANTS
  Procs = {p1, p2}
  Blocks = {b1, b2, b3}
  Data = {d0, d1}
  NotCached = NotCached
  NoBlock = NoBlock
  MAXOPBLOCKS = 1
  LOGSIZE = 3
  NLOG = 3
INVARIANTS TypeOK  CommitExclusive Durable Pinned
PROPERTIES AtomicCommit SleeperWakes
CHECK_DEADLOCK FALSE
