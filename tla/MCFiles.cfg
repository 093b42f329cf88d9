SPECIFICATION FairSpec
CONSTANTS
  Procs = {p1, p2}
  Root = p1
  NOFILE = 2
  NFILE = 3
  Pages = {pg1}
  PIPESIZE = 2
  CounterMod = 4
  Byte = {0, 1}
  Buffers <- MCBuffers
  Sizes = {2}
  MaxOpens = 3
  Unlocked = Unlocked
INVARIANTS TypeOK Accounted SleepersMustWait
PROPERTIES IsByteStream CloseReleases
CHECK_DEADLOCK FALSE
