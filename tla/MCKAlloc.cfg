SPECIFICATION MCSpec
CONSTANTS
  NFRAMES = 5
  MAX_FRAME_NUM = 3
  KINIT2 = 4
  Pids = {1, 2}
  Threads = {t1, t2}
  Versions = {"v1a", "v1b", "v1a-sort", "v2-sort"}
INVARIANTS FreelistSorted Conserved DumpTruthful SequentiallyApart GuardPages
CHECK_DEADLOCK FALSE
