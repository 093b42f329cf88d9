SPECIFICATION Spec
CONSTANTS
  Procs = {p1, p2}
  NBUF = 2
  LogBlocks = {l1}
  Indirect = {i1}
  OtherBlocks = {b1, b2}
  Data = {d1, d2}
  NoBlock = NoBlock
  NoProc = NoProc
  NoData = NoData
  MaxPinned = 2
SYMMETRY Symmetry
INVARIANTS TypeOK ReadsLatest PanicOnlyWhenPinned NobodyForgotten
