CONSTANTS
  Procs = {p1, p2}
  Readers = {}
  Writers = {w1, w2}
  OpIds = {o1}
  Records = {a}
  Commands = {"resume", "update", "prune", "recover"}
  None = None
  LeaseLen = 1
  Keep = 4
  SegMin = 1
  SegMax = 1
  Sizes = {"below"}
  KeepHistory = 2
  MaxRev = 4
  MaxTime = 2
SPECIFICATION Spec
SYMMETRY Symmetry
INVARIANTS TypeOK IInv SnapshotsRecoverable HistoryIsLinear RecentHistoryKept
PROPERTIES LeaseRespected

