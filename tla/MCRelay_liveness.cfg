CONSTANTS
  Procs = {p1, p2}
  Readers = {r1}
  Writers = {w1}
  OpIds = {}
  Records = {a}
  Commands = {"resume", "update", "prune", "compact"}
  None = None
  LeaseLen = 1
  Keep = 1
  SegMin = 1
  SegMax = 1
  Sizes = {"below"}
  KeepHistory = 1
  MaxRev = 4
  MaxTime = 0
SPECIFICATION FairSpec


PROPERTIES LockIsReleased
INVARIANTS MissesAreExplained
