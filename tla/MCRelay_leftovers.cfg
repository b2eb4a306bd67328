CONSTANTS
  Procs = {p1}
  Readers = {}
  Writers = {w1}
  OpIds = {}
  Records = {a}
  Commands = {"resume", "update"}
  None = None
  LeaseLen = 1
  Keep = 4
  SegMin = 1
  SegMax = 1
  Sizes = {"below"}
  KeepHistory = 1
  MaxRev = 3
  MaxTime = 0
SPECIFICATION Spec

INVARIANTS LeftoversAreHarmless

