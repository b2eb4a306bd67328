CONSTANTS
  Procs = {p1, p2}
  Readers = {}
  Writers = {w1, w2}
  OpIds = {o1}
  Records = {}
  Commands = {"resume", "compact"}
  None = None
  LeaseLen = 1
  Keep = 1
  SegMin = 2
  SegMax = 2
  Sizes = {"below", "trigger", "limit"}
  KeepHistory = 2
  MaxRev = 4
  MaxTime = 2
SPECIFICATION Spec
SYMMETRY Symmetry
INVARIANTS CurrentResolvable OneReceiptPerRevision
PROPERTIES ImplementsLedger
