CONSTANTS
  p1 = p1
  p2 = p2
  b1 = b1
  b2 = b2
  Procs = {p1, p2}
  Writers = {w1}
  OpIds = {o1}
  Commands <- Callers
  Trees <- Worktrees
  Schemas = {4}
  MaxRev = 2
  MaxEdits = 1
  None = None
SPECIFICATION Spec
INVARIANTS TypeOK EditsAreKept TextSurvives MigrationsAreApproved CommitsUnderWay UpgradesAreSmooth
PROPERTIES DriftIsReviewed
