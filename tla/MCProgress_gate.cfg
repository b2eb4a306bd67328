CONSTANTS
  Tasks = {t1}
  Blockers = {b1}
  Evidence = {e1}
  Decisions = {}
  Corrections = {c1}
  Conditions = {x}
  MaxLife = 2
  None = None
SPECIFICATION Spec
SYMMETRY Symmetry
INVARIANTS TypeOK DoneInThisLife
