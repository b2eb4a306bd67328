CONSTANTS
  Tasks = {t1, t2}
  Blockers = {b1}
  Evidence = {}
  Decisions = {}
  Corrections = {}
  Conditions = {x}
  MaxLife = 1
  None = None
SPECIFICATION Spec
SYMMETRY Symmetry
PROPERTIES OpenBlockersStay
