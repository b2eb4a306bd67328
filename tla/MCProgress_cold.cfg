CONSTANTS
  Tasks = {t1, t2}
  Blockers = {}
  Evidence = {e1, e2}
  Decisions = {d1}
  Corrections = {c1}
  Conditions = {}
  MaxLife = 1
  None = None
SPECIFICATION Spec
SYMMETRY Symmetry
INVARIANTS DecisionIdsAreForever ArchivalRefusalsAreExplained
PROPERTIES WithdrawnForGood NothingVanishes
