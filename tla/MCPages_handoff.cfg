CONSTANTS
  t1 = t1
  t2 = t2
  a = a
  b = b
  c = c
  Tasks = {t1, t2}
  Conds = {a, b, c}
  Readers = {r1}
  First <- Opening
  Limits = {1, 3}
  Offsets = {0, 1}
  MaxRev = 2
  None = None
SPECIFICATION Spec
INVARIANTS TruncatedIsIncomplete
