CONSTANTS
  r1 = r1
  r2 = r2
  r3 = r3
  s1 = s1
  s2 = s2
  Runner = {r1, r2, r3}
  Last = 3
  Sum = {s1, s2}
  base <- MCBase
  Null = Null
SPECIFICATION Spec
INVARIANTS LedgerTellsSchema SuccessMeansSchema
SYMMETRY MCSymmetry
CHECK_DEADLOCK FALSE
