CONSTANTS
  p = p
  m1 = m1
  m2 = m2
  r1 = r1
  g1 = g1
  Free = Free
  Publisher = {p}
  Merger = {m1}
  Revoker = {}
  Purger = {g1}
SPECIFICATION Spec
INVARIANT PurgeIsComplete
CHECK_DEADLOCK FALSE
