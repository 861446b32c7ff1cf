CONSTANTS
  p = p
  m1 = m1
  m2 = m2
  r1 = r1
  g1 = g1
  Free = Free
  Publisher = {p}
  Merger = {m1, m2}
  Revoker = {r1}
  Purger = {g1}
SPECIFICATION FairSpec
INVARIANTS SearchesAgree AlwaysFound NoLostUpdate SecondPurgeCompletes
PROPERTIES EveryCallEnds
CHECK_DEADLOCK FALSE
