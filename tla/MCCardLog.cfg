SPECIFICATION Spec
CONSTANTS
  Card = {c1}
  Version = {v1, v2}
  Payload = {p1, p2}
  Challenge = {h1, h2}
  User = {u1}
  Key = {k1, k2}
  Expected = {v1, v2}
  None = None
SYMMETRY Symmetry
INVARIANTS
  StatusFromLog
  OneEffectPerKey
  ConsentBinding
  RetainedWithConsent
  RevokedIffTombstone
PROPERTIES
  AppendOnly
  RevokedIsFinal
  LifecycleSpec
CHECK_DEADLOCK FALSE
