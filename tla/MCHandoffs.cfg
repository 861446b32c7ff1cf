CONSTANTS
  Card = {c1}
  Version = {v1, v2}
  Payload = {p1, p2}
  Challenge = {h1, h2}
  User = {u1}
  Key = {k1, k2}
  Expected = {None}
  None = None
  Operator = {o1}
  Zone = {z1}
  Record = {r1}
SPECIFICATION AllSpec
INVARIANT PendingCanComplete
PROPERTIES KernelSpec StoredUnderConsent
SYMMETRY Symmetry
CHECK_DEADLOCK FALSE
