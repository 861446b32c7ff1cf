CONSTANTS
  c1 = c1
  c2 = c2
  c3 = c3
  u1 = u1
  u2 = u2
  elsewhere = elsewhere
  Command = {c1, c2, c3}
  Url = {u1, u2}
  Target = {u1, u2, elsewhere}
  Depth = {"off", "hard"}
  Auth = {"local", "closed"}
  Type <- MCType
  Capabilities <- MCCapabilities
  Null = Null
SPECIFICATION Spec
INVARIANTS TokenGoesToVetted PinAndCacheAgree SettingsKept
SYMMETRY MCSymmetry
CHECK_DEADLOCK FALSE
