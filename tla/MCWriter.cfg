CONSTANTS
  worker = worker
  Card = {c1}
  Version = {v1}
  Payload = {p1}
  Challenge = {h1}
  User = {u1}
  None = None
  NoJob = NoJob
  Job <- MCJob
  OwnerKey = {k1}
  Planner = {n1, n2}
  Runner = {r1, r2}
  Sweeper = {s1}
  Principal = {worker}
  principalOf <- MCPrincipalOf
  MaxAttempts = 2
  Patience = 2
  Stalls = TRUE
SPECIFICATION AllSpec
INVARIANT JobEffect
CHECK_DEADLOCK FALSE
SYMMETRY Symmetry
