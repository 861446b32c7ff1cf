CONSTANTS
  shared1 = shared1
  shared2 = shared2
  own = own
  pool = pool
  single = single
  Job = {j1}
  Runner = {shared1, shared2, own}
  Sweeper = {s1, s2}
  Principal = {pool, single}
  principalOf <- MCPrincipalOf
  MaxAttempts = 2
  Patience = 4
  Stalls = TRUE
  NoJob = NoJob
SPECIFICATION FairSpec
INVARIANTS AttemptLedger OutboxFollowsJob
PROPERTIES SettledIsFinal Settles
CHECK_DEADLOCK FALSE
