CONSTANTS
  one = one
  two = two
  small = small
  large = large
  Request = {q1, q2}
  Blocked = {q2}
  Server = {small, large, keyless}
  Keyed = {small, large}
  Worker = {one, two, three}
  serverOf <- MCServerOf
  Answers <- MCAnswers
  MaxAttempts = 2
  Patience = 4
  None = None
SPECIFICATION FairSpec
INVARIANTS PassIsEarned SoleWorker AttemptsBounded
PROPERTIES VerdictIsFinal SettlesForGood
CHECK_DEADLOCK FALSE
