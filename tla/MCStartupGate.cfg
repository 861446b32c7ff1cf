CONSTANTS
  t1 = t1
  t2 = t2
  Global = Global
  Plugin = Plugin
  Turn = {t1, t2}
  Prompt = {"task", "raw", "child"}
  Matches <- MCMatches
  InKnudg <- MCInKnudg
  Installs <- MCInstalls
  Verdicts = {"no_actionable_signal"}
  Delegated = {"child"}
  Environments <- MCEnvironments
  HookTimeout = 2
  Window = 2
  Lines = 2
  MaxTime = 4
  Null = Null
SPECIFICATION Spec
INVARIANTS NoRecursion ContextIsTrue RepeatIsSilent
SYMMETRY MCSymmetry
CHECK_DEADLOCK FALSE
