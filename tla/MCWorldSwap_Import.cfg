CONSTANTS
  Kinds = {"import"}
  s1 = s1
  s2 = s2
  Saves <- TwoSaves
  MaxAttempts = 1
  MayFail <- BeforeSwap
  MaySkip = FALSE
  CrashInRecovery = FALSE
  StartsEmpty = FALSE
  None = None
SPECIFICATION Spec
INVARIANT OneWorldAtRest
