SPECIFICATION OutwardSpec
CONSTANTS
  Kinds = {"restore", "update", "clone", "import"}
  s1 = s1
  s2 = s2
  Saves <- TwoSaves
  MaxAttempts = 3
  MayFail <- AllPhases
  MaySkip = TRUE
  CrashInRecovery = TRUE
  StartsEmpty = TRUE
  None = None
  Places = {d1, d2}
  Archives = {1, 2}
  Makes <- ColdMakes
  Limits = {0, 1}
  MaxRemoteEdits = 1
  MaxRemoteKills = 1
  MaxLine = 6
  RingSize = 2
  QueueDepth = 2
  MaxStates = 1
  MaxVersion = 2
  MaxMoves = 3
  MaxFalls = 1
INVARIANTS NoTruncatedWorld  
PROPERTY AppliesTested
