SPECIFICATION ArchivesSpec
CONSTANTS
  Kinds = {"restore", "update", "clone"}
  s1 = s1
  s2 = s2
  Saves <- TwoSaves
  MaxAttempts = 3
  MayFail <- BeforeSwap
  MaySkip = FALSE
  CrashInRecovery = FALSE
  StartsEmpty = FALSE
  None = None
  WorldStates <- MCWorlds
  MinDB = 2
  CheckedVersions = {41}
  Policies <- MCPolicies
  Links = {"s1"}
  MaxArchives = 3
  MaxHand = 1
  MaxPanelDeaths = 1
  Unset = Unset
  Nothing = Nothing
  SetupIds = {f1, f2}
  Layouts <- TwoLayouts
  Managed = {"p", "q"}
  ConfigFile = "c"
  Settings = {"l1", "l2"}
  Texts = {"x"}
  MaxEdits = 2
  MaxDeaths = 2
  MaxFailures = 1
SYMMETRY Symmetry
INVARIANTS RecoveredWhole CurrentSurvives CatalogTrue SetupsHold
PROPERTIES AtomicSwap LastSoundKept
