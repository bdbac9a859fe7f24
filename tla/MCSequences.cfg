SPECIFICATION InstanceSpec
CONSTANTS
  MaxJobs = 3
  MaxFaults = 3
  Faults <- MCOrderly
  Definitions <- MCDefinitions
  ChainPlans <- MCChains
  Packages = {"a", "b"}
  Offered = {"a", "b"}
  Askers = {"u1"}
  Resumers = {1, 2}
  MaxAsked = 3
  MaxDeaths = 1
INVARIANTS RestartKept CompletedMeansBuilt
PROPERTIES  EverythingSettles SequencesEnd
CHECK_DEADLOCK FALSE
