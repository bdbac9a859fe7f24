SPECIFICATION BackupsSpec
CONSTANTS
  WorldStates <- MCWorlds
  MinDB = 2
  CheckedVersions = {41}
  Policies <- MCPolicies
  Links = {"s1"}
  MaxArchives = 3
  MaxHand = 1
  MaxPanelDeaths = 0
  Unset = Unset
INVARIANT ConsistentMeansDown
CHECK_DEADLOCK FALSE
