SPECIFICATION TimelySpec
CONSTANTS
  Crons = {"daily", "hourly"}
  Matches <- MCMatches
  Offset <- MCOffset
  Span = 14
  Horizon = 8
  MaxDeferral = 2
  MaxRun = 2
  StopTimeout = 1
  MinStopLead = 1
  QuietLead = 4
  Claimable = {"running", "stopped"}
  CutTimes = {8}
  MaxEdits = 1
  MaxCuts = 1
  Editors = {e1, e2}
  RightSets <- MCRightSets
  Edited = {"server_name", "password", "keep", "name"}
  MaxNamed = 2
  MaxPatches = 3
CONSTRAINT OneAccident
INVARIANTS   HoldHonoured 
 
CHECK_DEADLOCK FALSE
