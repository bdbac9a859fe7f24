SPECIFICATION Spec
CONSTANTS
  MaxJobs = 1
  MaxFaults = 1
  Faults <- MCDrain
INVARIANTS RestartKept
CHECK_DEADLOCK FALSE
