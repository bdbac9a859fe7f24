SPECIFICATION InstancesSpec
CONSTANTS
  MaxJobs = 3
  MaxFaults = 3
  Faults <- MCHostile
  Ids = {i1, i2}
  Callers = {c1, c2}
  ServerNames = {n1, n2}
  Ports = {p1, p2}
  Branches = {"public", "closed"}
  Locked = {"closed"}
  MaxBuild = 2
  PortAttempts = 1
  Attempts = 2
  MaxReboots = 1
  MaxMishaps = 1
SYMMETRY Symmetry
INVARIANTS UnprovenNotStarted 
CHECK_DEADLOCK FALSE
