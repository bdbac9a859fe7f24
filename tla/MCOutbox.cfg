SPECIFICATION OwedSpec
CONSTANTS
  j1 = j1
  j2 = j2
  j3 = j3
  k1 = k1
  k2 = k2
  b1 = b1
  b2 = b2
  h1 = h1
  Jobs = {j1, j2, j3}
  Keys = {k1, k2}
  Boots = {b1, b2}
  KeysOf <- MCKeysOf
  HostOf <- OneHost
  Cancellable = {j2}
  CheckJobs = {j1, j3}
  MayCrash = {b1, b2}
  MayFailFinish = {j2}
  NoJob = NoJob
  NoBoot = NoBoot
  Machines = {i1}
  Hooks = {w1}
  Rules = {r1}
  Facts = {"error", "stops", "failed", "update"}
  CrashDefault = 2
  MaxConditions = 2
  MaxRows = 2
  MaxChanges = 2
  MaxKills = 1
INVARIANTS LocksMatchRows WorkExclusion RecoveryComplete EdgeOnce
PROPERTIES TerminalIsFinal SweepClosesOnlyDeadJobs EveryJobEnds DeliveriesSettle
CHECK_DEADLOCK FALSE
