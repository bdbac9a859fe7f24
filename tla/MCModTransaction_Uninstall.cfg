SPECIFICATION Spec
CONSTANTS
    Packages = {"A", "B"}
    Versions = {"v1", "v2"}
    Paths = {"f", "g", "c"}
    ConfigPaths = {"c"}
    Ships <- MCShips
    Starts <- MCStarts
    Mishaps = {"saving"}
    MaxJobs = 1
    MaxPuts = 0
INVARIANT InterruptedUninstallRestored
