SPECIFICATION ModsSpec
CONSTANTS
  Packages = {"A", "B"}
  Versions = {"v1", "v2"}
  Paths = {"f", "g", "c"}
  ConfigPaths = {"c"}
  Ships <- MCShips
  Starts <- MCStarts
  Mishaps = {"saving", "cleanup", "finish", "sweep", "stuck"}
  MaxJobs = 2
  MaxPuts = 1
  Authors = {a1, a2}
  Keys = {"k1", "k2"}
  Values = {1, 2}
  Default = 1
  MaxSaves = 2
  MaxRuns = 2
  MaxPanelDeaths = 1
  Missing = Missing
SYMMETRY Symmetry
CONSTRAINT UpToMishap
INVARIANTS AllOrNothing RowsDescribeFiles OneOwner UserFilesKept
 
