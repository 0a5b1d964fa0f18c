CONSTANTS
  None = None
  Programs <- Rerecorded
  Formats = {"binary"}
  Names = {"x", "y", "mk", "rk", "bp"}
  Probes = {"p", "q"}
  Foreign = {2}
  MaxVersion = 1
  MaxRuns = 2
  MaxCrashes = 0
  Rules = {"newer", "steady", "small"}
SPECIFICATION Spec
CHECK_DEADLOCK FALSE
INVARIANT FreshResult
