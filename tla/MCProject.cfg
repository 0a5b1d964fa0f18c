CONSTANTS
  None = None
  Programs <- TwoPrograms
  Formats = {"text", "binary", "both"}
  Names = {"x", "y", "mk", "rk", "bp"}
  Probes = {"p", "q"}
  Foreign = {2}
  MaxVersion = 3
  MaxRuns = 4
  MaxCrashes = 2
  Rules = {"cached", "newer", "steady", "small"}
SPECIFICATION Spec
CHECK_DEADLOCK FALSE
INVARIANTS TypeOK FreshResult ReplayRecovers
