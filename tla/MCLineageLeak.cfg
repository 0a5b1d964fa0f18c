CONSTANTS
  Ids = {i1, i2, i3}
  MaxAddr = 4
  MaxRef = 2
  Scenarios <- LeakScenarios
  Moduli = {1}
  Ops = {"addp"}
  Imms = {1}
  Rules = {"clone_first", "capture_first", "recapture_same", "pinned_stay"}
  Addrs <- MCAddrs
  Values <- MCValues
  Zero = 0
  Absent = Absent
  TableSize = 2
  Kernel <- MCKernel
  Refuses <- MCRefuses
SYMMETRY IdSymmetry
SPECIFICATION MCSpec
INVARIANT ReplayFaithful
CHECK_DEADLOCK FALSE
