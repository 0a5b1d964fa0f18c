CONSTANTS
  Ids = {i1, i2, i3}
  MaxAddr = 4
  MaxRef = 2
  Scenarios <- PassingScenarios
  Moduli = {1}
  Ops = {"addp", "addps", "mulps", "ntt"}
  Imms = {0, 1}
  Rules = {"clone_first", "capture_first", "recapture_same", "pinned_stay", "fresh_lineage"}
  Addrs <- MCAddrs
  Values <- MCValues
  Zero = 0
  Absent = Absent
  TableSize = 2
  Kernel <- MCKernel
  Refuses <- MCRefuses
SYMMETRY IdSymmetry
SPECIFICATION MCSpec
INVARIANTS TypeOK ReplayFaithful InputsStayLoadable LineageSound OneOwner PinnedNeverPooled
CHECK_DEADLOCK FALSE
