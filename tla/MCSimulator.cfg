CONSTANTS
  Addrs <- MCAddrs
  Values <- MCValues
  Zero = 0
  Absent = Absent
  TableSize <- MCTableSize
  Kernel <- MCKernel
  Refuses <- MCRefuses
  Programs <- MCPrograms
  LiveOuts <- MCLiveOuts
SPECIFICATION Spec
INVARIANTS TypeOK FreesInvisible NothingLeftBehind OnlyLiveInsEmpty
PROPERTY ImplementsReplay
CHECK_DEADLOCK FALSE
