CONSTANTS
  CopyModulus = 99
  ProbeThreads = {p1, p2}
  ApiThreads = {a1}
  Hosts <- AllHosts
SPECIFICATION Spec
INVARIANTS TypeOK ModulusFaithful HaltIsLast KeptOnce TablesSorted HollowRestored
PROPERTY OperationsEnd
