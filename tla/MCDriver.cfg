SPECIFICATION Spec
CONSTANTS
  None = None
  Zero = Zero
  COPY_SENTINEL = 99
  AddressSpace = 64
  Arith <- Term
  FileAddrs = {0, 1, 2}
  Table <- SmallTable
  FileCode <- MCCode
  Literal <- MCLiteral
  BadRoot = 2
  InputModulus = 3
  Outputs <- TwoOutputs
  MaxProgram = 3
CHECK_DEADLOCK FALSE
INVARIANTS TypeOK DriveFaithful InputsAreLiveIns
