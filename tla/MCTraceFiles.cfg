SPECIFICATION Spec
CONSTANTS
  None = None
  WordBits = 15
  AddrBits = 8
  MaxModulusIndex = 2
  FpUnit = 10
  Tables <- MCTables
  Metas <- MCMetas
  Emittable <- MCInstructions
  Notes <- MCNotes
  Specs <- MCSpecs
  MaxInstructions = 2
  MaxNotes = 1
  MaxReads = 2
  Sample <- SampleInstructions
INVARIANTS ConversionsKeepProgram BinaryExact FormsAgree TextKeepsNotes CutBinaryRefused CutTextIsPrefix
CHECK_DEADLOCK FALSE
