SPECIFICATION Spec
CONSTANTS
  None = None
  Zero = 0
  COPY_SENTINEL = 99
  AddressSpace = 4096
  Arith <- Kernel
  Conversions <- SmallConversions
  Rescalings <- SmallRescalings
  Decompositions <- SmallDecompositions
CHECK_DEADLOCK FALSE
INVARIANTS ConversionLifts RescaleDivides DigitsLift ShapesAgree ResultsBound
