SPECIFICATION Spec
CONSTANTS
  None = None
  Zero = Zero
  COPY_SENTINEL = 99
  AddressSpace = 64
  Arith <- Term
  Primes = {3, 5}
  Base <- TwoPrimes
  Hosts <- OneHost
  Names = {"x"}
  Rules = {"intime", "typed", "cleared"}
CHECK_DEADLOCK FALSE
INVARIANT OutputsRight
