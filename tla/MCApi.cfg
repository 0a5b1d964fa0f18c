SPECIFICATION Spec
CONSTANTS
  None = None
  Zero = Zero
  COPY_SENTINEL = 99
  AddressSpace = 64
  Arith <- Term
  Primes = {3, 5}
  Base <- TwoPrimes
  Hosts <- BothHosts
  Names = {"x"}
  Rules = {"inside", "intime", "typed", "cleared"}
CHECK_DEADLOCK FALSE
INVARIANTS TypeOK OutputsRight CapturedOnce ModuliRight
