SPECIFICATION Spec
CONSTANTS
  RegionSize = 7
  Step = 1
  N = 5
  K = 2
  MaxWord = 20
  SetPairs <- FourPairs
  ManyPairs <- OnePair
  MaxEvict = 2
  FreshKeys = FALSE
INVARIANT OneElementPerKey
