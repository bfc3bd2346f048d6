SPECIFICATION Spec
CONSTANTS
  RegionSize = 6
  Step = 1
  MaxWord = 1
  Pairs <- TwoPairs
  Values = {v1}
  CountWrap = 4
  ByteWrap = 3
  MaxTime = 1
  MaxEvict = 3
  MaxBatch = 2
  CarefulDelete = TRUE
  KeepTable = FALSE
INVARIANTS TypeOK LinkInv ListSound TableSound RecencyOrder FreeCountExact
PROPERTIES EvictsAllOld CallsReturn
