SPECIFICATION AnswerSpec
SYMMETRY AnyTwoValues
CONSTANTS
  v1 = v1
  v2 = v2
  RegionSize = 5
  Step = 1
  MaxWord = 1
  Pairs <- ThreePairs
  Values = {v1, v2}
  CountWrap = 4
  ByteWrap = 3
  MaxTime = 0
  MaxEvict = 3
  MaxBatch = 3
  CarefulDelete = TRUE
  KeepTable = TRUE
INVARIANTS TableComplete
PROPERTIES StoreSpec
