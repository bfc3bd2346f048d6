SPECIFICATION Spec
CONSTANTS
  RegionSize = 5
  Step = 1
  MaxWord = 1
  Pairs <- TwoPairs
  Values = {v1}
  CountWrap = 4
  ByteWrap = 3
  MaxTime = 0
  MaxEvict = 3
  MaxBatch = 1
  CarefulDelete = FALSE
  KeepTable = TRUE
PROPERTY SecondDeleteRefused
