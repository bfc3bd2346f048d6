SPECIFICATION Spec
CONSTANTS
  N = 5
  K = 3
  MaxWord = 12
  Buckets = {0, 1, 3, 10}
  ElKeys = {1, 2}
  Offsets = {1}
INVARIANTS TypeOK ClaimedOnce CountExact FreeSlotInHand
PROPERTIES HopsCloser StoreReturns MapSpec
