SPECIFICATION Spec
CONSTANTS
  RegionSize = 6
  Step = 1
  Procs = {p1, p2, p3}
  Leader = p1
  MayDie = TRUE
  p1 = p1
  p2 = p2
  p3 = p3
INVARIANTS TypeOK OneInside WholeListsInside
PROPERTIES OperationsAddUp Released
