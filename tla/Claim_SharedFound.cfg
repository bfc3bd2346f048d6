SPECIFICATION Spec
CONSTANTS
  RegionSize = 6
  Step = 1
  Procs = {p1, p2}
  Master = p1
  Keys = {k1, k2}
  ShareKeys = {x1}
  SegmentKey = seg
  Disciplined = TRUE
  p1=p1
  p2=p2
  k1=k1
  k2=k2
  x1=x1
  seg=seg
PROPERTY SharedFound
