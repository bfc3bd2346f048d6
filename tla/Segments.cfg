SPECIFICATION BoundedSpec
CONSTANTS
  Procs = {p1, p2}
  Keys = {k1, k2}
  Ids = {i1, i2}
  Addrs = {a1, a2}
  LRUKeys = {k1}
  MapKeys = {k2}
  MutexKeys = {k2}
  Users = {p1}
  Buffers = {b1, b2}
  p1=p1
  p2=p2
  k1=k1
  k2=k2
  i1=i1
  i2=i2
  a1=a1
  a2=a2
  b1=b1
  b2=b2
SYMMETRY Interchangeable
INVARIANTS TypeOK NoOrphan AttachesRecorded RecordsAttached HandlesMapped
CHECK_DEADLOCK FALSE
