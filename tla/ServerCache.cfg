\* Three requests compete for the model and for a cache of two entries.
CONSTANTS
  c1 = c1  c2 = c2  t1 = t1  t2 = t2  t3 = t3  t4 = t4  i1 = i1  i2 = i2  i3 = i3
  NoConn = NoConn
  NoId = NoId
  Conn = {c1}
  Task = {t1, t2, t3, t4}
  Id = {i1, i2, i3}
  Types = {"INFER"}
  CacheSize = 2
  MaxPending = 4
SPECIFICATION Spec
SYMMETRY MCSymmetry
CONSTRAINT StaysConnected
INVARIANT TypeOK
INVARIANT ModelSerial
INVARIANT InferSeesOwnObservation
INVARIANT KeepsRecent
INVARIANT OneRunPerCacheEntry
CHECK_DEADLOCK FALSE
