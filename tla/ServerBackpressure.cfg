\* A connection at its limit of pending responses, and a model that hangs.
CONSTANTS
  c1 = c1  c2 = c2  t1 = t1  t2 = t2  t3 = t3  t4 = t4  i1 = i1  i2 = i2  i3 = i3
  NoConn = NoConn
  NoId = NoId
  Conn = {c1}
  Task = {t1, t2}
  Id = {i1, i2}
  Types = {"CALL"}
  CacheSize = 2
  MaxPending = 1
SPECIFICATION HungSpec
PROPERTY StopReturns
CHECK_DEADLOCK FALSE
