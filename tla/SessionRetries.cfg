\* Two calls of a calm caller, a cache two connects can fill, one restart.
CONSTANTS
  k1 = k1  k2 = k2  n1 = n1  n2 = n2  n3 = n3
  NoConn = NoConn
  NoServer = NoServer
  Call = {k1, k2}
  Conn = {n1, n2}
  MaxAttempts = 1
  HasDeadline = TRUE
  CacheSize = 2
  MaxRestarts = 1
SPECIFICATION CalmSpec
SYMMETRY MCSymmetry
INVARIANT TypeOK
INVARIANT WaiterServed
INVARIANT PendingOwned
INVARIANT NoConnectionLeaks
INVARIANT OneReader
INVARIANT OneProcess
PROPERTY RetriesAreSafe
CHECK_DEADLOCK FALSE
