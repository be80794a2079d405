\* One call over two connections at a time; every wait is bounded.
CONSTANTS
  k1 = k1  k2 = k2  n1 = n1  n2 = n2  n3 = n3
  NoConn = NoConn
  NoServer = NoServer
  Call = {k1}
  Conn = {n1, n2}
  MaxAttempts = 2
  HasDeadline = TRUE
  MaxRestarts = 1
SPECIFICATION FairSpec
PROPERTY CallSettles
PROPERTY CloseReturns
CHECK_DEADLOCK FALSE
