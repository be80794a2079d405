\* Two calls, one of which loses its connection, and a server that answers; a
\* cache that three rounds of attempts cannot overflow.
CONSTANTS
  k1 = k1  k2 = k2  n1 = n1  n2 = n2  n3 = n3
  NoConn = NoConn
  NoServer = NoServer
  Call = {k1, k2}
  Conn = {n1, n2}
  MaxAttempts = 2
  HasDeadline = FALSE
  CacheSize = 7
  MaxRestarts = 0
SPECIFICATION SteadySpec
INVARIANT RunsOnce
PROPERTY SurvivesDrop
CHECK_DEADLOCK FALSE
