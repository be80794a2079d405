\* Retries of one request over two connections, reused ids, lost connections
\* and stop().
CONSTANTS
  c1 = c1  c2 = c2  t1 = t1  t2 = t2  t3 = t3  t4 = t4  i1 = i1  i2 = i2  i3 = i3
  NoConn = NoConn
  NoId = NoId
  Conn = {c1, c2}
  Task = {t1, t2, t3}
  Id = {i1}
  Types = {"CALL", "HELLO", "CLOSE", "MALFORMED"}
  CacheSize = 1
  MaxPending = 1
SPECIFICATION Spec
SYMMETRY MCSymmetry
INVARIANT SameAnswer
INVARIANT AnswerOfOwnType
INVARIANT PendingBounded
PROPERTY AnswersOnce
CHECK_DEADLOCK FALSE
