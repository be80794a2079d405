\* The legacy TCP pair: two calls, two attempts to connect; every reply may be
\* late or lost, every connection may break, the server may stop or go deaf.
SPECIFICATION FairSpec
CONSTANTS
  MaxCalls = 2
  MaxTries = 2
INVARIANTS
  TypeOK
  AtMostTwice
  OwnAnswer
PROPERTIES
  CallEnds
  ThreadsEnd
CHECK_DEADLOCK FALSE
