\* Two threads and two connections that share one file descriptor number;
\* no session is rebuilt, only MJPEG cameras.
SPECIFICATION FairSpec
CONSTANTS
  t1 = t1
  t2 = t2
  t3 = t3
  Threads <- TwoThreads
  NumFds = 1
  NumContexts = 2
  Recovery = FALSE
  NonMjpeg = FALSE
INVARIANTS
  ModesFromOpenHandle
  ConnectionOutlivesHandle
  CallbackContextAlive
PROPERTIES
  ErasedUnlocked
  StopsReturn
CHECK_DEADLOCK FALSE
