\* A reader, a start and a release of one camera.
SPECIFICATION FairSpec
CONSTANTS
  t1 = t1
  t2 = t2
  t3 = t3
  Threads <- ThreeThreads
  NumFds = 1
  NumContexts = 1
  Recovery = FALSE
  NonMjpeg = FALSE
PROPERTY
  CallsReturn
CHECK_DEADLOCK FALSE
