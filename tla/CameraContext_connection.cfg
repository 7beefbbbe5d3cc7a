\* Failed starts that rebuild their session, and cameras without an MJPEG mode.
SPECIFICATION Spec
CONSTANTS
  t1 = t1
  t2 = t2
  t3 = t3
  Threads <- TwoThreads
  NumFds = 1
  NumContexts = 2
  Recovery = TRUE
  NonMjpeg = TRUE
SYMMETRY ThreadSymmetry
INVARIANT
  ConnectionOutlivesHandle
CHECK_DEADLOCK FALSE
