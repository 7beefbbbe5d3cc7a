\* One camera that may be opened twice at once, two sessions, two calls of the
\* user, a start of two attempts with a recovery between them.
SPECIFICATION Spec
CONSTANTS
  d1 = d1
  f1 = f1
  f2 = f2
  t1 = t1
  t2 = t2
  Devices <- OneDevice
  Fds <- TwoFds
  Workers <- TwoWorkers
  MaxSessions = 2
  MaxUserCalls = 2
  MaxAttempts = 2
SYMMETRY Symmetry
INVARIANTS
  TypeOK
  SessionsSettle
  IndicesMatch
  NoConnectionLeaks
CHECK_DEADLOCK FALSE
