\* Two clients and one streaming session.
SPECIFICATION FairSpec
CONSTANTS
  r1 = r1
  r2 = r2
  p1 = p1
  p2 = p2
  Readers <- TwoReaders
  StopThreads <- OneStop
  MaxFrames = 2
  MaxStarts = 1
PROPERTIES
  NoStarvation
  StoppedReaderReturns
  SessionSettles
CHECK_DEADLOCK FALSE
