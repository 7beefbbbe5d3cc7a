\* One streaming session: is a snapshot one frame?
SPECIFICATION Spec
CONSTANTS
  r1 = r1
  r2 = r2
  p1 = p1
  p2 = p2
  Readers <- TwoReaders
  StopThreads <- OneStop
  MaxFrames = 2
  MaxStarts = 1
SYMMETRY Symmetry
INVARIANT
  NoTearing
CHECK_DEADLOCK FALSE
