\* Two clients, two stopping threads, three starts.
SPECIFICATION Spec
CONSTANTS
  r1 = r1
  r2 = r2
  p1 = p1
  p2 = p2
  Readers <- TwoReaders
  StopThreads <- TwoStops
  MaxFrames = 2
  MaxStarts = 3
SYMMETRY Symmetry
INVARIANTS
  TypeOK
  TearsByOneFrame
  PreviewWhole
CHECK_DEADLOCK FALSE
