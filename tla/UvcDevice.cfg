SPECIFICATION Spec
CONSTANTS
  Cameras <- CamerasDef
  Starters = {a, b}
  Payloads = {2, 4}
  Limits = {0, 1}
  MaxOpens = 2
  MaxStarts = 2
  MaxFrames = 3
  MaxSize = 2
SYMMETRY Symmetry
INVARIANTS
  TypeOK
  StreamIsServed
  NothingLeftBehind
  FramesIntact
CHECK_DEADLOCK FALSE
