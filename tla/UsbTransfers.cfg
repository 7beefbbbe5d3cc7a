\* A stream transfer of two URBs and a stream or control transfer of one URB.
SPECIFICATION Spec
CONSTANTS
  Transfers <- Two
  Kinds <- KindsOf
  NumUrbs <- TwoOrOne
  MaxSubmits = 3
  MaxTime = 2
INVARIANTS
  TypeOK
  FreedUrbsAreBack
  CompletedMeansWhole
  ReasonIsTrue
  FlyingListExact
  TimerCoversTimeouts
  EndIsCertain
CHECK_DEADLOCK FALSE
