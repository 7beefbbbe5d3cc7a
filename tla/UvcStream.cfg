\* Two transfers in the ring, four frames per session.
SPECIFICATION FairSpec
CONSTANTS
  NumTransfers = 2
  MaxSeq = 4
INVARIANTS
  TypeOK
  NoUseAfterFree
  FrameIsWhole
PROPERTIES
  ImplementsFrameSource
  StopReturns
  PublishedFrameArrives
