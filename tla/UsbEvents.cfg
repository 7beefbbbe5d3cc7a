\* The event thread, a control transfer, and two threads that close devices.
SPECIFICATION FairSpec
CONSTANTS
  e = e
  s1 = s1
  c1 = c1
  c2 = c2
  EventThread = e
  Syncs <- OneSync
  Closer = c1
  OtherClosers <- OneOther
INVARIANTS
  TypeOK
  StackOutlivesTransfer
PROPERTIES
  SyncReturns
  CloseReturns
  EventsGoOn
