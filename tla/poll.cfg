CONSTANTS
  Size = 4
  NFds = 3
  OutBuf = 1
SPECIFICATION FairSpec
INVARIANT SlotsCover
INVARIANT ReadHasWork
PROPERTY EveryoneServed
CHECK_DEADLOCK FALSE
