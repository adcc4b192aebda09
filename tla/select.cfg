CONSTANTS
  ListenFd = 3
  NFds = 3
  Size = 2
  OutBuf = 1
  Resets = TRUE
SPECIFICATION FairSpec
INVARIANT TablesAgree
INVARIANT RetIsPending
PROPERTY EveryoneServed
CHECK_DEADLOCK FALSE
