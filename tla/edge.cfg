CONSTANTS
  Fds = {a, b}
  ListenFd = l
  Chunk = 2
  Capacity = 4
  PipeSize = 13
  Resets = TRUE
SPECIFICATION FairSpec
INVARIANT LeftByRead
PROPERTY LeaversClosed
PROPERTY PipeStalls
CHECK_DEADLOCK FALSE
