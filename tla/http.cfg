CONSTANTS
  Conns = {1, 2}
  None = None
  Lfd = Lfd
  Scenarios <- OneCutTwoWhole
  Target = "file"
  FileLen = 3
  ChunkLen = 2
  SendBuf = 3
SPECIFICATION FairSpec
CHECK_DEADLOCK FALSE
INVARIANT ClosedAtEnd
INVARIANT BodyInOrder
INVARIANT NothingForgotten
INVARIANT ServedIsOpen
 
PROPERTY RequestAnswered
