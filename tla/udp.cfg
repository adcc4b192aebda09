CONSTANTS
  Clients = {a, b}
  None = None
  NLines = 1
  Cap = 2
  MaxBirths = 1
  MaxStarts = 2
SPECIFICATION FairSpec
INVARIANT AnswersMatch
PROPERTY Answered
CHECK_DEADLOCK FALSE
