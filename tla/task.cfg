CONSTANTS
  Threads = {t1, t2, t3}
  None = None
  TASK_NUM = 4
SPECIFICATION FairSpec
INVARIANT TakenByOne
INVARIANT NoTaskLost
PROPERTY ThreadsEnd
CHECK_DEADLOCK FALSE
