CONSTANTS
  Workers = {w1, w2}
  Main = Main
  Adjust = Adjust
  None = None
  Garbage = Garbage
  NTasks = 2
  min_thr_num = 2
  max_thr_num = 2
  queue_max_size = 2
  MIN_WAIT_TSK_NUM = 5
  DEFAULT_THREAD_VARY = 1
  Drift = 1
SPECIFICATION Spec
SYMMETRY Symm
INVARIANT NoTaskTakenTwice
CHECK_DEADLOCK FALSE
