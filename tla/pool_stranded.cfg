CONSTANTS
  Workers = {w1}
  Main = Main
  Adjust = Adjust
  None = None
  Garbage = Garbage
  NTasks = 1
  min_thr_num = 1
  max_thr_num = 1
  queue_max_size = 1
  MIN_WAIT_TSK_NUM = 5
  DEFAULT_THREAD_VARY = 1
  Drift = 1
SPECIFICATION Spec
SYMMETRY Symm
INVARIANT NoStrandedTask
CHECK_DEADLOCK FALSE
