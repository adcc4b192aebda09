CONSTANTS
  Workers = {w1, w2}
  Main = Main
  Adjust = Adjust
  None = None
  Garbage = Garbage
  NTasks = 2
  min_thr_num = 1
  max_thr_num = 2
  queue_max_size = 1
  MIN_WAIT_TSK_NUM = 1
  DEFAULT_THREAD_VARY = 1
  Drift = 1
SPECIFICATION Spec
SYMMETRY Symm
INVARIANT TypeOK
INVARIANT BusyCountExact
INVARIANT QueueNeverOverfull
INVARIANT LiveCountBounded
 
PROPERTY NoThreadStartedInTeardown
CHECK_DEADLOCK FALSE
