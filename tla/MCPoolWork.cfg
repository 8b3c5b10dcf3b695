SPECIFICATION FairSpec
CONSTANTS
  t1 = t1
  t2 = t2
  t3 = t3
  Worker = {w1, w2}
  Caller = {c1}
  Task = {t1, t2, t3}
  Priority <- Priorities
  Throws = {t2}
  Schedulers = {"fifo", "lifo", "prio"}
  Initial = 1
  Sizes = {1, 2}
  Thresholds = {0, 1}
  None = None
CHECK_DEADLOCK FALSE
INVARIANTS TypeOK Counted ExecutedOnce
PROPERTIES WaitMeansDone StartOrder NothingStarts TasksStart WaitEnds AllLeave
