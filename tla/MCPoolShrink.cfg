SPECIFICATION Spec
CONSTANTS
  t1 = t1
  t2 = t2
  t3 = t3
  Worker = {w1, w2, w3}
  Caller = {c1}
  Task = {t1}
  Priority <- Priorities
  Throws = {}
  Schedulers = {"fifo"}
  Initial = 2
  Sizes = {1}
  Thresholds = {0}
  None = None
SYMMETRY Symmetric
CHECK_DEADLOCK FALSE
INVARIANT KeepsTarget
