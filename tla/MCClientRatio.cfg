SPECIFICATION Spec
CONSTANTS
  Node <- MCNode
  Clients = {2}
  Masters <- OtherMaster
  Window = 2
  Ratio = 10
  ReadNode = 1
  Block = 3
  CounterSpan = 4
  MaxCounter = 4
INVARIANTS WriteRatioKept
CHECK_DEADLOCK FALSE
