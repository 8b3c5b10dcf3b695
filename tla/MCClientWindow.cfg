SPECIFICATION FairSpec
CONSTANTS
  Node <- MCNode
  Clients = {2}
  Masters <- MovingMaster
  Window = 2
  Ratio = 90
  ReadNode = 1
  Block = 3
  CounterSpan = 6
  MaxCounter = 6
PROPERTIES RedirectionsEnd AllAnswered
INVARIANTS TypeOK Conserved WindowFull CommittedOnce WriteRatioKept
CHECK_DEADLOCK FALSE
