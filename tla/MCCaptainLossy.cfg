SPECIFICATION AllSpec
CONSTANTS
  Node = {0, 1, 2}
  Value = {v1, v2, v3}
  Null = Null
  Committer = {0}
  WindowSize = 2
  Lossy = {0, 1, 2}
  Restarts = {1, 2}
  MaxSlot = 3
  MaxBallot = 65536
CHECK_DEADLOCK FALSE
INVARIANTS LogAgreement
PROPERTIES ImplementsLog
