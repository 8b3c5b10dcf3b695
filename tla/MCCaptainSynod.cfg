SPECIFICATION AllSpec
CONSTANTS
  Node = {0, 1, 2}
  Value = {v1, v2, v3}
  Null = Null
  Committer = {0, 1}
  WindowSize = 1
  Lossy = {}
  Restarts = {}
  MaxSlot = 3
  MaxBallot = 131072
SYMMETRY ValueSymmetry
CONSTRAINT RestartBound
CHECK_DEADLOCK FALSE
PROPERTIES ImplementsSynod
