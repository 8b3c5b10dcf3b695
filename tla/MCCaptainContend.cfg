SPECIFICATION Spec
CONSTANTS
  Node = {0, 1, 2}
  Value = {v1, v2, v3}
  Null = Null
  Committer = {0, 1}
  WindowSize = 1
  Lossy = {2}
  MaxSlot = 3
  MaxBallot = 131072
CONSTRAINT RestartBound
CHECK_DEADLOCK FALSE
SYMMETRY ValueSymmetry
INVARIANTS TypeOK WindowKept Accounted
