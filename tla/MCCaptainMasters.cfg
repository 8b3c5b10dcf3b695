SPECIFICATION Spec
CONSTANTS
  Node = {0, 1, 2}
  Value = {v1, v2}
  Null = Null
  Committer = {0, 1}
  WindowSize = 1
  Lossy = {}
  MaxSlot = 1
  MaxBallot = 65536
CHECK_DEADLOCK FALSE
INVARIANT LogAgreement
