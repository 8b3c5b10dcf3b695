SPECIFICATION Spec
CONSTANTS
  Node = {0, 1, 2}
  Value = {v1, v2}
  Null = Null
  Fast = {0}
  Slow = {1}
  Teller = {}
  MaxBallot = 131072
SYMMETRY ValueSymmetry
CHECK_DEADLOCK FALSE
INVARIANTS IInv OneValuePerBallot
