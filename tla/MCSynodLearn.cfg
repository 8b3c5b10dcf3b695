SPECIFICATION Spec
CONSTANTS
  Node = {0, 1, 2}
  Value = {v1, v2}
  Null = Null
  Fast = {0}
  Slow = {1}
  Teller = {0, 1}
  MaxBallot = 65537
SYMMETRY ValueSymmetry
CHECK_DEADLOCK FALSE
INVARIANTS TypeOK ChosenIsStable Agreement ChosenByQuorum
