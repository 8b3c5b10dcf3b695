SPECIFICATION FairSpec
CONSTANTS
  Node = {0, 1, 2}
  Value = {v1, v2, v3, v4}
  Null = Null
  Committer = {0}
  WindowSize = 2
  Lossy = {}
  MaxSlot = 4
  MaxBallot = 65536
CHECK_DEADLOCK FALSE
INVARIANTS ArrivalOrder LagBounded CaughtUp
PROPERTIES EveryoneAnswered EveryoneDelivers
