SPECIFICATION FairSpec
CONSTANTS
  Caller = {c1, c2}
  Result = {r1, r2}
  None = None
CHECK_DEADLOCK FALSE
INVARIANTS TypeOK GetsResult CancelStops NeverUninitialised
PROPERTIES HopelessStays GetReturns
