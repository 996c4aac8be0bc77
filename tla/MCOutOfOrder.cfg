\* The claim of the README of the feature builder on events out of order.
CONSTANTS
  Ids = {e1, e2, e3, e4, e5}
  Times <- MCTimes
  Spans = {1, 3}
  Day = 3
  MaxRetained = 3
  None = None
SPECIFICATION WindowSpec
SYMMETRY Symmetry
INVARIANT OutOfOrderIsExact
CHECK_DEADLOCK FALSE
