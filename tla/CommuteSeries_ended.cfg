SPECIFICATION Spec
CHECK_DEADLOCK FALSE
CONSTANTS
  Keys = {k}
  Singles = {s}
  Dates = {1}
  Times = {1, 2}
  MaxChanges = 0
INVARIANT
  BlockingSeriesCancellable
