CONSTANTS
  Timer = {t1, p}
  Intervals = {p}
  Immediate = {c1}
  Reserve = 2
  ClearsIntervals = TRUE
  NULL = NULL
SPECIFICATION Spec
PROPERTY ClearedNeverCalled
CHECK_DEADLOCK FALSE
