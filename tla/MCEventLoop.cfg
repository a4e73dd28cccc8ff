CONSTANTS
  Timer = {t1, p}
  Intervals = {p}
  Immediate = {c1, c2}
  Reserve = 1
  ClearsIntervals = FALSE
  NULL = NULL
SPECIFICATION Spec
INVARIANTS
  OneEventPerTimer
  ImmediatesInOrder
PROPERTY
  ClearedNeverCalled EveryCallbackRuns
CHECK_DEADLOCK FALSE
