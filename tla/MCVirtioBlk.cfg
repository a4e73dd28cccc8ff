CONSTANTS
  Token = {r1, r2, r3}
  Capacity = 8
  Sectors = 1
  ringSize = 4
  header = header
  data = data
  result = result
  Buffer = {header, data, result}
  NULL = NULL
  Garbage = {0, 1, 2, 3}
  Request <- MCRequests
SPECIFICATION MCSpec
INVARIANTS
  SettledByOwnCompletion
  NeverAheadOfDevice
  FreeListSound
  ChainsIntact
PROPERTY EveryPromiseSettles
CHECK_DEADLOCK FALSE
