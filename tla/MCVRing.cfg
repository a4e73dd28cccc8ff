CONSTANTS
  ringSize = 2
  IdxMod = 4
  header = header
  data = data
  status = status
  Buffer = {header, data, status}
  NULL = NULL
  Garbage = {0}
  Call <- MCCalls
  Request <- PiecesOfCalls
  Kinds = {"interrupts", "suppressed", "polled"}
SPECIFICATION Spec
INVARIANT NoRequestLost
PROPERTIES UsesTable ImplementsQueue EveryRequestReturns
