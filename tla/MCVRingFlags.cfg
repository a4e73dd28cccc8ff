CONSTANTS
  ringSize = 4
  IdxMod = 8
  header = header
  data = data
  status = status
  Buffer = {header, data, status}
  NULL = NULL
  Garbage = {0}
  Call <- BlockCalls
  Request <- PiecesOfCalls
  Kinds = {"interrupts"}
SPECIFICATION Spec
INVARIANT FlagsOfBuffers
