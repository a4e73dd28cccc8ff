CONSTANTS
  Capacity = 22
  TREEBIN_SHIFT = 3
  NTREEBINS = 4
  Width = 12
  TrimThreshold = 20
  Request = {24, 248, 264, 312}
  Counts = {66}
  Sizes = {4, 63}
  Alignments = {15}
  MaxLive = 4
SPECIFICATION Spec
INVARIANTS HeapSound BlocksHeld RefusesOnlyWhenFull
CHECK_DEADLOCK FALSE
