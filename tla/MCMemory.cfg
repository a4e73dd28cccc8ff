CONSTANTS
  PageSize = 2
  MaxPage = 6
  AllocStart = 1
  Last32 = 3
  MinPages = 2
  StackSlots = 3
  Fan = 3
  MaxTables = 6
  StacksPage = 5
  MaxStacks = 2
  Space = {9, 10, 12}
  Bases = {0, 3}
  Lengths = {0, 5, 10}
  MaxZones = 2
SPECIFICATION Spec
INVARIANTS PagesExclusive UsableOnly PagesAccounted WalkAgrees BufferSegmentsExact
CHECK_DEADLOCK FALSE
