CONSTANTS
  Datagram = {d1, d2}
  Reused = {d2}
  Lengths = {4, 5}
  MAX_COUNT = 1
  NONE = NONE
  SeqSpace = 12
  MSS = 2
  RxWindow = 4
  MaxRetransmits = 1
  Start = 10
  Length = 14
  MaxQueue = 3
SPECIFICATION MCSpec
INVARIANTS
  DeliveredIntact
  ReceivedLengthExact
  NoCompleteQueueWaits
  InOrderOnce
  AckedIsDelivered
  QueueWaitsForGap
