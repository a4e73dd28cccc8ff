CONSTANTS
  SeqSpace = 16
  MSS = 2
  RxWindow = 3
  MaxRetransmits = 2
  Reliable = TRUE
  Timeouts = FALSE
  ActiveClosers = {"client"}
  ListenerCloses = FALSE
  Senders = {"client"}
  MaxQueue = 2
  MaxSends = 4
  BufferSize = 2
  ISS = 13
SPECIFICATION Spec
PROPERTIES
  EverythingArrives
  BothClose
CHECK_DEADLOCK FALSE
