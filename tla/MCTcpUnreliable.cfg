CONSTANTS
  SeqSpace = 16
  MSS = 1
  RxWindow = 3
  MaxRetransmits = 1
  Reliable = FALSE
  Timeouts = TRUE
  ActiveClosers = {"client", "server"}
  ListenerCloses = TRUE
  Senders = {"client"}
  MaxQueue = 2
  MaxSends = 2
  BufferSize = 2
  ISS = 1
SPECIFICATION SafeSpec
INVARIANTS
  StreamsArePrefixes
  AcknowledgedWasReceived
  TransmitQueueCovers
  EventsInOrder
CHECK_DEADLOCK FALSE
