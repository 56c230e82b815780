CONSTANTS
  Capacity = 8
  Wrap = 16
  MaxWrite = 4
  TransferSizes <- MCTransferSizes
  Block = 4
  Tile = 2
  QueueDepth = 4
  MaxResets = 0
  MaxFaults = 0
  MaxCaptures = 0
  EventMixes = {}
SPECIFICATION StreamFeedSpec
INVARIANTS
  FedInOrder
  IndexAligned
  LiveBytesIntact
  SpanStable
PROPERTIES
  RingDiscipline
  FifoRefinement
  EveryByteFed
