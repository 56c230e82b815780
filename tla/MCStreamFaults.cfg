CONSTANTS
  Capacity = 2
  Wrap = 4
  MaxWrite = 1
  TransferSizes <- MCHalfPairs
  Block = 2
  Tile = 2
  QueueDepth = 4
  MaxResets = 1
  MaxFaults = 1
  MaxCaptures = 1
  EventMixes = {{"reset", "fault"}, {"fault", "capture"}}
SPECIFICATION StreamFeedSpec
INVARIANT
  SlotOwnership
PROPERTY
  StopAcknowledged
