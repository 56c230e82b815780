CONSTANTS
  Capacity = 4
  Wrap = 16
  MaxWrite = 4
  TransferSizes <- MCTransferSizes
  Block = 4
  Tile = 2
  QueueDepth = 4
  MaxResets = 0
  MaxFaults = 0
  MaxCaptures = 1
  EventMixes = {{"capture"}}
SPECIFICATION StreamFeedSpec
INVARIANT
  IndexMatchesHead
