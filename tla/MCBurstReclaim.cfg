CONSTANTS
  PqCap = 2
  Span = 5
  PrePad = 1
  MinLen = 2
  U64 = 32
  Shapes <- MCShapes
  HotBoost = 10
  WidePenalty = 100
  HotChannels <- MCHotBins
  MaxTotal = 8
  MaxPushes = 3
  Lags <- MCLags
SPECIFICATION BqSpec
PROPERTIES
  DoomedGoFirst
CHECK_DEADLOCK FALSE
