CONSTANTS
  Align = 2
  Cap = 8
  MaxPush = 4
  WinLen = 2
  MaxSamples = 14
  MaxFaults = 1
SPECIFICATION SbFairSpec
INVARIANTS
  TransfersAligned
  IndexLockstep
  ScratchStable
  MarginReadIntact
PROPERTY
  EveryPushReturns
CHECK_DEADLOCK FALSE
