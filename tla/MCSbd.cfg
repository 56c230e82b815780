CONSTANTS
  MaxBody = 320
  SbdMaxSessions = 2
  MsgCntMax = 3
  MaxParts = 2
  SbdTimeout = 1
  Counts <- MCCounts
  SbdTimes <- MCSbdTimes
  Data = {d}
  RawEnvelopes <- MCRawEnvelopes
SPECIFICATION RawSpec
INVARIANTS
  SbdSessionsInOrder
  SbdEmittedWhole
  SalvageMirrorsFeed
  ParsersInBounds
