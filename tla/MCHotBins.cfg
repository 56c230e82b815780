CONSTANTS
  Entries = 3
  HotDeadband = 1
  Ttl = 2
  ClockMod = 16
  Bins <- MCBins
  Uses <- MCUses
  MaxTime = 3
  MaxStall = 1
SPECIFICATION HotSpec
INVARIANTS
  PublishedStaysHot
  HitIsRecent
