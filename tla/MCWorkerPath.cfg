CONSTANTS
  NSlots = 4
  MaxFrames = 6
  MaxDrops = 1
  Word = 2
  Counts <- MCCounts
  MaxTotal = 4
SPECIFICATION WpSpec
INVARIANTS
  PopInOrder
  SlotsDisjoint
  ReadWasCurrent
PROPERTIES
  FifoSpec
  EveryFrameTaken
CHECK_DEADLOCK FALSE
