SPECIFICATION FairSpec
CONSTANTS
  InitialSize = 2
  MAX_BLOCK_SIZE = 4
  MaxItems = 6
INVARIANTS NothingMissed AssertionsHold NoTornRead
PROPERTIES IsFifo AllTaken
