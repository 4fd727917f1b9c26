SPECIFICATION FairSpec
CONSTANTS
  a1 = a1
  a2 = a2
  None = None
  Asset = {a1, a2}
  Row <- MCDates
  Windowed <- MCWindowed
  OpenAt <- MCOpenAt
  DayLength = 3
  NoTime = NoTime
  Cap = 2
  ReshuffleAfter = 2
  MaxTime = 5
  MaxEdits = 1
  MaxCommands = 2
INVARIANTS
  IndexInRange
  ListIsCommitted
  DeadlineCoversBoundaries
PROPERTIES
  PreviousShowsPredecessor
  ActiveAssetsShown
