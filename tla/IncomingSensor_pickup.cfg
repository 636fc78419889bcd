SPECIFICATION Spec
CONSTANTS
  Files = 2
  MaxDrops = 3
  MaxRuns = 6
  Target <- Meeting
CHECK_DEADLOCK FALSE
INVARIANTS IngestedOnce ArchivedWasIngested NothingLost
PROPERTY PickedUpInOrder
