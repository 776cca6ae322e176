CONSTANTS
  a = a
  b = b
  None = None
  Request = {a, b}
  Bound = {a}
  OldBody <- MCOldBody
  OldSizes = {0, 3}
  TileWidth = 2
  MaxCrashes = 2
SPECIFICATION Spec
INVARIANTS CheckpointsRebuild ConsistentHistory AnswersHold
PROPERTY PublishedIsImmutable
CHECK_DEADLOCK FALSE
