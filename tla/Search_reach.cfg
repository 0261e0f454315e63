\* A search by vectors that finds two rows.
CONSTANTS
  Scene <- MCScene
  Segment <- MCSegment
  Frame <- MCFrame
  Item <- MCItem
  Modes = {"vector"}
  FtsScores = {1, 2}
  VecScores <- MCVecScores
  TopKs = {2}
  Ranges <- Unbounded
  Golds <- MCGolds
  MaxRows = 2
  MaxFound = 2
  Unit = 7564
SPECIFICATION Spec
INVARIANTS
  SegmentReached
CHECK_DEADLOCK FALSE
