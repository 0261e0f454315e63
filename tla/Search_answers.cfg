\* Every mode; the streams of a search find three rows between them.
CONSTANTS
  Scene <- MCScene
  Segment <- MCSegment
  Frame <- MCFrame
  Item <- MCItem
  Modes = {"fts", "vector", "hybrid", "hybrid_graph"}
  FtsScores = {1, 2}
  VecScores <- MCVecScores
  TopKs = {1, 2}
  Ranges <- MCRanges
  Golds <- MCGolds
  MaxRows = 2
  MaxFound = 3
  Unit = 7564
SPECIFICATION Spec
INVARIANTS
  SearchTypeOK
  BestMatchesAnswered
  EvidenceFiled
  StoredSceneReached
  AskKeepsSpeech
  GraphIsHeard
  EvalCountsEvidence
CHECK_DEADLOCK FALSE
