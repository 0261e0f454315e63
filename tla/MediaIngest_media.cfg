\* Two jobs of one content, a signal or a death.
CONSTANTS
  a = a
  b = b
  Callers = {a, b}
  Outputs <- MCOutputs
  Subjects <- Pairs
  Segments <- MCSegments
  MaxFaults = 1
SPECIFICATION IngestSpec
INVARIANTS
  IngestTypeOK
  OneBlowLeavesNothing
  UndisturbedResultsWhole
  CanonicalAsset
  DocumentStays
  TranscriptIndexed
  OrderlyVectors
PROPERTIES
  MakesCalls
  IngestEnds
CHECK_DEADLOCK FALSE
