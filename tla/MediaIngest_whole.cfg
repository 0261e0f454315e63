\* One job of a local file, and a signal or a death.
CONSTANTS
  a = a
  b = b
  Callers = {a}
  Outputs <- MCOutputs
  Subjects <- Single
  Segments <- MCSegments
  MaxFaults = 1
SPECIFICATION IngestSpec
INVARIANTS
  FinishedFilesWhole
CHECK_DEADLOCK FALSE
