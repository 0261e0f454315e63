\* Two jobs, the first of a request that runs it itself; a worker with one child
\* at a time; a stop or kill of a parent, and a crash.
CONSTANTS
  Jobs = {1, 2}
  Inline = {1}
  Runners = {r1, r2}
  NoRunner = NoRunner
  NoJob = NoJob
  NStages = 1
  StaleAfter = 1
  MaxGap = 1
  MaxCrashes = 1
  Concurrency = 1
  MaxStops = 1
SPECIFICATION WorkerSpec
INVARIANTS
  WorkerTypeOK
  NoAbandonedLease
PROPERTIES
  DrivesRunners
  EveryJobSettles
