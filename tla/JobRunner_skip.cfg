\* One runner dies; leases are kept alive.
CONSTANTS
  Jobs = {j1}
  Runners = {r1, r2}
  NoRunner = NoRunner
  NoJob = NoJob
  NStages = 2
  StaleAfter = 1
  MaxGap = 1
  MaxCrashes = 1
SPECIFICATION Spec
PROPERTIES
  CompletedStagesSkipped
