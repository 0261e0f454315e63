\* A stage may outlast the lease of its runner; nothing crashes.
CONSTANTS
  Jobs = {j1}
  Runners = {r1, r2}
  NoRunner = NoRunner
  NoJob = NoJob
  NStages = 2
  StaleAfter = 1
  MaxGap = 2
  MaxCrashes = 0
SPECIFICATION Spec
SYMMETRY Interchangeable
INVARIANTS
  ExclusiveExecution
