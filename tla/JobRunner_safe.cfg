\* A live runner is never silent for longer than its lease lasts.
CONSTANTS
  Jobs = {j1, j2}
  Runners = {r1, r2}
  NoRunner = NoRunner
  NoJob = NoJob
  NStages = 2
  StaleAfter = 1
  MaxGap = 1
  MaxCrashes = 2
SPECIFICATION Spec
INVARIANTS
  TypeOK
  ExclusiveExecution
  LeaseHeld
  ResumePoint
  DoneIsComplete
  CheckpointDurable
PROPERTIES
  OutcomeIsFinal
  ImplementsLifecycle
