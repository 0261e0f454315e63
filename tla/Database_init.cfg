\* Two processes of init-db from nothing beside a job, or one from version 5 beside two.
CONSTANTS
  i1 = i1
  i2 = i2
  j1 = j1
  j2 = j2
  Inits = {i1, i2}
  Jobs = {j1, j2}
  Count <- MCCount
  Objects <- MCObjects
  Succeeds <- MCSucceeds
  Effect <- MCEffect
  SchemaAt <- MCSchemaAt
  Needs <- MCNeeds
  Setups <- MCSetups
  MaxFaults = 1
SPECIFICATION Spec
INVARIANTS
  DbTypeOK
  SchemaOfRecord
  InitUpComplete
  DoneJobProjected
PROPERTIES
  SchemaCompletes
  JobsEnd
CHECK_DEADLOCK FALSE
