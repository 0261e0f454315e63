\* An ingest and two densify requests, of which two may run at once.
CONSTANTS
  f1 = f1
  f2 = f2
  d1 = d1
  d2 = d2
  Jobs = {f1, d1, d2}
  Kind <- MCKind
  Window <- MCWindow
  SceneEnd = 22
  Look <- MCLook
  WithText = {8}
  Modes = {FALSE}
  MaxOverlap = 2
  Disorderly = {f1, d1, d2}
  MaxIdx = 8
  MaxFaults = 0
SPECIFICATION Spec
INVARIANTS
  FramesCoherent
CHECK_DEADLOCK FALSE
