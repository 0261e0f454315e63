\* Two ingests, two densify requests of windows that overlap, and two faults.
CONSTANTS
  f1 = f1
  f2 = f2
  d1 = d1
  d2 = d2
  Jobs = {f1, f2, d1, d2}
  Kind <- MCKind
  Window <- MCWindow
  SceneEnd = 22
  Look <- MCLook
  WithText = {8}
  Modes = {TRUE, FALSE}
  MaxOverlap = 2
  Disorderly = {f1, d1}
  MaxIdx = 8
  MaxFaults = 2
SPECIFICATION Spec
INVARIANTS
  IndexTypeOK
  QuietIndexCurrent
  SceneVectorOfRows
PROPERTIES
  SampledFramesStored
  DensifyLeavesFrames
  NoSecondCopy
CHECK_DEADLOCK FALSE
