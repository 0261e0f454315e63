\* One ingest of a static shot without text.
CONSTANTS
  f1 = f1
  f2 = f2
  d1 = d1
  d2 = d2
  Jobs = {f1}
  Kind <- MCKind
  Window <- MCWindow
  SceneEnd = 22
  Look <- StaticLook
  WithText = {}
  Modes = {TRUE}
  MaxOverlap = 1
  Disorderly = {}
  MaxIdx = 5
  MaxFaults = 0
SPECIFICATION Spec
INVARIANTS
  SilentSceneDescribed
CHECK_DEADLOCK FALSE
