CONSTANTS
  Copies = {c1, c2}
  NULL = NULL
  SourceOrder = FALSE
  MaxWait = 1
  MaxSecond = 3
  MaxBacklog = 2
SPECIFICATION Spec
INVARIANT HandoffSafe
SYMMETRY CopySymmetry
CHECK_DEADLOCK FALSE
