CONSTANTS
  SourceOrder = TRUE
  MaxSample = 2
  MaxClock = 2
SPECIFICATION Spec
INVARIANT UnchangedMeansUploaded
CHECK_DEADLOCK FALSE
