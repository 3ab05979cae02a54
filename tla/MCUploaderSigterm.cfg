CONSTANTS
  SourceOrder = TRUE
  MaxSample = 1
  MaxClock = 1
SPECIFICATION FairSpec
PROPERTY Terminates
CHECK_DEADLOCK FALSE
