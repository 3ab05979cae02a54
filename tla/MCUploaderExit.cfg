CONSTANTS
  SourceOrder = TRUE
  MaxSample = 2
  MaxClock = 2
SPECIFICATION Spec
PROPERTY ExitReportsCurrent
CHECK_DEADLOCK FALSE
