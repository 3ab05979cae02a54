CONSTANTS
  SourceOrder = TRUE
  MaxSample = 3
  MaxClock = 2
SPECIFICATION PppSpec
INVARIANTS TypeOK WholeWhenValid SocketClosed SegmentMapped LatitudeNotOlder WholeUnlessOverlapped
PROPERTIES StampNotAhead ReportsAdvance ShutdownAdvances Terminates CatchesUp
CHECK_DEADLOCK FALSE
