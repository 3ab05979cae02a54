CONSTANTS
  QueueSize = 4
  BufferSize = 6
  TextLengths = {1, 2}
  IniLength = 2
  EphLengths = {1, 2}
  MaxMessages = 4
  Instants <- MCInstants
SPECIFICATION Spec
INVARIANTS Recovers WithinBuffer AidRight
CHECK_DEADLOCK FALSE
