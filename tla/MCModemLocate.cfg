CONSTANTS
  MaxFields = 6
  MaxUnsolicited = 2
SPECIFICATION FairSpec
INVARIANTS InStep OkIsForLocate CoordinatesInPlace LineIsOwed
PROPERTY Ends
CHECK_DEADLOCK FALSE
