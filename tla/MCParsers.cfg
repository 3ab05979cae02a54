CONSTANTS
  MaxFields = 14
  MaxPieces = 3
SPECIFICATION ParsersSpec
INVARIANTS Aligned NullOnlyWithoutFix FixNotFromMode ReadsAsWritten
CHECK_DEADLOCK FALSE
