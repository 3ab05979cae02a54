CONSTANTS
  SourceOrder = TRUE
  MaxSample = 4
SPECIFICATION Spec
INVARIANTS ReadyIsWhole TakenIsWhole
CHECK_DEADLOCK FALSE
